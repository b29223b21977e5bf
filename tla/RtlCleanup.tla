------------------------------ MODULE RtlCleanup ------------------------------
(***************************************************************************)
(* What happens to the text of the core after its case items are pruned:   *)
(* the pragmas of the DBG, PULP, IRQ and CTRL features, dead-code          *)
(* elimination, and the re-encoding of the enumerations.  A line           *)
(* is [file, kind, decl, uses, tag]: the names it declares and mentions,   *)
(* and the innermost pragma <<prefix, name>> it stands in (<<>>: none).    *)
(* Kinds are "code", "sva" (compiled for assertions only) and "port" (a    *)
(* connection: an undeclared name is an implicit net there).               *)
(***************************************************************************)
EXTENDS Naturals, FiniteSets, Sequences

Lines == [file : STRING, kind : {"code", "sva", "port"}, decl : SUBSET STRING, uses : SUBSET STRING, tag : Seq(STRING)]

Names(l) == l.decl \cup l.uses

Without(l, names) == [l EXCEPT !.decl = @ \ names, !.uses = @ \ names]

DebugNames ==
  {"debug_mode_q", "debug_req_pending", "trigger_match_i", "debug_wfi_no_sleep_o", "debug_p_elw_no_sleep_i",
   "debug_csr_save_i", "depc_n", "dcsr_q", "dret_insn_i", "EXC_PC_DBE", "EXC_PC_DBD", "PC_DRET"}

InterruptNames == {"irq_req_ctrl_i", "irq_wu_ctrl_i", "IRQ_FLUSH_ELW", "EXC_PC_IRQ"}

PulpNames ==
  {"ALU_SUBR", "ALU_ABS", "ALU_BINS", "is_clpx_i", "is_subrot_i", "bmask", "VEC_MODE16", "VEC_MODE8", "IMMB_S2", "IMMB_VS"}

DbgGenerators ==
  {"cs_regs_if_debug", "csr_irq_enable", "ctrl_csr_save_cause", "ctrl_exc_pc_mux", "ctrl_pc_mux_mret",
   "ctrl_xret_case_label", "controller_wfi_gating", "sleep_core_sleep_elw"}

PulpGenerators == {"alu_adder_negate", "alu_adder_op_a", "alu_shift_left", "alu_shift_amt_norm", "pkg_vec_mode", "pkg_immb"}

\* At level 0 a generator writes the line without the feature's names, and
\* at level 1 the original line again; the one of IRQ returns None there,
\* which the substitution takes for an empty text.
Generated(prefix, name, on, l) ==
  CASE prefix = "DBG"  /\ name \in DbgGenerators  -> {IF on THEN l ELSE Without(l, DebugNames)}
    [] prefix = "PULP" /\ name \in PulpGenerators -> {IF on THEN l ELSE Without(l, PulpNames)}
    [] prefix = "IRQ"  /\ name = "controller_exc_pc_mux_init" -> IF on THEN {} ELSE {Without(l, {"EXC_PC_IRQ"})}
    [] OTHER -> IF on THEN {l} ELSE {}

FeaturePragmas(lines, prefix, on) ==
  LET replaced(l) == CASE l.tag = <<>> \/ l.tag[1] # prefix -> {l}
                       [] l.tag[2] = "REMOVE" -> {}
                       [] l.tag[2] = "KEEP" -> IF on THEN {l} ELSE {}
                       [] OTHER -> Generated(prefix, l.tag[2], on, l)
  IN  UNION {replaced(l) : l \in lines}

IrqBlocks == {"first_fetch_irq_block", "decode_irq_block", "decode_hwloop_irq_block", "irq_flush_elw_irq_block"}

\* The blocks of the controller see both features; an interrupt block is
\* removed or kept whole, so that its debug terms survive without debug.
CtrlGenerated(name, irq, dbg, l) ==
  CASE name \in IrqBlocks -> IF irq THEN {l} ELSE {}
    [] name = "elw_exe_next_state" -> {IF irq /\ dbg THEN l
                                       ELSE Without(l, (IF irq THEN {} ELSE {"IRQ_FLUSH_ELW"})
                                                         \cup (IF dbg THEN {} ELSE DebugNames))}
    [] OTHER -> {Without(l, (IF irq THEN {} ELSE InterruptNames) \cup (IF dbg THEN {} ELSE DebugNames))}

\* Seeded fault: the interrupt blocks stay when only debug is off.
CtrlPragmasKept(lines, irq, dbg) ==
  UNION {IF l.tag # <<>> /\ l.tag[1] = "CTRL" THEN CtrlGenerated(l.tag[2], TRUE, dbg, l) ELSE {l} : l \in lines}

CtrlPragmas(lines, irq, dbg) ==
  UNION {IF l.tag # <<>> /\ l.tag[1] = "CTRL" THEN CtrlGenerated(l.tag[2], irq, dbg, l) ELSE {l} : l \in lines}

(***************************************************************************)
(* Dead code: a name declared by a local logic line and mentioned on no    *)
(* other line of its file is dead, and the whole line goes, whatever else  *)
(* it declares.  An assignment mentions its left side, so that an assigned *)
(* name is never dead.                                                     *)
(***************************************************************************)
MaxIterations == 5

Declarations(lines, file) == {l \in lines : l.file = file /\ l.decl # {} /\ l.uses = {} /\ l.kind = "code"}

Dead(lines, d) == {n \in d.decl : \A l \in lines \ {d} : l.file = d.file => n \notin Names(l)}

DeadCode(lines, packages) ==
  LET locals(s) == {d \in s : d.file \notin packages /\ d \in Declarations(s, d.file)}
      pass(s)   == s \ {d \in locals(s) : Dead(s, d) # {}}
      after[n \in 0..MaxIterations] == IF n = 0 THEN lines ELSE pass(after[n - 1])
  IN  after[MaxIterations]

(***************************************************************************)
(* Enumerations.  A definition is [members, width, explicit], its members  *)
(* in order.  The state enumerations of the controller are left alone.     *)
(***************************************************************************)
SkipEnums == {"ctrl_state_e", "debug_state_e", "csr_num_e"}

\* References to removable modes leave the assertions only.
CleanDeadReferences(lines, dead) == {IF l.kind = "sva" THEN [l EXCEPT !.uses = @ \ dead] ELSE l : l \in lines}

UsedMembers(lines, enum, package) ==
  {n \in {enum.members[i] : i \in DOMAIN enum.members} : \E l \in lines : l.file # package /\ n \in Names(l)}

\* ceil(log2(max(n, 2)))
BitsFor(n) == CHOOSE w \in 1..8 : 2^w >= n /\ \A v \in 1..(w - 1) : 2^v < n

\* Seeded fault: the logarithm is rounded down.
NewWidthFloor(kept) == CHOOSE w \in 1..8 : 2^w <= Len(kept) /\ 2^(w + 1) > Len(kept)

NewWidth(kept) == BitsFor(Len(kept))

\* The members in use, in the order of the definition.
KeptMembers(members, used) ==
  LET upto[i \in 0..Len(members)] == IF i = 0 THEN <<>>
                                     ELSE IF members[i] \in used THEN Append(upto[i - 1], members[i])
                                     ELSE upto[i - 1]
  IN  upto[Len(members)]

Reencoding(name, enum, used) ==
  LET kept  == KeptMembers(enum.members, used)
      width == NewWidth(kept)
      same  == width >= enum.width /\ Len(kept) = Len(enum.members)
  IN  IF name \in SkipEnums \/ kept = <<>> \/ same THEN enum
      ELSE [enum EXCEPT !.members = kept, !.width = width]

MemberValue(enum, n) == (CHOOSE i \in DOMAIN enum.members : enum.members[i] = n) - 1
=============================================================================
