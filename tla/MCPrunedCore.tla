----------------------------- MODULE MCPrunedCore -----------------------------
(***************************************************************************)
(* Instances of PrunedCore: programs that use lone instructions of a       *)
(* group, single CSRs and single multiplier modes, and the lines of the    *)
(* shipped core in which the features meet (with their pragmas), completed *)
(* by a chain of dead declarations and an unused mode of the multiplier.   *)
(***************************************************************************)
EXTENDS PrunedCore

Program(base, compressed, csrs) ==
  [mnemonics |-> {<<FALSE, n>> : n \in base} \cup {<<TRUE, n>> : n \in compressed}, csrs |-> csrs]

MCPrograms ==
  {Program({"addi", "lw", "sw", "jal", "jalr", "bne", "slli", "fence"}, {"unimp"}, {}),
   Program({"lui", "sub", "slt", "mul", "bgeu", "lbu", "andi"}, {"mv", "beqz", "srli"}, {"mcycle"}),
   Program({"addi", "mulhu", "sltu", "srai", "sb", "wfi"}, {"li", "jr", "or"}, {"minstreth", "mcountinhibit"}),
   Program({"auipc", "div", "remu", "xori", "blt", "sll", "lh"}, {}, {"mscratch", "mcounteren", "dscratch0", "tinfo", "tdata1"}),
   Program({"addi", "mulhsu", "ori", "bge", "sra", "lhu"}, {"ebreak"}, {"mtval", "mstatus", "dpc", "dcsr", "tdata3"}),
   Program({"addi", "csrrw", "mret", "bltu", "sltiu"}, {"lwsp"}, {"mtvec", "mie"})}

MCWorkspaces ==
  {b \in [fused : MCPrograms \cup {NoBinary}, core : MCPrograms \cup {NoBinary}, spike : MCPrograms \cup {NoBinary}] :
     Exists(b.core) \/ Exists(b.spike)}

MCWords ==
  [opcode : {"LUI", "AUIPC", "JAL", "JALR", "BRANCH", "LOAD", "STORE", "OPIMM", "OP", "FENCE"},
   f3 : 0..7, f7 : {0, 1, 32, 33, 64, 65, 96}]

Line(file, kind, decl, uses, tag) == [file |-> file, kind |-> kind, decl |-> decl, uses |-> uses, tag |-> tag]

ControllerLines ==
  LET decl(names, tag) == Line("controller", "code", names, {}, tag)
      code(names, tag) == Line("controller", "code", {}, names, tag)
  IN  {decl({"dret_insn_i"}, <<"DBG", "REMOVE">>), decl({"trigger_match_i", "debug_wfi_no_sleep_o"}, <<"DBG", "REMOVE">>),
       decl({"irq_req_ctrl_i", "irq_wu_ctrl_i"}, <<"IRQ", "REMOVE">>), decl({"irq_ack_o", "irq_id_o"}, <<"IRQ", "REMOVE">>),
       decl({"debug_mode_q", "debug_mode_n"}, <<"DBG", "REMOVE">>), decl({"debug_req_pending"}, <<"DBG", "REMOVE">>),
       code({"debug_mode_n", "debug_mode_q"}, <<"DBG", "REMOVE">>), code({"debug_req_pending"}, <<"DBG", "REMOVE">>),
       code({"EXC_PC_IRQ"}, <<"IRQ", "controller_exc_pc_mux_init">>),
       code({"irq_req_ctrl_i", "debug_req_pending", "debug_mode_q"}, <<"CTRL", "first_fetch_irq_block">>),
       code({"EXC_PC_IRQ", "irq_ack_o", "irq_id_o"}, <<"CTRL", "first_fetch_irq_block">>),
       code({"irq_req_ctrl_i", "irq_ack_o"}, <<"CTRL", "decode_irq_block">>),
       code({"irq_req_ctrl_i", "debug_mode_q"}, <<"CTRL", "irq_flush_elw_irq_block">>),
       code({"debug_mode_q"}, <<"DBG", "ctrl_csr_save_cause">>),
       code({"debug_mode_q", "EXC_PC_DBE", "EXC_PC_EXCEPTION"}, <<"DBG", "ctrl_exc_pc_mux">>),
       code({"dret_insn_i"}, <<"DBG", "ctrl_xret_case_label">>),
       code({"debug_req_pending", "trigger_match_i", "debug_mode_q"}, <<"CTRL", "elw_exe_next_state">>),
       code({"irq_wu_ctrl_i", "debug_req_pending", "debug_mode_q"}, <<"CTRL", "ctrl_wake_from_sleep">>),
       code({"debug_wfi_no_sleep_o"}, <<"DBG", "controller_wfi_gating">>),
       code({"PC_DRET"}, <<"DBG", "REMOVE">>), code({"PC_MRET"}, <<"DBG", "ctrl_pc_mux_mret">>)}

OtherLines ==
  LET line(file, decl, uses, tag) == Line(file, "code", decl, uses, tag)
  IN  {line("cs_registers", {"dcsr_q", "depc_n"}, {}, <<"DBG", "REMOVE">>),
       line("cs_registers", {"mepc_n", "mstatus_q"}, {}, <<>>),
       line("cs_registers", {"debug_csr_save_i"}, {}, <<"DBG", "REMOVE">>),
       line("cs_registers", {}, {"debug_csr_save_i", "depc_n", "mepc_n"}, <<"DBG", "cs_regs_if_debug">>),
       line("cs_registers", {}, {"dcsr_q", "mstatus_q"}, <<"DBG", "csr_irq_enable">>),
       line("pkg", {"EXC_PC_EXCEPTION", "EXC_PC_IRQ", "EXC_PC_DBE"}, {}, <<"CTRL", "pkg_exc_pc_mux">>),
       line("pkg", {"PC_MRET", "PC_DRET"}, {}, <<"CTRL", "pkg_pc_mux">>),
       line("pkg", {"IMMB_I", "IMMB_S2"}, {}, <<"PULP", "pkg_immb">>),
       line("alu", {"is_clpx_i"}, {}, <<"PULP", "REMOVE">>),
       line("alu", {}, {"is_clpx_i"}, <<"PULP", "alu_shift_amt_norm">>),
       line("id_stage", {"ctrl_transfer_insn_in_dec"}, {}, <<>>),
       Line("id_stage", "port", {}, {"irq_req_ctrl", "irq_wu_ctrl"}, <<>>),
       line("id_stage", {"irq_req_ctrl", "irq_wu_ctrl"}, {}, <<"IRQ", "REMOVE">>),
       line("mult", {}, {"MUL_MAC32", "MUL_H"}, <<>>), line("mult", {}, {"MUL_I"}, <<>>),
       Line("id_stage", "sva", {}, {"MUL_MSU32", "MUL_DOT8", "MUL_DOT16", "MUL_IR"}, <<>>),
       line("mult", {}, {"IDLE_MULT", "STEP0"}, <<>>), line("mult", {}, {"STEP1", "STEP2", "FINISH"}, <<>>)}

\* A chain: the second name is dead only once the first line is gone.
ChainLines ==
  {Line("ex_stage", "code", {"first"}, {}, <<>>), Line("ex_stage", "code", {"second"}, {}, <<>>),
   Line("ex_stage", "code", {"live"}, {}, <<>>), Line("ex_stage", "code", {}, {"live", "second"}, <<"PULP", "REMOVE">>),
   Line("ex_stage", "code", {}, {"live"}, <<>>)}

MCCore == ControllerLines \cup OtherLines \cup ChainLines

MCEnums ==
  [mul_opcode_e |-> [members |-> <<"MUL_MAC32", "MUL_MSU32", "MUL_I", "MUL_IR", "MUL_DOT8", "MUL_DOT16", "MUL_H">>,
                     width |-> 3],
   mult_state_e |-> [members |-> <<"IDLE_MULT", "STEP0", "STEP1", "STEP2", "FINISH">>, width |-> 3]]
=============================================================================
