----------------------------- MODULE HwloopCore -----------------------------
(***************************************************************************)
(* The hardware loops of the specialised core: the register file of        *)
(* targets/cv32e40p/rtl/template/cv32e40p_hwloop_regs.sv, and the parts of *)
(* the controller and of the aligner that codegen/rtl/hwloop_pragma.py     *)
(* writes into the RTL.  One step is one instruction: the model has no     *)
(* stalls, and the aligner sees the counters the controller sees (the      *)
(* patcher pads every body to 16 bytes for that).                          *)
(*                                                                         *)
(* hw is a record of                                                       *)
(*   loop    [id -> the loop whose label and end the address registers     *)
(*           hold, 0 after reset]                                          *)
(*   cnt     [id -> counter]        shadow  [id -> its reload value]       *)
(*   fsm     "DECODE" or "DECODE_HWLOOP"                                   *)
(***************************************************************************)
EXTENDS LoopShape

Reset(ids) ==
  [loop   |-> [i \in ids |-> 0],
   cnt    |-> [i \in ids |-> 0],
   shadow |-> [i \in ids |-> 0],
   fsm    |-> "DECODE"]

\* hwloop.bounds, or hwloop.start and hwloop.end: the counter is cleared
WriteBounds(hw, i, l) ==
  [hw EXCEPT !.loop[i] = l, !.cnt[i] = 0]

\* hwloop.count
WriteCount(hw, i, v, cntWidth) ==
  [hw EXCEPT !.cnt[i] = Word(v, cntWidth), !.shadow[i] = Word(v, cntWidth)]

\* hwlp_end_eq_pc: the instruction at q is the last one before these ends
AtEnd(hw, q) == {i \in DOMAIN hw.cnt : q[1] = "back" /\ hw.loop[i] = q[2]}

\* Seeded fault: no decrement once in the hardware-loop state
DecWantedInDecode(hw, q) ==
  {i \in AtEnd(hw, q) : hw.fsm = "DECODE" /\ hw.cnt[i] # 0}

\* The counters the controller asks to decrement
DecWanted(hw, q) ==
  {i \in AtEnd(hw, q) :
     IF hw.fsm = "DECODE" THEN hw.cnt[i] = 1 ELSE hw.cnt[i] # 0}

\* ... of which the innermost wins when they start at different addresses
DecCnt(hw, q) ==
  {i \in DecWanted(hw, q) :
     ~\E j \in DecWanted(hw, q) : j > i /\ hw.loop[j] # hw.loop[i]}

\* Seeded fault: every counter from the decremented one on is decremented
CountersFrom(hw, q) ==
  [i \in DOMAIN hw.cnt |->
     IF \E j \in DecCnt(hw, q) : j <= i THEN hw.cnt[i] - 1 ELSE hw.cnt[i]]

\* HWLOOP_REGS_COUNTER without a write: a decremented counter reloads those
\* of higher ids from their shadows
Counters(hw, q) ==
  LET dec == DecCnt(hw, q)
  IN  [i \in DOMAIN hw.cnt |->
         IF i \in dec THEN hw.cnt[i] - 1
         ELSE IF \E j \in dec : j < i THEN hw.shadow[i] ELSE hw.cnt[i]]

\* is_hwlp_body
IsBody(p, hw, q) ==
  \E i \in DOMAIN hw.cnt :
    /\ hw.loop[i] # 0
    /\ Within(p, q, hw.loop[i])
    /\ hw.cnt[i] > 1

\* ctrl_fsm_ns
NextFsm(p, hw, q) ==
  IF hw.fsm = "DECODE"
  THEN IF IsBody(p, hw, q) THEN "DECODE_HWLOOP" ELSE "DECODE"
  ELSE LET live == {i \in AtEnd(hw, q) : hw.cnt[i] # 0}
       IN  IF live = {} \/ hw.cnt[Max(live)] > 1 \/ IsBody(p, hw, q)
           THEN "DECODE_HWLOOP" ELSE "DECODE"

\* One instruction at q that does not write the hardware-loop registers
Execute(p, hw, q) ==
  [hw EXCEPT !.cnt = Counters(hw, q), !.fsm = NextFsm(p, hw, q)]

\* Seeded fault: one iteration too many
WrapsOnOne(hw, q) == \E i \in AtEnd(hw, q) : hw.cnt[i] >= 1

\* The aligner goes back to a loop's start: the lowest id whose end is
\* reached with a live counter decides (inner_finishing)
Wraps(hw, q) ==
  LET live == {i \in AtEnd(hw, q) : hw.cnt[i] > 0}
  IN  live # {} /\ hw.cnt[Min(live)] > 1
=============================================================================
