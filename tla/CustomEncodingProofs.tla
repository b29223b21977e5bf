------------------------- MODULE CustomEncodingProofs -------------------------
(***************************************************************************)
(* The encodings of CustomEncoding are apart for every bound on the number *)
(* of 3-grams: the .md patterns from each other, the hardware-loop         *)
(* instructions from the .md patterns and from each other.                 *)
(***************************************************************************)
EXTENDS CustomEncoding, FiniteSetTheorems, TLAPS

-----------------------------------------------------------------------------
(* The slot arithmetic.                                                    *)

LEMMA R4EncType ==
  ASSUME NEW s \in 0 .. R4Max - 1
  PROVE  R4Enc(s) \in Encoding
BY SMT DEF R4Enc, Encoding, Opcode, Funct3, R4Max, OpcodeCount, SlotsPerOpcode

\* Different slots have encodings the decoder can tell apart.
LEMMA R4EncApart ==
  ASSUME NEW s \in Nat, NEW t \in Nat, s # t
  PROVE  ~Ambiguous(R4Enc(s), R4Enc(t))
BY SMT DEF R4Enc, Ambiguous, SlotsPerOpcode

\* Where the four instructions of a registry that starts at slot n end up:
\* on multiples of four, in order, less than eight funct3 values apart.
LEMMA HwloopSlotShape ==
  ASSUME NEW n \in Nat
  PROVE  LET h == HwloopSlot(n) IN
           /\ \A i \in HwloopInsn : h[i] \in Nat /\ h[i] >= n /\ h[i] % 4 = 0
           /\ h["count"] = h["bounds"] + 4
           /\ h["start"] = h["bounds"] + 12
           /\ h["end"] = h["bounds"] + 16
<1> DEFINE h == HwloopSlot(n)
           b == EnsureSameOpcode(n)
<1>1. b \in Nat /\ b >= n
  BY SMT DEF EnsureSameOpcode, Align, OpcodeEnd, SlotsPerOpcode
<1>2. Align(b) \in Nat /\ Align(b) >= b /\ Align(b) % 4 = 0
  BY <1>1, SMT DEF Align
<1> DEFINE a == Align(b)
<1>a. a \in Nat /\ a % 4 = 0 /\ a >= n
  BY <1>1, <1>2
<1>3. h["bounds"] = a
  BY DEF HwloopSlot, HwloopInsn, AllocSlot, BoundsNext
<1> HIDE DEF b
<1>4. CountNext(n) = a + 4
  BY DEF CountNext, AfterAlloc, AllocSlot, BoundsNext, b
<1> HIDE DEF a
<1>5. Align(a + 4) = a + 4
  BY <1>a, SMT DEF Align
<1>6. h["count"] = a + 4
  BY <1>4, <1>5 DEF HwloopSlot, HwloopInsn, AllocSlot
<1>7. StartNext(n) = a + 9
  BY <1>4, <1>5, <1>a, SMT DEF StartNext, AfterAlloc, AllocSlot
<1>8. Align(a + 9) = a + 12
  BY <1>a, SMT DEF Align
<1>9. h["start"] = a + 12
  BY <1>7, <1>8 DEF HwloopSlot, HwloopInsn, AllocSlot
<1>10. EndNext(n) = a + 16
  BY <1>7, <1>8, <1>a, SMT DEF EndNext, AfterAlloc, AllocSlot
<1>11. Align(a + 16) = a + 16
  BY <1>a, SMT DEF Align
<1>12. h["end"] = a + 16
  BY <1>10, <1>11 DEF HwloopSlot, HwloopInsn, AllocSlot
<1>14. \A i \in HwloopInsn : h[i] \in Nat /\ h[i] >= n /\ h[i] % 4 = 0
  <2> SUFFICES ASSUME NEW i \in HwloopInsn
               PROVE  h[i] \in Nat /\ h[i] >= n /\ h[i] % 4 = 0
    OBVIOUS
  <2>1. h[i] \in {a, a + 4, a + 12, a + 16}
    BY <1>3, <1>6, <1>9, <1>12 DEF HwloopInsn
  <2> HIDE DEF h
  <2> QED
    BY <2>1, <1>a, SMT
<1> HIDE DEF h
<1>15. QED
  BY <1>3, <1>6, <1>9, <1>12, <1>14 DEF h

\* The instructions of one registry differ in funct3.
LEMMA HwloopEncodingFunct3 ==
  ASSUME NEW n \in Nat, NEW i \in HwloopInsn, NEW j \in HwloopInsn, i # j
  PROVE  HwloopEncoding(n)[i].funct3 # HwloopEncoding(n)[j].funct3
<1> DEFINE h == HwloopSlot(n)
<1>1. /\ \A k \in HwloopInsn : h[k] \in Nat /\ h[k] >= n /\ h[k] % 4 = 0
      /\ h["count"] = h["bounds"] + 4
      /\ h["start"] = h["bounds"] + 12
      /\ h["end"] = h["bounds"] + 16
  BY HwloopSlotShape
<1>2. \A k \in HwloopInsn : HwloopEncoding(n)[k].funct3 = (h[k] % 32) \div 4
  BY DEF HwloopEncoding, R4Enc, SlotsPerOpcode
<1> HIDE DEF h
<1> DEFINE a == h["bounds"]
<1>3. a \in Nat /\ a % 4 = 0
  BY <1>1 DEF HwloopInsn
<1>4. h[i] \in {a, a + 4, a + 12, a + 16} /\ h[j] \in {a, a + 4, a + 12, a + 16} /\ h[i] # h[j]
  BY <1>1, <1>3 DEF HwloopInsn
<1> HIDE DEF a
<1>5. (h[i] % 32) \div 4 # (h[j] % 32) \div 4
  BY <1>3, <1>4, SMT
<1>6. QED
  BY <1>2, <1>5

\* A registry that starts behind a slot never takes the funct3 of that slot.
LEMMA HwloopEncodingBehind ==
  ASSUME NEW n \in Nat, NEW s \in Nat, s < n, NEW i \in HwloopInsn
  PROVE  ~Shares(HwloopEncoding(n), i, R4Enc(s))
<1> DEFINE h == HwloopSlot(n)
<1>1. h[i] \in Nat /\ h[i] >= n /\ h[i] % 4 = 0
  BY HwloopSlotShape
<1>2. /\ HwloopEncoding(n)[i].opcode = h[i] \div 32
      /\ HwloopEncoding(n)[i].funct3 = (h[i] % 32) \div 4
  BY DEF HwloopEncoding, R4Enc, SlotsPerOpcode
<1>3. R4Enc(s).opcode = s \div 32 /\ R4Enc(s).funct3 = (s % 32) \div 4
  BY DEF R4Enc, SlotsPerOpcode
<1> HIDE DEF h
<1>4. ~(h[i] \div 32 = s \div 32 /\ (h[i] % 32) \div 4 = (s % 32) \div 4)
  BY <1>1, SMT
<1>5. QED
  BY <1>2, <1>3, <1>4 DEF Shares

LEMMA HwloopEncodingType ==
  ASSUME NEW n \in Nat, ~RegistryOverflows(n)
  PROVE  HwloopEncoding(n) \in Registry
<1>1. \A i \in HwloopInsn : HwloopSlot(n)[i] \in 0 .. R4Max - 1
  <2> SUFFICES ASSUME NEW i \in HwloopInsn PROVE HwloopSlot(n)[i] \in 0 .. R4Max - 1
    OBVIOUS
  <2>1. HwloopSlot(n)[i] \in Nat
    BY HwloopSlotShape
  <2>2. ~(HwloopSlot(n)[i] >= R4Max)
    BY DEF RegistryOverflows
  <2> QED
    BY <2>1, <2>2, SMT DEF R4Max, OpcodeCount, SlotsPerOpcode
<1>2. \A i \in HwloopInsn : /\ R4Enc(HwloopSlot(n)[i]).opcode \in Opcode
                             /\ R4Enc(HwloopSlot(n)[i]).funct3 \in Funct3
  BY <1>1, R4EncType DEF Encoding
<1> QED
  BY <1>2 DEF HwloopEncoding, Registry

-----------------------------------------------------------------------------
(* The inductive invariant.                                                *)

\* The .md file holds the encodings of the slots counted so far.
MdShape == md = {R4Enc(s) : s \in 0 .. r4Slot - 1}

TriShape == /\ triSlot.r4 >= r4Slot \/ phase = "merge"
            /\ phase = "merge" => triSlot = [r4 |-> 0, r |-> 0]

\* Once the benchmark is compiled with fused instructions, next_r4_slot lies
\* behind every .md pattern.
NextSlotShape ==
  /\ used => nextR4Slot >= r4Slot
  /\ fusedOps => used
  /\ phase \in {"merge", "trigram"} => ~used

RegistryShape ==
  /\ asmFused # None => asmFused = HwloopEncoding(FusedNextSlot)
  /\ asmPlain # None => asmPlain = HwloopEncoding(0)
  /\ rtl # None => rtl = HwloopEncoding(RtlNextSlot)
  /\ phase \in {"merge", "trigram", "compiled"} =>
       asmFused = None /\ asmPlain = None /\ rtl = None
  /\ phase = "rtl" => rtl = HwloopEncoding(RtlNextSlot)
  /\ phase \in {"assembled", "rtl"} => asmFused = HwloopEncoding(FusedNextSlot)

IInv == TypeOK /\ MdShape /\ TriShape /\ NextSlotShape /\ RegistryShape

-----------------------------------------------------------------------------
(* The invariant is inductive.                                             *)

LEMMA InitIInv == Init => IInv
<1> SUFFICES ASSUME Init PROVE IInv
  OBVIOUS
<1> USE DEF Init
<1>1. TypeOK
  <2>1. r4Slot \in 0 .. R4Max /\ triSlot \in [r4 : Nat, r : Nat] /\ nextR4Slot \in Nat
    BY SMT DEF R4Max, OpcodeCount, SlotsPerOpcode
  <2>2. QED
    BY <2>1 DEF TypeOK
<1>2. MdShape
  <2>1. 0 .. r4Slot - 1 = {}
    BY SMT
  <2>2. QED
    BY <2>1 DEF MdShape
<1>3. TriShape /\ NextSlotShape /\ RegistryShape
  BY DEF TriShape, NextSlotShape, RegistryShape
<1>4. QED
  BY <1>1, <1>2, <1>3 DEF IInv

\* What the build of a registry leaves behind.
LEMMA NextSlotsNat == TypeOK => FusedNextSlot \in Nat /\ RtlNextSlot \in Nat
BY DEF TypeOK, FusedNextSlot, RtlNextSlot

LEMMA StepIInv == IInv /\ [Next]_vars => IInv'
<1> SUFFICES ASSUME IInv, [Next]_vars PROVE IInv'
  OBVIOUS
<1> USE DEF IInv
<1>1. ASSUME AddMdPattern PROVE IInv'
  <2> USE <1>1 DEF AddMdPattern, triVars, gccVars, regVars
  <2>1. R4Enc(r4Slot) \in Encoding
    BY R4EncType, SMT DEF TypeOK, R4Max, OpcodeCount, SlotsPerOpcode
  <2>2. r4Slot' \in 0 .. R4Max
    BY SMT DEF TypeOK, R4Max, OpcodeCount, SlotsPerOpcode
  <2>3. TypeOK'
    BY <2>1, <2>2 DEF TypeOK
  <2>4. MdShape'
    <3>1. 0 .. r4Slot' - 1 = (0 .. r4Slot - 1) \cup {r4Slot}
      BY SMT DEF TypeOK
    <3>2. QED
      BY <3>1 DEF MdShape
  <2>5. TriShape' /\ NextSlotShape'
    BY DEF TriShape, NextSlotShape
  <2>6. RegistryShape'
    BY DEF RegistryShape
  <2>7. QED
    BY <2>3, <2>4, <2>5, <2>6
<1>2. ASSUME EndMerge PROVE IInv'
  <2> USE <1>2 DEF EndMerge, mdVars, gccVars, regVars
  <2>1. TypeOK'
    BY SMT DEF TypeOK
  <2>2. MdShape' /\ NextSlotShape' /\ RegistryShape'
    BY DEF MdShape, NextSlotShape, RegistryShape
  <2>3. TriShape'
    BY SMT DEF TriShape, TypeOK
  <2>4. QED
    BY <2>1, <2>2, <2>3
<1>3. ASSUME AddTrigramR4 PROVE IInv'
  <2> USE <1>3 DEF AddTrigramR4, mdVars, gccVars, regVars
  <2>1. [opcode |-> triSlot.r4 \div 16, funct3 |-> (triSlot.r4 % 16) \div 4,
         kind |-> "r4", funct |-> triSlot.r4 % 4] \in Encoding
    BY SMT DEF TypeOK, Encoding, Opcode, Funct3, OpcodeCount
  <2>2. triSlot' \in [r4 : Nat, r : Nat] /\ triSlot'.r4 = triSlot.r4 + 1
    BY DEF TypeOK
  <2>3. TypeOK'
    BY <2>1, <2>2 DEF TypeOK
  <2>4. MdShape' /\ NextSlotShape' /\ RegistryShape'
    BY DEF MdShape, NextSlotShape, RegistryShape
  <2>5. TriShape'
    BY <2>2, SMT DEF TriShape, TypeOK
  <2>6. QED
    BY <2>3, <2>4, <2>5
<1>4. ASSUME AddTrigramR PROVE IInv'
  <2> USE <1>4 DEF AddTrigramR, mdVars, gccVars, regVars
  <2>1. [opcode |-> triSlot.r \div (4 * 128), funct3 |-> 4 + (triSlot.r % (4 * 128)) \div 128,
         kind |-> "r", funct |-> triSlot.r % 128] \in Encoding
    BY SMT DEF TypeOK, Encoding, Opcode, Funct3, OpcodeCount
  <2>2. triSlot' \in [r4 : Nat, r : Nat] /\ triSlot'.r4 = triSlot.r4
    BY DEF TypeOK
  <2>3. TypeOK'
    BY <2>1, <2>2 DEF TypeOK
  <2>4. MdShape' /\ NextSlotShape' /\ RegistryShape'
    BY DEF MdShape, NextSlotShape, RegistryShape
  <2>5. TriShape'
    BY <2>2 DEF TriShape
  <2>6. QED
    BY <2>3, <2>4, <2>5
<1>5. ASSUME CompileMerged PROVE IInv'
  <2> USE <1>5 DEF CompileMerged, mdVars, triVars, gccVars, regVars
  <2>1. TrigramCount \in Nat
    BY SMT DEF TrigramCount, TriShape, TypeOK
  <2>2. CASE UNCHANGED gccVars
    BY <2>2 DEF TypeOK, NextSlotShape, MdShape, TriShape, RegistryShape
  <2>3. CASE /\ nextR4Slot' = r4Slot + TrigramCount
             /\ used' \in BOOLEAN
             /\ fusedOps' \in BOOLEAN
             /\ fusedOps' => used'
    <3>1. nextR4Slot' \in Nat /\ nextR4Slot' >= r4Slot
      BY <2>1, <2>3, SMT DEF TypeOK, R4Max, OpcodeCount, SlotsPerOpcode
    <3>2. TypeOK' /\ NextSlotShape'
      BY <2>3, <3>1 DEF TypeOK, NextSlotShape
    <3>3. QED
      BY <3>2 DEF MdShape, TriShape, RegistryShape
  <2>4. QED
    BY <2>2, <2>3
<1>6. ASSUME BuildAssemblerRegistries PROVE IInv'
  <2> USE <1>6 DEF BuildAssemblerRegistries, mdVars, triVars, gccVars, regVars
  <2>1. FusedNextSlot' = FusedNextSlot /\ RtlNextSlot' = RtlNextSlot
    BY DEF FusedNextSlot, RtlNextSlot
  <2>2. MdShape' /\ TriShape' /\ NextSlotShape'
    BY DEF MdShape, TriShape, NextSlotShape
  <2>3. CASE RegistryOverflows(FusedNextSlot)
    BY <2>1, <2>2, <2>3 DEF TypeOK, RegistryShape
  <2>4. CASE ~RegistryOverflows(FusedNextSlot)
    <3>1. HwloopEncoding(FusedNextSlot) \in Registry
      BY <2>4, NextSlotsNat, HwloopEncodingType
    <3>2. ~RegistryOverflows(0)
      BY SMT DEF RegistryOverflows, HwloopSlot, HwloopInsn, AllocSlot, BoundsNext, CountNext,
                 StartNext, EndNext, AfterAlloc, EnsureSameOpcode, Align, OpcodeEnd, R4Max,
                 OpcodeCount, SlotsPerOpcode
    <3>3. HwloopEncoding(0) \in Registry
      BY <3>2, HwloopEncodingType
    <3>4. QED
      BY <2>1, <2>2, <2>4, <3>1, <3>3 DEF TypeOK, RegistryShape
  <2>5. QED
    BY <2>3, <2>4
<1>7. ASSUME BuildRtlRegistry PROVE IInv'
  <2> USE <1>7 DEF BuildRtlRegistry, mdVars, triVars, gccVars
  <2>1. FusedNextSlot' = FusedNextSlot /\ RtlNextSlot' = RtlNextSlot
    BY DEF FusedNextSlot, RtlNextSlot
  <2>2. MdShape' /\ TriShape' /\ NextSlotShape'
    BY DEF MdShape, TriShape, NextSlotShape
  <2>3. CASE RegistryOverflows(RtlNextSlot)
    BY <2>1, <2>2, <2>3 DEF TypeOK, RegistryShape
  <2>4. CASE ~RegistryOverflows(RtlNextSlot)
    <3>1. HwloopEncoding(RtlNextSlot) \in Registry
      BY <2>4, NextSlotsNat, HwloopEncodingType
    <3>2. QED
      BY <2>1, <2>2, <2>4, <3>1 DEF TypeOK, RegistryShape
  <2>5. QED
    BY <2>3, <2>4
<1>8. ASSUME UNCHANGED vars PROVE IInv'
  BY <1>8 DEF vars, mdVars, triVars, gccVars, regVars, TypeOK, MdShape, TriShape, NextSlotShape,
              RegistryShape, FusedNextSlot, RtlNextSlot
<1>9. QED
  BY <1>1, <1>2, <1>3, <1>4, <1>5, <1>6, <1>7, <1>8 DEF Next

\* Every reachable state satisfies the inductive invariant.
THEOREM Invariant == Spec => []IInv
BY InitIInv, StepIInv, PTL DEF Spec

-----------------------------------------------------------------------------
(* The properties the runs check, for every bound on the 3-grams.          *)

\* Type correctness of the allocation.
THEOREM TypeCorrect == Spec => []TypeOK
<1>1. IInv => TypeOK
  BY DEF IInv
<1>2. QED
  BY <1>1, Invariant, PTL

\* The slots below n have n encodings.
LEMMA SlotsCardinality ==
  ASSUME NEW n \in Nat
  PROVE  /\ IsFiniteSet({R4Enc(s) : s \in 0 .. n - 1})
         /\ Cardinality({R4Enc(s) : s \in 0 .. n - 1}) = n
<1> DEFINE Enc == [s \in 0 .. n - 1 |-> R4Enc(s)]
           S == {R4Enc(s) : s \in 0 .. n - 1}
<1>1. Enc \in Bijection(0 .. n - 1, S)
  <2>1. Enc \in [0 .. n - 1 -> S] /\ \A y \in S : \E s \in 0 .. n - 1 : Enc[s] = y
    OBVIOUS
  <2>2. ASSUME NEW s \in 0 .. n - 1, NEW t \in 0 .. n - 1, Enc[s] = Enc[t] PROVE s = t
    <3>1. R4Enc(s) = R4Enc(t)
      BY <2>2
    <3>2. Ambiguous(R4Enc(s), R4Enc(t))
      BY <3>1 DEF Ambiguous
    <3>3. QED
      BY <3>2, R4EncApart
  <2>3. QED
    BY <2>1, <2>2 DEF Bijection, Injection, Surjection, IsInjective
<1>2. IsFiniteSet(0 .. n - 1) /\ Cardinality(0 .. n - 1) = n
  BY FS_Interval, SMT
<1>3. ExistsBijection(0 .. n - 1, S)
  BY <1>1 DEF ExistsBijection
<1> HIDE DEF S
<1>4. IsFiniteSet(S) /\ Cardinality(S) = n
  BY <1>2, <1>3, FS_Bijection
<1>5. QED
  BY <1>4 DEF S

\* Every .md pattern has a slot and an encoding of its own.
THEOREM MdPatternsDistinctThm == Spec => []MdPatternsDistinct
<1>1. IInv => MdPatternsDistinct
  <2> SUFFICES ASSUME IInv PROVE MdPatternsDistinct
    OBVIOUS
  <2>1. r4Slot \in Nat /\ md = {R4Enc(s) : s \in 0 .. r4Slot - 1}
    BY SMT DEF IInv, TypeOK, MdShape, R4Max, OpcodeCount, SlotsPerOpcode
  <2>2. Cardinality(md) = r4Slot
    BY <2>1, SlotsCardinality
  <2>3. ASSUME NEW a \in md, NEW b \in md, a # b PROVE ~Ambiguous(a, b)
    <3>1. PICK s \in 0 .. r4Slot - 1 : a = R4Enc(s)
      BY <2>1
    <3>2. PICK t \in 0 .. r4Slot - 1 : b = R4Enc(t)
      BY <2>1
    <3>3. s # t /\ s \in Nat /\ t \in Nat
      BY <2>3, <3>1, <3>2
    <3>4. QED
      BY <3>1, <3>2, <3>3, R4EncApart
  <2>4. QED
    BY <2>2, <2>3 DEF MdPatternsDistinct
<1>2. QED
  BY <1>1, Invariant, PTL

\* No .md pattern decodes from a funct3 of the fused binary's loop instructions,
\* nor from one of the loop instructions of an RTL that decodes fused words.
THEOREM HwloopOwnsFunct3Thm == Spec => []HwloopOwnsFunct3
<1>1. ASSUME IInv, used, NEW insn \in HwloopInsn, NEW p \in md
      PROVE  ~Shares(HwloopEncoding(nextR4Slot), insn, p)
  <2>1. PICK s \in 0 .. r4Slot - 1 : p = R4Enc(s)
    BY <1>1 DEF IInv, MdShape
  <2>2. nextR4Slot \in Nat /\ s \in Nat /\ s < nextR4Slot
    BY <1>1, SMT DEF IInv, TypeOK, NextSlotShape
  <2> QED
    BY <1>1, <2>1, <2>2, HwloopEncodingBehind
<1>2. IInv => HwloopOwnsFunct3
  <2> SUFFICES ASSUME IInv PROVE HwloopOwnsFunct3
    OBVIOUS
  <2>1. ASSUME used, NEW insn \in Insns(asmFused), NEW p \in md PROVE ~Shares(asmFused, insn, p)
    <3>1. asmFused = HwloopEncoding(nextR4Slot) /\ insn \in HwloopInsn
      BY <2>1 DEF IInv, RegistryShape, FusedNextSlot, Insns
    <3> QED
      BY <1>1, <2>1, <3>1
  <2>2. ASSUME fusedOps, NEW insn \in Insns(rtl), NEW p \in md PROVE ~Shares(rtl, insn, p)
    <3>1. used /\ rtl = HwloopEncoding(nextR4Slot) /\ insn \in HwloopInsn
      BY <2>2 DEF IInv, RegistryShape, NextSlotShape, RtlNextSlot, Insns
    <3> QED
      BY <1>1, <2>2, <3>1
  <2> QED
    BY <2>1, <2>2 DEF HwloopOwnsFunct3
<1> QED
  BY <1>2, Invariant, PTL

\* The instructions of one registry differ in funct3, which is all the
\* hwloop_regs template looks at.
THEOREM HwloopFunct3UniqueThm == Spec => []HwloopFunct3Unique
<1>1. IInv => HwloopFunct3Unique
  <2> SUFFICES ASSUME IInv, NEW reg \in {asmFused, asmPlain, rtl},
                      NEW i \in Insns(reg), NEW j \in Insns(reg), i # j
               PROVE  reg[i].funct3 # reg[j].funct3
    BY DEF HwloopFunct3Unique
  <2>1. PICK n \in Nat : reg = HwloopEncoding(n)
    BY NextSlotsNat DEF IInv, RegistryShape, Insns
  <2>2. i \in HwloopInsn /\ j \in HwloopInsn
    BY DEF Insns
  <2>3. QED
    BY <2>1, <2>2, HwloopEncodingFunct3
<1>2. QED
  BY <1>1, Invariant, PTL

-----------------------------------------------------------------------------
(* The 3-grams.                                                            *)

\* The encodings AddTrigramR4 and AddTrigramR make of a slot.
TriR4Enc(t) == [opcode |-> t \div 16, funct3 |-> (t % 16) \div 4, kind |-> "r4", funct |-> t % 4]
TriREnc(t)  == [opcode |-> t \div (4 * 128), funct3 |-> 4 + (t % (4 * 128)) \div 128,
                kind |-> "r", funct |-> t % 128]

LEMMA TriEncDistinct ==
  ASSUME NEW s \in Nat, NEW t \in Nat
  PROVE  /\ TriR4Enc(s) = TriR4Enc(t) => s = t
         /\ TriREnc(s) = TriREnc(t) => s = t
         /\ TriR4Enc(s) # TriREnc(t)
<1>1. ASSUME s \div 16 = t \div 16, (s % 16) \div 4 = (t % 16) \div 4, s % 4 = t % 4 PROVE s = t
  BY <1>1, SMT
<1>2. ASSUME s \div 512 = t \div 512, (s % 512) \div 128 = (t % 512) \div 128, s % 128 = t % 128
      PROVE  s = t
  BY <1>2, SMT
<1>3. TriR4Enc(s) = TriR4Enc(t) => s = t
  BY <1>1 DEF TriR4Enc
<1>4. TriREnc(s) = TriREnc(t) => s = t
  <2> SUFFICES ASSUME TriREnc(s) = TriREnc(t) PROVE s = t
    OBVIOUS
  <2>1. /\ s \div (4 * 128) = t \div (4 * 128) /\ s % 128 = t % 128
        /\ 4 + (s % (4 * 128)) \div 128 = 4 + (t % (4 * 128)) \div 128
    BY DEF TriREnc
  <2>2. (s % 512) \div 128 \in Nat /\ (t % 512) \div 128 \in Nat
    BY SMT
  <2> QED
    BY <1>2, <2>1, <2>2, SMT
<1>5. TriR4Enc(s) # TriREnc(t)
  BY DEF TriR4Enc, TriREnc
<1> QED
  BY <1>3, <1>4, <1>5

\* A 3-gram whose slot lies behind a .md pattern's is not taken for it: with half
\* the funct3 values per opcode its encoding is that of a slot at least as high.
LEMMA TriR4Behind ==
  ASSUME NEW s \in Nat, NEW t \in Nat, s < t
  PROVE  ~Ambiguous(TriR4Enc(t), R4Enc(s))
<1>1. ~(t \div 16 = s \div 32 /\ (t % 16) \div 4 = (s % 32) \div 4 /\ (t % 4) % 4 = (s % 4) % 4)
  BY SMT
<1> QED
  BY <1>1 DEF Ambiguous, TriR4Enc, R4Enc, SlotsPerOpcode

\* patterns.json holds one encoding for each slot the two counters have passed.
TriContents ==
  /\ phase = "merge" => tri = {}
  /\ phase # "merge" =>
       /\ tri = {TriR4Enc(t) : t \in r4Slot .. triSlot.r4 - 1}
                  \cup {TriREnc(t) : t \in 0 .. triSlot.r - 1}
       /\ IsFiniteSet(tri) /\ Cardinality(tri) = TrigramCount

LEMMA StepTriContents == IInv /\ IInv' /\ TriContents /\ [Next]_vars => TriContents'
<1> SUFFICES ASSUME IInv, IInv', TriContents, [Next]_vars PROVE TriContents'
  OBVIOUS
<1>0. /\ r4Slot \in Nat /\ triSlot.r4 \in Nat /\ triSlot.r \in Nat
      /\ phase # "merge" => triSlot.r4 >= r4Slot
  BY SMT DEF IInv, TypeOK, TriShape, R4Max, OpcodeCount, SlotsPerOpcode
<1>1. CASE AddMdPattern
  BY <1>1 DEF AddMdPattern, triVars, TriContents
<1>2. CASE EndMerge
  <2>1. /\ tri' = {} /\ r4Slot' = r4Slot /\ phase' # "merge"
        /\ triSlot'.r4 = r4Slot /\ triSlot'.r = 0
    BY <1>2 DEF EndMerge, mdVars, TriContents
  <2>2. r4Slot' .. triSlot'.r4 - 1 = {} /\ 0 .. triSlot'.r - 1 = {}
    BY <1>0, <2>1, SMT
  <2>3. IsFiniteSet(tri') /\ Cardinality(tri') = 0
    BY <2>1, FS_EmptySet
  <2>4. TrigramCount' = 0
    BY <1>0, <2>1, SMT DEF TrigramCount
  <2> QED
    BY <2>1, <2>2, <2>3, <2>4 DEF TriContents
<1>3. CASE AddTrigramR4
  <2> DEFINE new == TriR4Enc(triSlot.r4)
  <2>1. /\ phase = "trigram" /\ phase' = phase /\ r4Slot' = r4Slot
        /\ tri' = tri \cup {new}
        /\ triSlot'.r4 = triSlot.r4 + 1 /\ triSlot'.r = triSlot.r
    BY <1>3 DEF AddTrigramR4, mdVars, TriR4Enc, IInv, TypeOK
  <2>2. /\ tri = {TriR4Enc(t) : t \in r4Slot .. triSlot.r4 - 1}
                  \cup {TriREnc(t) : t \in 0 .. triSlot.r - 1}
        /\ IsFiniteSet(tri) /\ Cardinality(tri) = TrigramCount
    BY <2>1 DEF TriContents
  <2>3. new \notin tri
    <3>1. \A t \in r4Slot .. triSlot.r4 - 1 : t \in Nat /\ t # triSlot.r4
      BY <1>0, SMT
    <3>2. \A t \in r4Slot .. triSlot.r4 - 1 : new # TriR4Enc(t)
      BY <1>0, <3>1, TriEncDistinct
    <3>3. \A t \in 0 .. triSlot.r - 1 : new # TriREnc(t)
      BY <1>0, TriEncDistinct
    <3> QED
      BY <2>2, <3>2, <3>3
  <2>4. IsFiniteSet(tri') /\ Cardinality(tri') = Cardinality(tri) + 1
    BY <2>1, <2>2, <2>3, FS_AddElement
  <2>5. TrigramCount' = TrigramCount + 1
    BY <1>0, <2>1, SMT DEF TrigramCount
  <2>6. r4Slot' .. triSlot'.r4 - 1 = (r4Slot .. triSlot.r4 - 1) \cup {triSlot.r4}
    BY <1>0, <2>1, SMT
  <2>7. tri' = {TriR4Enc(t) : t \in r4Slot' .. triSlot'.r4 - 1}
                 \cup {TriREnc(t) : t \in 0 .. triSlot'.r - 1}
    BY <2>1, <2>2, <2>6
  <2> QED
    BY <2>1, <2>2, <2>4, <2>5, <2>7 DEF TriContents
<1>4. CASE AddTrigramR
  <2> DEFINE new == TriREnc(triSlot.r)
  <2>1. /\ phase = "trigram" /\ phase' = phase /\ r4Slot' = r4Slot
        /\ tri' = tri \cup {new}
        /\ triSlot'.r4 = triSlot.r4 /\ triSlot'.r = triSlot.r + 1
    BY <1>4 DEF AddTrigramR, mdVars, TriREnc, IInv, TypeOK
  <2>2. /\ tri = {TriR4Enc(t) : t \in r4Slot .. triSlot.r4 - 1}
                  \cup {TriREnc(t) : t \in 0 .. triSlot.r - 1}
        /\ IsFiniteSet(tri) /\ Cardinality(tri) = TrigramCount
    BY <2>1 DEF TriContents
  <2>3. new \notin tri
    <3>1. \A t \in 0 .. triSlot.r - 1 : t \in Nat /\ t # triSlot.r
      BY <1>0, SMT
    <3>2. \A t \in 0 .. triSlot.r - 1 : new # TriREnc(t)
      BY <1>0, <3>1, TriEncDistinct
    <3>3. \A t \in r4Slot .. triSlot.r4 - 1 : t \in Nat
      BY <1>0, SMT
    <3>4. \A t \in r4Slot .. triSlot.r4 - 1 : new # TriR4Enc(t)
      BY <1>0, <3>3, TriEncDistinct
    <3> QED
      BY <2>2, <3>2, <3>4
  <2>4. IsFiniteSet(tri') /\ Cardinality(tri') = Cardinality(tri) + 1
    BY <2>1, <2>2, <2>3, FS_AddElement
  <2>5. TrigramCount' = TrigramCount + 1
    BY <1>0, <2>1, SMT DEF TrigramCount
  <2>6. 0 .. triSlot'.r - 1 = (0 .. triSlot.r - 1) \cup {triSlot.r}
    BY <1>0, <2>1, SMT
  <2>7. tri' = {TriR4Enc(t) : t \in r4Slot' .. triSlot'.r4 - 1}
                 \cup {TriREnc(t) : t \in 0 .. triSlot'.r - 1}
    BY <2>1, <2>2, <2>6
  <2> QED
    BY <2>1, <2>2, <2>4, <2>5, <2>7 DEF TriContents
<1>5. CASE CompileMerged \/ BuildAssemblerRegistries \/ BuildRtlRegistry \/ UNCHANGED vars
  <2>1. /\ UNCHANGED <<r4Slot, tri, triSlot>>
        /\ phase' = "merge" <=> phase = "merge"
    BY <1>5 DEF CompileMerged, BuildAssemblerRegistries, BuildRtlRegistry, vars, mdVars, triVars
  <2> QED
    BY <2>1 DEF TriContents, TrigramCount
<1> QED
  BY <1>1, <1>2, <1>3, <1>4, <1>5 DEF Next

\* A 3-gram in the R4 format is never taken for a .md pattern, although the two
\* generators number the R4 space differently, and none is lost to another.
THEOREM TrigramsR4ApartThm == Spec => []TrigramsR4Apart
<1>1. Init => TriContents
  BY DEF Init, TriContents
<1>2. Spec => []TriContents
  BY <1>1, StepTriContents, Invariant, PTL DEF Spec
<1>3. IInv /\ TriContents => TrigramsR4Apart
  <2> SUFFICES ASSUME IInv, TriContents PROVE TrigramsR4Apart
    OBVIOUS
  <2>1. ASSUME NEW t \in tri, NEW p \in md, t.kind = "r4" PROVE ~Ambiguous(t, p)
    <3>1. phase # "merge" /\ r4Slot \in Nat /\ triSlot.r4 \in Nat
      BY SMT DEF TriContents, IInv, TypeOK, R4Max, OpcodeCount, SlotsPerOpcode
    <3>2. PICK s \in 0 .. r4Slot - 1 : p = R4Enc(s)
      BY DEF IInv, MdShape
    <3>3. \A r : TriREnc(r).kind # "r4"
      BY DEF TriREnc
    <3>4. PICK k \in r4Slot .. triSlot.r4 - 1 : t = TriR4Enc(k)
      BY <2>1, <3>1, <3>3 DEF TriContents
    <3>5. s \in Nat /\ k \in Nat /\ s < k
      BY <3>1, SMT
    <3> QED
      BY <3>2, <3>4, <3>5, TriR4Behind
  <2> QED
    BY <2>1 DEF TrigramsR4Apart, TriContents
<1> QED
  BY <1>2, <1>3, Invariant, PTL
=============================================================================
