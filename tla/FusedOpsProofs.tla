---------------------------- MODULE FusedOpsProofs ----------------------------
(***************************************************************************)
(* Theorems about FusedOps and FusedDatapath, for any patterns, words,     *)
(* operands and register widths.                                           *)
(***************************************************************************)
EXTENDS FusedDatapath, FiniteSetTheorems, WellFoundedInduction, TLAPS

\* What was compiled, found and generated, when its turn comes.
OpsInv ==
  /\ phase \in {"compile", "inspect", "filter", "patch", "rtl"}
  /\ md \in MdFiles
  /\ \A w \in words : \E s \in DOMAIN md : w \in WordsOf(s)
  /\ phase \in {"filter", "patch", "rtl"} => used = UsedInstructions
  /\ phase \in {"patch", "rtl"} =>
       \E matches \in [DOMAIN used -> [inputs : 1..3, fold : SUBSET {1, 2}]] :
         /\ \A s \in DOMAIN used : matches[s] \in Matches(s)
         /\ ops = {FusedOperation(s, matches[s]) : s \in {t \in DOMAIN used : ~Rejected(t)}}
  /\ phase = "rtl" => wires = Wires(ops)

\* The invariant holds before anything is compiled...
LEMMA OpsInit == Init => OpsInv
  BY DEF Init, OpsInv

\* ...and after every step of the pipeline.
LEMMA OpsNext == OpsInv /\ [Next]_vars => OpsInv'
<1> SUFFICES ASSUME OpsInv, [Next]_vars PROVE OpsInv'
  OBVIOUS
<1>1. CASE Compile
  <2>1. PICK f \in [1..MaxWords -> UNION {WordsOf(s) : s \in DOMAIN md}] :
               words' = {f[n] : n \in 1..MaxWords}
    BY <1>1 DEF Compile
  <2>2. md' = md /\ phase' = "inspect"
    BY <1>1 DEF Compile
  <2>3. ASSUME NEW w \in words' PROVE \E s \in DOMAIN md : w \in WordsOf(s)
    <3>1. PICK n \in 1..MaxWords : w = f[n]
      BY <2>1, <2>3
    <3>2. w \in UNION {WordsOf(s) : s \in DOMAIN md}
      <4> HIDE DEF WordsOf
      <4> QED  BY <3>1
    <3> QED
      BY <3>2
  <2>4. \A s : WordsOf(s)' = WordsOf(s)
    BY <2>2 DEF WordsOf
  <2> QED
    BY <2>2, <2>3, <2>4 DEF OpsInv
<1>2. CASE Inspect
  <2>1. /\ phase' = "filter" /\ UNCHANGED <<md, words, ops, wires>> /\ used' = UsedInstructions
    BY <1>2 DEF Inspect
  <2>2. \A s : WordsOf(s)' = WordsOf(s)
    BY <2>1 DEF WordsOf
  <2>3. UsedInstructions' = UsedInstructions
    BY <2>1 DEF UsedInstructions
  <2> QED
    BY <2>1, <2>2, <2>3 DEF OpsInv
<1>3. CASE Filter
  <2>1. /\ phase = "filter" /\ phase' = "patch" /\ UNCHANGED <<md, words, used, wires>>
    BY <1>3 DEF Filter
  <2>2. PICK matches \in [DOMAIN used -> [inputs : 1..3, fold : SUBSET {1, 2}]] :
          /\ \A s \in DOMAIN used : matches[s] \in Matches(s)
          /\ ops' = {FusedOperation(s, matches[s]) : s \in {t \in DOMAIN used : ~Rejected(t)}}
    BY <1>3 DEF Filter
  <2>3. /\ \A s : WordsOf(s)' = WordsOf(s) /\ Matches(s)' = Matches(s) /\ Rejected(s)' = Rejected(s)
        /\ \A s : FusedOperation(s, matches[s])' = FusedOperation(s, matches[s])
    BY <2>1 DEF WordsOf, Matches, ProfileInputs, ProfileFolds, Rejected, FusedOperation
  <2>4. UsedInstructions' = UsedInstructions
    BY <2>1 DEF UsedInstructions
  <2>5. ops' = {FusedOperation(s, matches[s])' : s \in {t \in DOMAIN used' : ~Rejected(t)'}}
    BY <2>1, <2>2, <2>3
  <2> QED
    BY <2>1, <2>2, <2>3, <2>4, <2>5 DEF OpsInv
<1>4. CASE Patch
  <2>1. /\ phase = "patch" /\ phase' = "rtl" /\ UNCHANGED <<md, words, used, ops>> /\ wires' = Wires(ops)
    BY <1>4 DEF Patch
  <2>2. \A s : WordsOf(s)' = WordsOf(s) /\ Matches(s)' = Matches(s) /\ Rejected(s)' = Rejected(s)
    BY <2>1 DEF WordsOf, Matches, ProfileInputs, ProfileFolds, Rejected
  <2>3. \A s, m : FusedOperation(s, m)' = FusedOperation(s, m)
    BY <2>1 DEF FusedOperation
  <2>4. UsedInstructions' = UsedInstructions
    BY <2>1 DEF UsedInstructions
  <2> QED
    BY <2>1, <2>2, <2>3, <2>4 DEF OpsInv
<1>5. CASE UNCHANGED vars
  <2>1. UNCHANGED <<md, words, used, ops, wires, phase>>
    BY <1>5 DEF vars
  <2>2. \A s : WordsOf(s)' = WordsOf(s) /\ Matches(s)' = Matches(s) /\ Rejected(s)' = Rejected(s)
    BY <2>1 DEF WordsOf, Matches, ProfileInputs, ProfileFolds, Rejected
  <2>3. \A s, m : FusedOperation(s, m)' = FusedOperation(s, m)
    BY <2>1 DEF FusedOperation
  <2>4. UsedInstructions' = UsedInstructions
    BY <2>1 DEF UsedInstructions
  <2> QED
    BY <2>1, <2>2, <2>3, <2>4 DEF OpsInv
<1> QED
  BY <1>1, <1>2, <1>3, <1>4, <1>5 DEF Next, Done

-----------------------------------------------------------------------------
(***************************************************************************)
(* Words and operations.                                                   *)
(***************************************************************************)
\* funct3 and funct2 tell the slots apart.
LEMMA SlotDecoded ==
  ASSUME NEW s \in Nat \ {0}, NEW t \in Nat \ {0}, Funct3(s) = Funct3(t), Funct2(s) = Funct2(t)
  PROVE  s = t
<1>1. (s - 1) \div 4 = (t - 1) \div 4 /\ (s - 1) % 4 = (t - 1) % 4
  BY DEF Funct3, Funct2
<1> QED
  BY <1>1, Z3

\* A word of the binary belongs to a pattern, which used_instructions knows.
LEMMA WordHasPattern ==
  ASSUME OpsInv, phase \in {"filter", "patch", "rtl"}, NEW w \in words
  PROVE  /\ w.slot \in DOMAIN md
         /\ DOMAIN md \subseteq Nat \ {0}
         /\ w \in WordsOf(w.slot)
         /\ w.slot \in DOMAIN used
         /\ md[w.slot] \in Patterns
<1>2. PICK s \in DOMAIN md : w \in WordsOf(s)
  BY DEF OpsInv
<1>3. w.slot = s
  BY <1>2 DEF WordsOf
<1>4. md \in Seq(Patterns)
  BY FusedOpsAssumption DEF OpsInv
<1>5. DOMAIN md = 1..Len(md) /\ Len(md) \in Nat /\ md[s] \in Patterns
  BY <1>2, <1>4
<1>6. DOMAIN used = {v.slot : v \in words}
  BY DEF OpsInv, UsedInstructions
<1>7. s \in DOMAIN used
  BY <1>3, <1>6
<1> QED
  BY <1>2, <1>3, <1>5, <1>7

\* Only patterns of the .md file are found in the binary.
LEMMA UsedHavePatterns ==
  ASSUME OpsInv, phase \in {"filter", "patch", "rtl"}
  PROVE  DOMAIN used \subseteq DOMAIN md
<1>1. DOMAIN used = {v.slot : v \in words}
  BY DEF OpsInv, UsedInstructions
<1>2. ASSUME NEW v \in words PROVE v.slot \in DOMAIN md
  BY WordHasPattern
<1> QED
  BY <1>1, <1>2

\* An operation of the RTL is made from a pattern in use that is not rejected.
LEMMA OperationHasPattern ==
  ASSUME OpsInv, phase = "rtl"
  PROVE  /\ \A op \in ops : /\ op.slot \in DOMAIN used /\ op.slot \in Nat \ {0} /\ ~Rejected(op.slot)
                            /\ \E m \in Matches(op.slot) : op = FusedOperation(op.slot, m)
         /\ \A op1, op2 \in ops : op1.slot = op2.slot => op1 = op2
         /\ \A s \in DOMAIN used : ~Rejected(s) => \E op \in ops : op.slot = s
<1>1. PICK matches \in [DOMAIN used -> [inputs : 1..3, fold : SUBSET {1, 2}]] :
         /\ \A s \in DOMAIN used : matches[s] \in Matches(s)
         /\ ops = {FusedOperation(s, matches[s]) : s \in {t \in DOMAIN used : ~Rejected(t)}}
  BY DEF OpsInv
<1>2. \A s \in DOMAIN used : s \in Nat \ {0}
  <2>1. DOMAIN used \subseteq DOMAIN md
    BY UsedHavePatterns
  <2>2. md \in Seq(Patterns)
    BY FusedOpsAssumption DEF OpsInv
  <2> QED
    BY <2>1, <2>2
<1>3. \A s, m : FusedOperation(s, m).slot = s
  BY DEF FusedOperation
<1> HIDE DEF FusedOperation
<1>4. \A op \in ops : op.slot \in DOMAIN used /\ ~Rejected(op.slot) /\ op = FusedOperation(op.slot, matches[op.slot])
  BY <1>1, <1>3
<1>5. \A s \in DOMAIN used : ~Rejected(s) => FusedOperation(s, matches[s]) \in ops
  BY <1>1
<1> QED
  BY <1>1, <1>2, <1>3, <1>4, <1>5

\* A word is decoded by no operation but its own.
LEMMA DecodedIsOwn ==
  ASSUME OpsInv, phase = "rtl", NEW w \in words, NEW op \in ops
  PROVE  Decodes(op, w) <=> op.slot = w.slot /\ (GroupHasR4(op) \/ w.rs3 = 0)
<1>1. w.slot \in Nat \ {0} /\ op.slot \in Nat \ {0}
  BY WordHasPattern, OperationHasPattern
<1> QED
  BY <1>1, SlotDecoded DEF Decodes

\* One word, at most one operation: the invariant's first consequence.
LEMMA OpsDecode == OpsInv => WordsDecode
<1> SUFFICES ASSUME OpsInv, phase = "rtl", NEW w \in words
             PROVE  LET hit == {op \in ops : Decodes(op, w)}
                    IN  \/ Cardinality(hit) = 1 /\ \A op \in hit : op.slot = w.slot
                        \/ hit = {} /\ (Rejected(w.slot) \/ \A op \in ops : op.slot = w.slot => Narrow(op))
  BY DEF WordsDecode
<1> DEFINE hit == {op \in ops : Decodes(op, w)}
<1>1. \A op \in hit : op \in ops /\ op.slot = w.slot
  BY DecodedIsOwn
<1>2. CASE Rejected(w.slot)
  <2>1. \A op \in ops : op.slot # w.slot
    BY <1>2, OperationHasPattern
  <2>2. hit = {}
    BY <1>1, <2>1
  <2> QED
    BY <1>2, <2>2
<1>3. CASE ~Rejected(w.slot)
  <2>1. PICK own \in ops : own.slot = w.slot
    BY <1>3, WordHasPattern, OperationHasPattern
  <2>2. \A op \in ops : op.slot = w.slot => op = own
    BY <2>1, OperationHasPattern
  <2>3. CASE Decodes(own, w)
    <3>1. hit = {own}
      BY <1>1, <2>2, <2>3
    <3>2. Cardinality(hit) = 1
      BY <3>1, FS_Singleton
    <3> QED
      BY <1>1, <3>2
  <2>4. CASE ~Decodes(own, w)
    <3>1. hit = {}
      BY <1>1, <2>2, <2>4
    <3>2. ~GroupHasR4(own)
      BY <2>1, <2>4, DecodedIsOwn
    <3>3. \A op \in ops : op.slot = w.slot => Narrow(op)
      BY <2>2, <3>2 DEF Narrow
    <3> QED
      BY <3>1, <3>3
  <2> QED
    BY <2>3, <2>4
<1> QED
  BY <1>2, <1>3

\* For any .md file, any binary and any result of the profile: a custom word
\* selects the one operation made from its pattern, or its pattern was rejected
\* or narrowed (compute_filtered_ops, generate_decoder_for_opcode).
THEOREM WordsAlwaysDecode == Spec => []WordsDecode
  BY OpsInit, OpsNext, OpsDecode, PTL DEF Spec

-----------------------------------------------------------------------------
(***************************************************************************)
(* Words and their arithmetic.                                             *)
(***************************************************************************)
\* The next power of two.
LEMMA PowerStep ==
  ASSUME NEW n \in 0..31
  PROVE  2^(n + 1) = 2 * 2^n /\ 2^n \in Nat
<1>1. /\ 2^0 = 1 /\ 2^1 = 2 /\ 2^2 = 4
      /\ 2^3 = 8 /\ 2^4 = 16 /\ 2^5 = 32
      /\ 2^6 = 64 /\ 2^7 = 128 /\ 2^8 = 256
      /\ 2^9 = 512 /\ 2^10 = 1024 /\ 2^11 = 2048
      /\ 2^12 = 4096 /\ 2^13 = 8192 /\ 2^14 = 16384
      /\ 2^15 = 32768 /\ 2^16 = 65536 /\ 2^17 = 131072
      /\ 2^18 = 262144 /\ 2^19 = 524288 /\ 2^20 = 1048576
      /\ 2^21 = 2097152 /\ 2^22 = 4194304 /\ 2^23 = 8388608
      /\ 2^24 = 16777216 /\ 2^25 = 33554432 /\ 2^26 = 67108864
      /\ 2^27 = 134217728 /\ 2^28 = 268435456 /\ 2^29 = 536870912
      /\ 2^30 = 1073741824 /\ 2^31 = 2147483648 /\ 2^32 = 4294967296
  BY SMT
<1>2. CASE n = 0  BY <1>1, <1>2
<1>3. CASE n = 1  BY <1>1, <1>3
<1>4. CASE n = 2  BY <1>1, <1>4
<1>5. CASE n = 3  BY <1>1, <1>5
<1>6. CASE n = 4  BY <1>1, <1>6
<1>7. CASE n = 5  BY <1>1, <1>7
<1>8. CASE n = 6  BY <1>1, <1>8
<1>9. CASE n = 7  BY <1>1, <1>9
<1>10. CASE n = 8  BY <1>1, <1>10
<1>11. CASE n = 9  BY <1>1, <1>11
<1>12. CASE n = 10  BY <1>1, <1>12
<1>13. CASE n = 11  BY <1>1, <1>13
<1>14. CASE n = 12  BY <1>1, <1>14
<1>15. CASE n = 13  BY <1>1, <1>15
<1>16. CASE n = 14  BY <1>1, <1>16
<1>17. CASE n = 15  BY <1>1, <1>17
<1>18. CASE n = 16  BY <1>1, <1>18
<1>19. CASE n = 17  BY <1>1, <1>19
<1>20. CASE n = 18  BY <1>1, <1>20
<1>21. CASE n = 19  BY <1>1, <1>21
<1>22. CASE n = 20  BY <1>1, <1>22
<1>23. CASE n = 21  BY <1>1, <1>23
<1>24. CASE n = 22  BY <1>1, <1>24
<1>25. CASE n = 23  BY <1>1, <1>25
<1>26. CASE n = 24  BY <1>1, <1>26
<1>27. CASE n = 25  BY <1>1, <1>27
<1>28. CASE n = 26  BY <1>1, <1>28
<1>29. CASE n = 27  BY <1>1, <1>29
<1>30. CASE n = 28  BY <1>1, <1>30
<1>31. CASE n = 29  BY <1>1, <1>31
<1>32. CASE n = 30  BY <1>1, <1>32
<1>33. CASE n = 31  BY <1>1, <1>33
<1> QED
  BY <1>2, <1>3, <1>4, <1>5, <1>6, <1>7, <1>8, <1>9, <1>10, <1>11, <1>12, <1>13, <1>14,
     <1>15, <1>16, <1>17, <1>18, <1>19, <1>20, <1>21, <1>22, <1>23, <1>24, <1>25, <1>26,
     <1>27, <1>28, <1>29, <1>30, <1>31, <1>32, <1>33

\* A set of naturals has a least element: the induction below is over it.
LEMMA LeastNatural ==
  ASSUME NEW T \in SUBSET Nat, T # {}
  PROVE  \E x \in T : \A y \in T : x <= y
<1> DEFINE lt == {s \in Nat \X Nat : s[1] < s[2]}
<1>1. IsWellFoundedOn(lt, Nat)
  BY NatLessThanWellFounded DEF OpToRel
<1>2. PICK x \in T : \A y \in T : ~(<<y, x>> \in lt)
  BY <1>1, WFMin
<1>3. \A y \in T : ~(y < x)  BY <1>2
<1> QED  BY <1>3

\* Register widths are powers of two.
LEMMA Width == W \in {2, 4, 8, 16, 32}
  BY FusedOpsAssumption

\* Words and half words: a shift amount or an immediate is a word.
LEMMA Sizes ==
  /\ Size \in Nat /\ Size >= 4 /\ W \in 2..32 /\ W <= Size
  /\ 2^(W - 1) \in Nat \ {0} /\ Size = 2 * 2^(W - 1)
<1>1. 2^2 = 4 /\ 2^4 = 16 /\ 2^8 = 256 /\ 2^16 = 65536 /\ 2^32 = 4294967296
  BY SMT
<1>2. 2^1 = 2 /\ 2^3 = 8 /\ 2^7 = 128 /\ 2^15 = 32768 /\ 2^31 = 2147483648
  BY SMT
<1>3. CASE W = 2  BY <1>1, <1>2, <1>3 DEF Size
<1>4. CASE W = 4  BY <1>1, <1>2, <1>4 DEF Size
<1>5. CASE W = 8  BY <1>1, <1>2, <1>5 DEF Size
<1>6. CASE W = 16  BY <1>1, <1>2, <1>6 DEF Size
<1>7. CASE W = 32  BY <1>1, <1>2, <1>7 DEF Size
<1> QED
  BY <1>3, <1>4, <1>5, <1>6, <1>7, Width

\* Shifting a word out and in: a register is as wide as k and W - k bits.
LEMMA PowerSplit ==
  ASSUME NEW k \in 0..(W - 1)
  PROVE  /\ 2^k \in Nat \ {0} /\ 2^(W - k) \in Nat \ {0}
         /\ Size = 2^k * 2^(W - k)
<1> DEFINE p(i) == 2^i
           Split(i) == p(i) \in Nat \ {0} /\ p(W - i) \in Nat \ {0} /\ p(W) = p(i) * p(W - i)
           Bad == {i \in 0..(W - 1) : ~Split(i)}
<1>1. \A i \in 0..31 : p(i + 1) = 2 * p(i) /\ p(i) \in Nat
  BY PowerStep
<1>2. p(0) = 1 /\ W \in 2..32
  BY Width
<1>3. p(W) \in Nat \ {0}
  BY Sizes DEF Size
<1> HIDE DEF p
<1>4. Bad = {}
  <2> SUFFICES ASSUME Bad # {} PROVE FALSE
    OBVIOUS
  <2>1. PICK i \in Bad : \A j \in Bad : i <= j
    <3>1. Bad \in SUBSET Nat  BY <1>2
    <3> HIDE DEF Bad
    <3> QED  BY <3>1, LeastNatural
  <2>2. i \in 0..(W - 1) /\ ~Split(i)
    OBVIOUS
  <2>3. CASE i = 0
    <3>1. W - 0 = W  BY <1>2
    <3> QED  BY <1>2, <1>3, <2>2, <2>3, <3>1
  <2>4. CASE i # 0
    <3> DEFINE j == i - 1
               m == W - i
    <3>1. j \in 0..31 /\ j + 1 = i /\ m \in 0..31 /\ W - j = m + 1 /\ j \in 0..(W - 1) /\ j < i
      BY <1>2, <2>2, <2>4
    <3>2. Split(j)
      <4>1. j \notin Bad
        <5> HIDE DEF Bad
        <5> QED  BY <2>1, <2>2, <3>1
      <4> HIDE DEF Split
      <4> QED  BY <3>1, <4>1
    <3>3. p(i) = 2 * p(j) /\ p(W - j) = 2 * p(m)
      BY <1>1, <3>1
    <3>4. p(j) \in Nat \ {0} /\ p(m) \in Nat /\ 2 * p(m) \in Nat \ {0} /\ p(W) = p(j) * (2 * p(m))
      BY <1>1, <3>1, <3>2, <3>3
    <3> HIDE DEF j, m
    <3> DEFINE a == p(j)
               b == p(m)
    <3> HIDE DEF a, b
    <3>5. a \in Nat \ {0} /\ b \in Nat \ {0} /\ p(W) = a * (2 * b) /\ p(i) = 2 * a
      BY <3>3, <3>4 DEF a, b
    <3>6. a * (2 * b) = (2 * a) * b
      BY <3>5, Z3
    <3>7. p(W - i) = b
      BY DEF b, m
    <3> QED
      BY <2>2, <3>5, <3>6, <3>7
  <2> QED
    BY <2>3, <2>4
<1>5. Split(k)
  <2> HIDE DEF Split
  <2> QED  BY <1>4
<1> QED
  BY <1>5 DEF p, Size

\* The values of a register.
WordValues == 0..(Size - 1)

\* What a quotient and a remainder do to a multiple.
LEMMA Quotients ==
  ASSUME NEW x \in Int, NEW m \in Int, NEW d \in Nat \ {0}
  PROVE  /\ (x + d * m) \div d = x \div d + m
         /\ (x + d * m) % d = x % d
<1> DEFINE q == x \div d
           r == x % d
           q2 == (x + d * m) \div d
           r2 == (x + d * m) % d
<1>1. x + d * m \in Int
  OBVIOUS
<1>2. q \in Int /\ r \in 0..(d - 1) /\ x = d * q + r
  BY Z3
<1>3. q2 \in Int /\ r2 \in 0..(d - 1) /\ x + d * m = d * q2 + r2
  BY <1>1, Z3
<1> HIDE DEF q, r, q2, r2
<1>4. d * (q2 - q - m) = r - r2
  BY <1>2, <1>3, Z3
<1> DEFINE e == q2 - q - m
<1>5. e \in Int /\ d * e = r - r2
  BY <1>2, <1>3, <1>4
<1> HIDE DEF e
<1>6. e = 0
  <2>1. CASE e >= 1
    <3>1. d * e >= d  BY <1>5, <2>1, Z3
    <3> QED  BY <1>2, <1>3, <1>5, <3>1
  <2>2. CASE e <= -1
    <3>1. d * e <= -d  BY <1>5, <2>2, Z3
    <3> QED  BY <1>2, <1>3, <1>5, <3>1
  <2> QED  BY <1>5, <2>1, <2>2
<1>7. q2 = q + m
  BY <1>2, <1>3, <1>6 DEF e
<1>8. r2 = r
  <2>1. d * e = 0
    BY <1>6
  <2> QED
    BY <1>2, <1>3, <1>5, <2>1
<1> QED
  BY <1>7, <1>8 DEF q, r, q2, r2

\* Remainders of words.
LEMMA Remainders ==
  /\ \A x \in WordValues : x % Size = x
  /\ \A x \in Int : x % Size \in WordValues
  /\ \A y \in WordValues : y % W \in 0..(W - 1)
<1> DEFINE S == Size
<1>1. S \in Nat \ {0} /\ W \in Nat \ {0}
  BY Sizes
<1> HIDE DEF S
<1>2. \A x \in 0..(S - 1) : x % S = x
  BY <1>1, Z3
<1>3. \A x \in Int : x % S \in 0..(S - 1)
  BY <1>1, Z3
<1>4. \A y \in 0..(S - 1) : y % W \in 0..(W - 1)
  BY <1>1, Z3
<1> QED
  BY <1>2, <1>3, <1>4 DEF S, WordValues

\* The operations of the base ISA take words to words.
LEMMA RvIsWord ==
  ASSUME NEW op \in AluOps, NEW x \in WordValues, NEW y \in WordValues
  PROVE  Rv(op, x, y) \in WordValues
<1>1. x \in Nat /\ y \in Nat /\ x <= Size - 1 /\ Size \in Nat /\ Size >= 4
  BY Sizes DEF WordValues
<1>2. PICK k \in 0..(W - 1) : k = y % W
  BY Remainders
<1> DEFINE P == 2^k
<1>3. P \in Nat \ {0} /\ 2^(y % W) = P
  BY <1>2, PowerSplit
<1> HIDE DEF P
<1>4. CASE op \in {"and", "or", "xor"}
  <2>1. {WordAnd(x, y), WordOr(x, y), WordXor(x, y)} \subseteq WordValues
    BY DatapathAssumption DEF WordValues, Size
  <2> QED
    BY <1>4, <2>1 DEF Rv
<1>5. CASE op = "add"
  <2>1. x + y \in Int  BY <1>1
  <2> QED  BY <1>5, <2>1, Remainders DEF Rv
<1>6. CASE op = "sub"
  <2>1. x - y \in Int  BY <1>1
  <2> QED  BY <1>6, <2>1, Remainders DEF Rv
<1>7. CASE op = "mul"
  <2>1. x * y \in Int  BY <1>1
  <2> QED  BY <1>7, <2>1, Remainders DEF Rv
<1>8. CASE op = "sll"
  <2>1. x * P \in Int  BY <1>1, <1>3
  <2>2. Rv(op, x, y) = (x * P) % Size  BY <1>3, <1>8 DEF Rv
  <2> QED  BY <2>1, <2>2, Remainders
<1>9. CASE op = "srl"
  <2>1. Rv(op, x, y) = x \div P  BY <1>3, <1>9 DEF Rv
  <2>2. x \div P \in Nat /\ x \div P <= x  BY <1>1, <1>3, Z3
  <2> QED  BY <1>1, <2>1, <2>2 DEF WordValues
<1>10. CASE op = "sra"
  <2> DEFINE X == Signed(x, W)
  <2>1. X \in Int
    <3>1. 2^W \in Nat  BY Sizes DEF Size
    <3> QED  BY <1>1, <3>1 DEF Signed
  <2>2. Rv(op, x, y) = (X \div P) % Size
    BY <1>2, <1>3, <1>10 DEF Rv, Sar
  <2> HIDE DEF X
  <2>3. X \div P \in Int
    BY <1>3, <2>1, Z3
  <2> QED  BY <2>2, <2>3, Remainders
<1>11. CASE op \in {"slt", "sltu"}
  <2>1. Rv(op, x, y) \in {0, 1}
    BY <1>11 DEF Rv, Truth
  <2> QED  BY <1>1, <2>1 DEF WordValues
<1> QED
  BY <1>4, <1>5, <1>6, <1>7, <1>8, <1>9, <1>10, <1>11 DEF AluOps, NonCommutative

\* The concatenation of sign and operand, shifted and cut to a word, is the
\* arithmetic shift.
LEMMA ConcatenationIsSar ==
  ASSUME NEW x \in WordValues, NEW k \in 0..(W - 1)
  PROVE  ((x + IF (x \div 2^(W - 1)) % 2 = 1 THEN (Size - 1) * 2^W ELSE 0) \div 2^k) % Size = Sar(x, k)
<1> DEFINE P == 2^k
           Q == 2^(W - k)
           H == 2^(W - 1)
           S == Size
<1>1. /\ P \in Nat \ {0} /\ Q \in Nat \ {0} /\ H \in Nat \ {0}
      /\ S = P * Q /\ S = 2 * H /\ 2^W = S /\ x \in 0..(S - 1) /\ S \in Nat \ {0}
  BY PowerSplit, Sizes DEF Size, WordValues
<1>2. Sar(x, k) = ((IF x >= H THEN x - S ELSE x) \div P) % S
  BY <1>1 DEF Sar, Signed
<1> HIDE DEF P, Q, H, S
<1>3. CASE x >= H
  <2>1. x \div H = 1
    BY <1>1, <1>3, Z3
  <2>2. (1 % 2) = 1
    OBVIOUS
  <2> DEFINE X == x - S
  <2>3. X \in Int /\ Q * S \in Int /\ X \div P \in Int
    <3>1. X \in Int /\ Q * S \in Int  BY <1>1
    <3> HIDE DEF X
    <3> QED  BY <1>1, <3>1, Z3
  <2>4. x + (S - 1) * S = X + P * (Q * S)
    <3>1. P * (Q * S) = (P * Q) * S  BY <1>1, Z3
    <3>2. P * (Q * S) = S * S  BY <1>1, <3>1
    <3>3. (S - 1) * S = S * S - S  BY <1>1, Z3
    <3> QED  BY <1>1, <3>2, <3>3
  <2> HIDE DEF X
  <2>5. (X + P * (Q * S)) \div P = X \div P + Q * S
    BY <1>1, <2>3, Quotients
  <2>6. (X \div P + Q * S) % S = (X \div P) % S
    <3> DEFINE y == X \div P
    <3>1. Q * S = S * Q /\ Q \in Int /\ y \in Int  BY <1>1, <2>3, Z3
    <3> HIDE DEF y
    <3>2. (y + S * Q) % S = y % S  BY <1>1, <3>1, Quotients
    <3> QED  BY <3>1, <3>2 DEF y
  <2> QED
    BY <1>1, <1>2, <1>3, <2>1, <2>2, <2>4, <2>5, <2>6 DEF X, P, H, S
<1>4. CASE ~(x >= H)
  <2>1. x \div H = 0
    BY <1>1, <1>4, Z3
  <2>2. (0 % 2) # 1
    OBVIOUS
  <2>3. x + 0 = x
    BY <1>1
  <2> QED
    BY <1>1, <1>2, <1>4, <2>1, <2>2, <2>3 DEF P, H, S
<1> QED
  BY <1>3, <1>4

\* An expression on words, cut to a word, is the instruction; only the arithmetic
\* right shift needs the cut, only the signed comparison looks at widths.
LEMMA ExpressionIsInstruction ==
  ASSUME NEW op \in AluOps, NEW x \in WordValues, NEW y \in WordValues, NEW n, op = "slt" => n = W
  PROVE  /\ Sv(op, x, W, y, n) % Size = Rv(op, x, y)
         /\ op # "sra" => Sv(op, x, W, y, n) = Rv(op, x, y)
<1>1. x % Size = x /\ y % Size = y
  BY Remainders
<1>2. Rv(op, x, y) \in WordValues /\ Rv(op, x, y) % Size = Rv(op, x, y)
  BY RvIsWord, Remainders
<1>3. CASE op = "sra"
  <2>1. PICK k \in 0..(W - 1) : k = y % W
    BY Remainders
  <2>2. Rv(op, x, y) = Sar(x, k)
    BY <1>3, <2>1 DEF Rv
  <2>3. Sv(op, x, W, y, n) = (x + IF (x \div 2^(W - 1)) % 2 = 1 THEN (Size - 1) * 2^W ELSE 0) \div 2^k
    BY <1>3, <2>1 DEF Sv, AdderOps, LogicOps
  <2> QED
    BY <1>3, <2>2, <2>3, ConcatenationIsSar
<1>4. CASE op # "sra"
  <2>1. CASE op \in {"add", "sub", "and", "or", "xor", "mul", "sll"}
    <3>1. Sv(op, x, W, y, n) = Rv(op, x % Size, y % Size)
      BY <2>1 DEF Sv, AdderOps, LogicOps
    <3> QED
      BY <1>1, <1>2, <2>1, <3>1
  <2>2. CASE op = "srl"
    <3>1. Sv(op, x, W, y, n) = Rv(op, x, y)
      BY <2>2 DEF Sv, Rv, AdderOps, LogicOps
    <3> QED  BY <1>2, <3>1
  <2>3. CASE op = "slt"
    <3>1. Sv(op, x, W, y, n) = Rv(op, x, y)
      BY <2>3 DEF Sv, Rv, AdderOps, LogicOps
    <3> QED  BY <1>2, <3>1
  <2>4. CASE op = "sltu"
    <3>1. Sv(op, x, W, y, n) = Rv(op, x, y)
      BY <2>4 DEF Sv, Rv, AdderOps, LogicOps
    <3> QED  BY <1>2, <3>1
  <2> QED
    BY <1>4, <2>1, <2>2, <2>3, <2>4 DEF AluOps, NonCommutative
<1> QED
  BY <1>3, <1>4

\* The other operations look at the lower word of a wide expression only.
LEMMA WideExpression ==
  ASSUME NEW op \in {"add", "sub", "and", "or", "xor", "mul", "sll"}, NEW x, NEW m, NEW y \in WordValues, NEW n
  PROVE  Sv(op, x, m, y, n) = Rv(op, x % Size, y)
<1>1. y % Size = y
  BY Remainders
<1>2. Sv(op, x, m, y, n) = Rv(op, x % Size, y % Size)
  BY DEF Sv, AdderOps, LogicOps
<1> QED
  BY <1>1, <1>2

-----------------------------------------------------------------------------
(***************************************************************************)
(* Fields, ports and the operations of the RTL.                            *)
(***************************************************************************)
\* A pattern that is not rejected.
LEMMA PatternFields ==
  ASSUME NEW p \in Patterns
  PROVE  /\ p.ops \in AluOps \X AluOps /\ p.ops[1] \in AluOps /\ p.ops[2] \in AluOps
         /\ p.imm \in SUBSET {1, 2} /\ p.rev \in BOOLEAN
         /\ p.rev => p.imm = {} /\ p.ops[2] \in NonCommutative
         /\ p.imm # {} => "mul" \notin {p.ops[1], p.ops[2]}
<1>1. CASE p \in StaticPatterns
  <2>1. p \in [ops : AluOps \X AluOps, imm : {{}}, rev : BOOLEAN] /\ (p.rev => p.ops[2] \in NonCommutative)
    BY <1>1 DEF StaticPatterns
  <2> HIDE DEF AluOps
  <2> QED  BY <2>1
<1>2. CASE p \in ParametricPatterns
  <2>1. /\ p \in [ops : AluOps \X AluOps, imm : (SUBSET {1, 2}) \ {{}}, rev : {FALSE}]
        /\ "mul" \notin {p.ops[1], p.ops[2]}
    BY <1>2 DEF ParametricPatterns
  <2> HIDE DEF AluOps
  <2> QED  BY <2>1
<1> QED
  BY <1>1, <1>2 DEF Patterns

\* The fields of an instruction number registers or immediates, each a word.
LEMMA SecondIsWord ==
  ASSUME NEW w, w.rs3 \in WordValues, w.rs2 \in WordValues,
         NEW imm, NEW i, NEW b \in WordValues, NEW c \in WordValues
  PROVE  Second(w, imm, i, b, c) \in WordValues
  BY DEF Second, FieldValue

\* The fields a decoder takes from a word are words.
LEMMA FieldsOfWord ==
  ASSUME OpsInv, phase = "rtl", NEW w \in words
  PROVE  w.rs3 \in WordValues /\ w.rs2 \in WordValues
<1>1. w \in WordsOf(w.slot)
  BY WordHasPattern
<1>2. w.rs3 \in {0, 1} \union 0..(W - 1) /\ w.rs2 \in {0} \union 0..(W - 1)
  BY <1>1 DEF WordsOf
<1> QED
  BY <1>2, Sizes DEF WordValues

\* Without a folded step the mnemonics, the fields and the ports of an operation
\* are those of its pattern.
LEMMA OperationIsPattern ==
  ASSUME OpsInv, phase = "rtl", NEW op \in ops, ~Folded(op)
  PROVE  LET p == md[op.slot]
         IN  /\ p \in Patterns
             /\ op.ops = p.ops /\ op.rev = p.rev /\ op.imm = p.imm
             /\ op.resolved[1] = p.ops[1] /\ op.resolved[2] = p.ops[2]
             /\ op.unit = ExecutionUnit(p) /\ op.mult = MultPattern(p)
             /\ op.used = used[op.slot]
             /\ op.unit = "mult" => op.mult \in {"mac", "msu"}
<1>1. op.slot \in DOMAIN used /\ ~Rejected(op.slot)
  BY OperationHasPattern
<1>2. PICK m \in Matches(op.slot) : op = FusedOperation(op.slot, m)
  BY OperationHasPattern
<1> DEFINE s == op.slot
           p == md[s]
<1>3. /\ op.ops = p.ops /\ op.rev = p.rev /\ op.imm = p.imm /\ op.used = used[s]
      /\ op.unit = ExecutionUnit(p) /\ op.mult = MultPattern(p)
      /\ op.resolved = Resolved(p, m.fold)
  <2> HIDE DEF s
  <2>1. op = FusedOperation(s, m)  BY <1>2 DEF s
  <2> QED  BY <2>1 DEF FusedOperation
<1>4. p \in Patterns
  <2>1. s \in DOMAIN md
    BY <1>1, UsedHavePatterns
  <2>2. md \in Seq(Patterns)
    BY FusedOpsAssumption DEF OpsInv
  <2> HIDE DEF s
  <2> QED  BY <2>1, <2>2
<1>5. op.resolved[1] = p.ops[1] /\ op.resolved[2] = p.ops[2]
  <2>1. op.resolved[1] # "not" /\ op.resolved[2] # "not"
    BY DEF Folded
  <2> HIDE DEF p
  <2>2. /\ Resolved(p, m.fold)[1] = IF 1 \in m.fold THEN "not" ELSE p.ops[1]
        /\ Resolved(p, m.fold)[2] = IF 2 \in m.fold THEN "not" ELSE p.ops[2]
    BY DEF Resolved
  <2> QED  BY <1>3, <2>1, <2>2
<1>6. op.unit = "mult" => op.mult \in {"mac", "msu"}
  BY <1>1, <1>3 DEF Rejected
<1> QED
  BY <1>3, <1>4, <1>5, <1>6

\* The operand of a step that is not folded is the one its pattern names.
LEMMA OperandIsSecond ==
  ASSUME NEW op, op.imm \in SUBSET {1, 2}, ~Folded(op), NEW w, NEW i \in 1..2, NEW b, NEW c
  PROVE  Operand(op, w, i, b, c) = Second(w, op.imm, i, b, c)
<1>1. {j \in op.imm : op.resolved[j] # "not"} = op.imm
  BY DEF Folded
<1>2. CASE i \in op.imm
  BY <1>1, <1>2 DEF Operand, Second
<1>3. CASE i \notin op.imm
  <2>1. op.imm \ {i} = op.imm
    BY <1>3
  <2> QED
    BY <1>1, <1>3, <2>1 DEF Operand
<1> QED
  BY <1>2, <1>3

\* The bus is there for every operation that takes an immediate from it, the
\* multiplexers for every operation that steers the adder.
LEMMA PatchesMade ==
  ASSUME OpsInv, phase = "rtl", NEW op \in ops
  PROVE  /\ \A w : OnBus(w, op.imm) = w
         /\ op.unit = "alu" /\ Strategy(op) = "reuse_adder" => "fused_adder" \in wires
<1>1. wires = Wires(ops)
  BY DEF OpsInv
<1>2. op.imm # {} => "fused_imm" \in wires
  BY <1>1 DEF Wires, NeedsFusedImm
<1>3. op.unit = "alu" /\ Strategy(op) = "reuse_adder" => "fused_adder" \in wires
  <2> HIDE DEF Strategy
  <2> QED  BY <1>1 DEF Wires, NeedsAdderReuse
<1> QED
  BY <1>2, <1>3 DEF OnBus

\* The immediates an operation is built for are shift amounts or masks below W.
LEMMA UsedIsFinite ==
  ASSUME OpsInv, phase = "rtl", NEW s \in DOMAIN used, md[s].imm # {}
  PROVE  used[s] \subseteq 0..(W - 1) /\ IsFiniteSet(used[s])
<1>2. used[s] = {w.rs3 : w \in {v \in words : v.slot = s}}
  BY DEF OpsInv, UsedInstructions
<1>3. s \in DOMAIN md
  BY UsedHavePatterns
<1>4. md[s].imm \in SUBSET {1, 2} /\ IsFiniteSet({1, 2})
  <2>1. md \in Seq(Patterns)
    BY FusedOpsAssumption DEF OpsInv
  <2>2. md[s] \in Patterns
    BY <1>3, <2>1
  <2>3. IsFiniteSet(1..2)
    <3>1. 1 \in Int /\ 2 \in Int
      OBVIOUS
    <3> QED  BY <3>1, FS_Interval, Zenon
  <2>4. 1..2 = {1, 2}
    OBVIOUS
  <2> QED  BY <2>2, <2>3, <2>4, PatternFields
<1>5. Cardinality(md[s].imm) # 0
  BY <1>4, FS_Subset, FS_EmptySet
<1>6. ASSUME NEW w \in words, w.slot = s PROVE w.rs3 \in 0..(W - 1)
  <2>2. w \in WordsOf(s)
    BY <1>6, WordHasPattern
  <2> QED  BY <1>5, <2>2 DEF WordsOf
<1>7. used[s] \subseteq 0..(W - 1)
  BY <1>2, <1>6
<1>8. IsFiniteSet(0..(W - 1))
  BY Sizes, FS_Interval
<1> QED
  BY <1>7, <1>8, FS_Subset

\* The constant or the shared mux of a parametric step computes the step, for an
\* immediate the operation was built for.
LEMMA ParamStepIsInstruction ==
  ASSUME OpsInv, phase = "rtl", NEW op \in ops, ~Folded(op), op.unit = "alu", FirstParamStep(op),
         NEW v \in op.used, NEW a
  PROVE  ParamStep(op, v, a) = Rv(op.ops[1], a, v)
<1>1. op.slot \in DOMAIN used /\ op.used = used[op.slot] /\ op.imm = md[op.slot].imm
  BY OperationHasPattern, OperationIsPattern
<1>2. md[op.slot].imm # {}
  BY <1>1 DEF FirstParamStep
<1>3. IsFiniteSet(op.used)
  BY <1>1, <1>2, UsedIsFinite
<1> DEFINE at(x) == Rv(op.ops[1], a, x)
<1> HIDE DEF at
<1>4. ParamStep(op, v, a) = IF Cardinality(op.used) = 1 THEN at(CHOOSE x \in op.used : TRUE)
                            ELSE IF v \in MuxArms(op.ops[1]) THEN at(v)
                            ELSE IF op.ops[1] = "and" THEN 0 ELSE a
  BY DEF ParamStep, at
<1>5. CASE Cardinality(op.used) = 1
  <2>1. PICK x : op.used = {x}
    BY <1>3, <1>5, FS_Singleton
  <2>2. (CHOOSE y \in op.used : TRUE) = v
    BY <2>1
  <2> QED
    BY <1>4, <1>5, <2>2 DEF at
<1>6. CASE Cardinality(op.used) # 1
  <2>1. Cardinality(op.used) \in Nat /\ Cardinality(op.used) # 0
    BY <1>3, FS_CardinalityType, FS_EmptySet
  <2>2. Cardinality(op.used) >= 2
    BY <1>6, <2>1
  <2>3. v \in MuxArms(op.ops[1])
    BY <2>2 DEF MuxArms
  <2> QED
    BY <1>4, <1>6, <2>3 DEF at
<1> QED
  BY <1>5, <1>6

-----------------------------------------------------------------------------
(***************************************************************************)
(* The four ways to compute a pattern.                                     *)
(***************************************************************************)
\* An operation has one to three register inputs.
LEMMA InputsOfOperation ==
  ASSUME OpsInv, phase = "rtl", NEW op \in ops
  PROVE  op.inputs \in 1..3
<1> DEFINE s == op.slot
<1>1. PICK m \in Matches(op.slot) : op = FusedOperation(op.slot, m)
  BY OperationHasPattern
<1> HIDE DEF s
<1>2. op = FusedOperation(s, m) /\ m \in Matches(s)
  BY <1>1 DEF s
<1>3. op.inputs = m.inputs /\ m.inputs \in ProfileInputs(s)
  BY <1>2 DEF FusedOperation, Matches
<1> QED
  BY <1>3 DEF ProfileInputs

\* Re-use of the multiplier: multiply-accumulate and multiply-subtract.
LEMMA MultComputes ==
  ASSUME OpsInv, phase = "rtl", NEW op \in ops, ~Folded(op), op.unit = "mult",
         NEW w, NEW c \in WordValues, op.inputs < 3 => c = 0,
         NEW a \in WordValues, NEW b \in WordValues
  PROVE  MultResult(op, a, b, c) = Meaning(md[op.slot], w, a, b, c)
<1> DEFINE p == md[op.slot]
           S == Size
           ab == a * b
<1>1. /\ p \in Patterns /\ op.mult = MultPattern(p) /\ op.mult \in {"mac", "msu"}
      /\ op.unit = ExecutionUnit(p)
  BY OperationIsPattern
<1> HIDE DEF p
<1>2. p.imm = {}
  BY <1>1, PatternFields DEF ExecutionUnit
<1>3. Second(w, p.imm, 1, b, c) = b /\ Second(w, p.imm, 2, b, c) = c
  <2>1. {j \in 1..1 : j \notin p.imm} = {1} /\ {j \in 1..2 : j \notin p.imm} # {2}
    BY <1>2
  <2> QED  BY <1>2, <2>1 DEF Second
<1>4. S \in Nat \ {0} /\ ab \in Int /\ c \in Int
  BY Sizes DEF WordValues
<1>5. Rv("mul", a, b) = ab % S
  BY DEF Rv
<1>8. (IF op.inputs >= 3 THEN c ELSE 0) = c
  <2>1. op.inputs \in 1..3
    BY InputsOfOperation
  <2> QED  BY <2>1
<1> HIDE DEF S, ab
<1>6. CASE op.mult = "mac"
  <2>1. p.ops = <<"mul", "add">>
    BY <1>1, <1>6 DEF MultPattern
  <2>2. p.ops[1] = "mul" /\ p.ops[2] = "add" /\ ~p.rev
    <3>1. p.ops[1] = "mul" /\ p.ops[2] = "add"  BY <2>1
    <3> QED  BY <1>1, <3>1, PatternFields DEF NonCommutative
  <2>3. Meaning(p, w, a, b, c) = ((ab % S) + c) % S
    BY <1>3, <1>5, <2>2 DEF Meaning, Rv, S
  <2>4. MultResult(op, a, b, c) = (c + ab) % S
    BY <1>6, <1>8 DEF MultResult, S, ab
  <2>5. (c + ab) % S = ((ab % S) + c) % S
    <3> DEFINE q == ab \div S
               r == ab % S
    <3>1. q \in Int /\ r \in Int /\ ab = S * q + r
      BY <1>4, Z3
    <3> HIDE DEF q, r
    <3>2. c + ab = (r + c) + S * q /\ r + c \in Int
      BY <1>4, <3>1, Z3
    <3>3. ((r + c) + S * q) % S = (r + c) % S
      BY <1>4, <3>1, <3>2, Quotients
    <3> QED  BY <3>2, <3>3 DEF r
  <2> QED
    BY <2>3, <2>4, <2>5 DEF p
<1>7. CASE op.mult = "msu"
  <2>1. p.ops = <<"mul", "sub">> /\ p.rev
    BY <1>1, <1>7 DEF MultPattern
  <2>2. p.ops[1] = "mul" /\ p.ops[2] = "sub"
    BY <2>1
  <2>3. Meaning(p, w, a, b, c) = Rv("sub", c, ab % S)
    BY <1>3, <1>5, <2>1, <2>2 DEF Meaning
  <2>4. MultResult(op, a, b, c) = Rv("sub", c, ab % S)
    BY <1>7, <1>8 DEF MultResult, S, ab
  <2> QED
    BY <2>3, <2>4 DEF p
<1> QED
  BY <1>1, <1>6, <1>7

\* The expressions generated for a pattern of its own.
LEMMA InlineComputes ==
  ASSUME OpsInv, phase = "rtl", NEW op \in ops, NEW w \in words, ~KnownToDiffer(op, w), op.unit = "alu",
         NEW a \in WordValues, NEW b \in WordValues, NEW c \in WordValues
  PROVE  InlineResult(op, w, a, b, c) = Meaning(md[op.slot], w, a, b, c)
<1> DEFINE p == md[op.slot]
           y1 == Second(w, p.imm, 1, b, c)
           y2 == Second(w, p.imm, 2, b, c)
           first == Rv(p.ops[1], a, y1)
           expr == FirstStep(op, w, a, b, c)
           n2 == OperandWidth(op, 2)
<1>1. ~Folded(op) /\ ~ReversedOperands(op) /\ ~WideIntermediate(op) /\ ~SignedImmediate(op)
  BY DEF KnownToDiffer
<1>2. /\ p \in Patterns /\ op.ops = p.ops /\ op.rev = p.rev /\ op.imm = p.imm
      /\ op.resolved[1] = p.ops[1] /\ op.resolved[2] = p.ops[2]
  BY <1>1, OperationIsPattern
<1> HIDE DEF p
<1>3. /\ p.ops[1] \in AluOps /\ p.ops[2] \in AluOps /\ p.imm \in SUBSET {1, 2}
      /\ p.rev \in BOOLEAN
  BY <1>2, PatternFields
<1>4. Operand(op, w, 1, b, c) = y1 /\ Operand(op, w, 2, b, c) = y2
  BY <1>1, <1>2, <1>3, OperandIsSecond
<1>5. y1 \in WordValues /\ y2 \in WordValues
  BY FieldsOfWord, SecondIsWord
<1>6. first \in WordValues
  <2> HIDE DEF y1
  <2> QED  BY <1>3, <1>5, RvIsWord
<1>7. \A i \in 1..2 : p.ops[i] = "slt" => OperandWidth(op, i) = W
  BY <1>1, <1>2 DEF SignedImmediate, OperandWidth
<1>8. /\ expr % Size = first
      /\ p.ops[1] # "sra" => expr = first
  <2>1. expr = Sv(p.ops[1], a, W, y1, OperandWidth(op, 1))
    BY <1>2, <1>4 DEF FirstStep
  <2>2. p.ops[1] = "slt" => OperandWidth(op, 1) = W
    BY <1>7
  <2> HIDE DEF y1, expr
  <2> QED
    BY <1>3, <1>5, <2>1, <2>2, ExpressionIsInstruction
<1>9. InlineResult(op, w, a, b, c) =
        IF p.rev /\ p.ops[2] = "sub" THEN Rv("sub", y2, expr % Size)
        ELSE Sv(p.ops[2], expr, ExprWidth(p.ops[1]), y2, n2) % Size
  BY <1>2, <1>4 DEF InlineResult, SwapsOuter
<1>10. Meaning(p, w, a, b, c) = IF p.rev THEN Rv(p.ops[2], y2, first) ELSE Rv(p.ops[2], first, y2)
  BY DEF Meaning
<1>11. p.rev => p.ops[2] = "sub"
  BY <1>1, <1>2 DEF ReversedOperands
<1> HIDE DEF y1, y2, first, expr
<1>12. CASE p.rev
  BY <1>8, <1>9, <1>10, <1>11, <1>12 DEF p
<1>13. CASE ~p.rev
  <2>1. InlineResult(op, w, a, b, c) = Sv(p.ops[2], expr, ExprWidth(p.ops[1]), y2, n2) % Size
    BY <1>9, <1>13
  <2>2. Meaning(p, w, a, b, c) = Rv(p.ops[2], first, y2)
    BY <1>10, <1>13
  <2>3. CASE p.ops[1] = "sra"
    <3>1. p.ops[2] \in {"add", "sub", "and", "or", "xor", "mul", "sll"}
      BY <1>1, <1>2, <1>3, <2>3 DEF WideIntermediate, AluOps, NonCommutative
    <3>2. Sv(p.ops[2], expr, ExprWidth(p.ops[1]), y2, n2) = Rv(p.ops[2], first, y2)
      BY <1>5, <1>8, <3>1, WideExpression
    <3>3. Rv(p.ops[2], first, y2) \in WordValues
      BY <1>3, <1>5, <1>6, RvIsWord
    <3> QED
      BY <2>1, <2>2, <3>2, <3>3, Remainders DEF p
  <2>4. CASE p.ops[1] # "sra"
    <3>1. expr = first /\ ExprWidth(p.ops[1]) = W
      BY <1>8, <2>4 DEF ExprWidth
    <3>2. p.ops[2] = "slt" => n2 = W
      BY <1>7
    <3> HIDE DEF n2
    <3>3. Sv(p.ops[2], first, W, y2, n2) % Size = Rv(p.ops[2], first, y2)
      BY <1>3, <1>5, <1>6, <3>2, ExpressionIsInstruction
    <3> QED
      BY <2>1, <2>2, <3>1, <3>3 DEF p
  <2> QED
    BY <2>3, <2>4
<1> QED
  BY <1>3, <1>12, <1>13

\* A parametric first step gets its immediate from rs3 and is computed for it when
\* the operation was built for it.
LEMMA FirstParamComputes ==
  ASSUME OpsInv, phase = "rtl", NEW op \in ops, ~Folded(op), op.unit = "alu",
         FirstParamStep(op), NEW w \in words, w.slot = op.slot, NEW a, NEW b, NEW c
  PROVE  ParamStep(op, w.rs3, a) = Rv(md[op.slot].ops[1], a, Second(w, md[op.slot].imm, 1, b, c))
<1>1. op.imm = md[op.slot].imm /\ op.ops = md[op.slot].ops
  BY OperationIsPattern
<1>2. 1 \in op.imm /\ op.imm # {}
  BY DEF FirstParamStep
<1>3. w.rs3 \in op.used
  <2>1. op.used = used[op.slot] /\ op.slot \in DOMAIN used /\ md[op.slot].imm # {}
    BY <1>1, <1>2, OperationIsPattern, OperationHasPattern
  <2>2. used[op.slot] = {v.rs3 : v \in {u \in words : u.slot = op.slot}}
    BY <2>1 DEF OpsInv, UsedInstructions
  <2> QED  BY <2>1, <2>2
<1>4. op.imm \in SUBSET {1, 2}
  BY <1>1, OperationIsPattern, PatternFields
<1>5. Second(w, op.imm, 1, b, c) = w.rs3
  <2>1. {j \in op.imm : j < 1} = {}
    BY <1>4
  <2>2. Fields(op.imm, 1) = 0
    BY <2>1, FS_EmptySet DEF Fields
  <2> QED  BY <1>2, <2>2 DEF Second, FieldValue
<1>6. ParamStep(op, w.rs3, a) = Rv(op.ops[1], a, w.rs3)
  BY <1>3, ParamStepIsInstruction
<1> QED
  BY <1>1, <1>5, <1>6

\* Re-use of the adder for the step that adds or subtracts.
LEMMA AdderComputes ==
  ASSUME OpsInv, phase = "rtl", NEW op \in ops, NEW w \in words, ~KnownToDiffer(op, w),
         op.unit = "alu", Strategy(op) = "reuse_adder",
         w.slot = op.slot, NEW a \in WordValues, NEW b \in WordValues, NEW c \in WordValues
  PROVE  AdderResult(op, w, a, b, c) = Meaning(md[op.slot], w, a, b, c)
<1> DEFINE p == md[op.slot]
           y1 == Second(w, p.imm, 1, b, c)
           y2 == Second(w, p.imm, 2, b, c)
           first == Rv(p.ops[1], a, y1)
           k == AdderStep(op)
           n2 == OperandWidth(op, 2)
           adders == {i \in 1..2 : op.resolved[i] \in AdderOps}
<1>1. ~Folded(op) /\ ~ReversedOperands(op) /\ ~SignedImmediate(op)
  BY DEF KnownToDiffer
<1>2. /\ p \in Patterns /\ op.ops = p.ops /\ op.rev = p.rev /\ op.imm = p.imm
      /\ op.resolved[1] = p.ops[1] /\ op.resolved[2] = p.ops[2]
  BY <1>1, OperationIsPattern
<1>3. Cardinality(adders) = 1
  <2> HIDE DEF adders
  <2>1. Strategy(op) = IF Cardinality(adders) = 1 /\ (\A i \in 1..2 \ adders : Cheap(op, i)) THEN "reuse_adder"
                       ELSE IF adders = {} /\ 1 \in op.imm /\ op.ops[1] \in ShiftOps /\ op.ops[2] \in LogicOps
                       THEN "reuse_shifter"
                       ELSE "inline"
    BY DEF Strategy, adders
  <2> QED  BY <2>1
<1>4. "fused_adder" \in wires
  BY PatchesMade
<1> HIDE DEF p
<1>5. /\ p.ops[1] \in AluOps /\ p.ops[2] \in AluOps /\ p.imm \in SUBSET {1, 2}
      /\ p.rev \in BOOLEAN
  BY <1>2, PatternFields
<1>6. Operand(op, w, 1, b, c) = y1 /\ Operand(op, w, 2, b, c) = y2
  BY <1>1, <1>2, <1>5, OperandIsSecond
<1>7. y1 \in WordValues /\ y2 \in WordValues
  BY FieldsOfWord, SecondIsWord
<1>8. first \in WordValues
  <2> HIDE DEF y1
  <2> QED  BY <1>5, <1>7, RvIsWord
<1>9. \A i \in 1..2 : p.ops[i] = "slt" => OperandWidth(op, i) = W
  BY <1>1, <1>2 DEF SignedImmediate, OperandWidth
<1>10. Meaning(p, w, a, b, c) = IF p.rev THEN Rv(p.ops[2], y2, first) ELSE Rv(p.ops[2], first, y2)
  BY DEF Meaning
<1>11. p.rev => p.ops[2] = "sub"
  BY <1>1, <1>2 DEF ReversedOperands
<1>12. \E i \in 1..2 : adders = {i}
  <2>1. IsFiniteSet(1..2)
    <3>1. 1 \in Int /\ 2 \in Int
      OBVIOUS
    <3> QED  BY <3>1, FS_Interval, Zenon
  <2>2. IsFiniteSet(adders) /\ adders \subseteq 1..2
    BY <2>1, FS_Subset
  <2> HIDE DEF adders
  <2>3. PICK i : adders = {i}
    BY <1>3, <2>2, FS_Singleton
  <2> QED  BY <2>2, <2>3
<1>13. k \in 1..2 /\ op.resolved[k] \in AdderOps /\ adders = {k}
  <2>1. \E i \in 1..2 : op.resolved[i] \in AdderOps
    BY <1>12
  <2>2. k \in 1..2 /\ op.resolved[k] \in AdderOps
    BY <2>1 DEF AdderStep
  <2>3. k \in adders
    BY <2>2
  <2> HIDE DEF adders, k
  <2> QED  BY <1>12, <2>2, <2>3
<1>14. CASE k = 1
  <2>1. p.ops[1] \in AdderOps /\ p.ops[2] \notin AdderOps
    <3>1. 2 \notin adders
      <4> HIDE DEF adders
      <4> QED  BY <1>13, <1>14
    <3> QED  BY <1>2, <1>13, <1>14, <3>1
  <2>2. ~p.rev
    BY <1>11, <2>1 DEF AdderOps
  <2>3. AdderResult(op, w, a, b, c) = Sv(p.ops[2], Rv(p.ops[1], a, y1), W, y2, n2) % Size
    <3> HIDE DEF y1, y2, n2
    <3> QED  BY <1>2, <1>4, <1>6, <1>14, <2>2 DEF AdderResult, n2
  <2>4. p.ops[2] = "slt" => n2 = W
    BY <1>9
  <2> HIDE DEF y1, y2, n2
  <2>5. AdderResult(op, w, a, b, c) = Sv(p.ops[2], first, W, y2, n2) % Size
    BY <2>3
  <2> HIDE DEF first
  <2>6. Sv(p.ops[2], first, W, y2, n2) % Size = Rv(p.ops[2], first, y2)
    BY <1>5, <1>7, <1>8, <2>4, ExpressionIsInstruction
  <2> QED
    BY <1>10, <2>2, <2>5, <2>6 DEF p
<1>15. CASE k = 2
  <2> DEFINE pre == IF FirstParamStep(op) THEN ParamStep(op, w.rs3, a) ELSE FirstStep(op, w, a, b, c) % Size
  <2>1. pre = first
    <3>1. CASE FirstParamStep(op)
      BY <1>1, <3>1, FirstParamComputes DEF p
    <3>2. CASE ~FirstParamStep(op)
      <4>1. FirstStep(op, w, a, b, c) = Sv(p.ops[1], a, W, y1, OperandWidth(op, 1))
        BY <1>2, <1>6 DEF FirstStep
      <4>2. p.ops[1] = "slt" => OperandWidth(op, 1) = W
        BY <1>9
      <4>3. FirstStep(op, w, a, b, c) % Size = Rv(p.ops[1], a, y1)
        <5> HIDE DEF y1
        <5> QED  BY <1>5, <1>7, <4>1, <4>2, ExpressionIsInstruction
      <4> QED  BY <3>2, <4>3
    <3> QED  BY <3>1, <3>2
  <2>2. AdderResult(op, w, a, b, c) =
          IF p.ops[2] = "sub" /\ p.rev THEN Rv("sub", y2, pre) ELSE Rv(p.ops[2], pre, y2)
    <3> HIDE DEF y1, y2
    <3> QED  BY <1>2, <1>4, <1>6, <1>15 DEF AdderResult
  <2> HIDE DEF y1, y2, first, pre
  <2> QED
    BY <1>5, <1>10, <1>11, <2>1, <2>2 DEF p
<1> QED
  BY <1>13, <1>14, <1>15

\* Re-use of the shifter for a parametric shift before a logic operation.
LEMMA ShifterComputes ==
  ASSUME OpsInv, phase = "rtl", NEW op \in ops, NEW w \in words, ~KnownToDiffer(op, w),
         op.unit = "alu", Strategy(op) = "reuse_shifter",
         w.slot = op.slot, NEW a, NEW b, NEW c
  PROVE  ShifterResult(op, w, a, b, c) = Meaning(md[op.slot], w, a, b, c)
<1> DEFINE p == md[op.slot]
<1>1. ~Folded(op)
  BY DEF KnownToDiffer
<1>2. p \in Patterns /\ op.ops = p.ops /\ op.rev = p.rev /\ op.imm = p.imm
  BY <1>1, OperationIsPattern
<1>3. 1 \in op.imm /\ op.ops[1] \in ShiftOps
  BY DEF Strategy
<1>4. FirstParamStep(op)
  BY <1>3 DEF FirstParamStep
<1>5. ParamStep(op, w.rs3, a) = Rv(p.ops[1], a, Second(w, p.imm, 1, b, c))
  BY <1>1, <1>4, FirstParamComputes
<1>6. ~p.rev
  BY <1>2, <1>3, PatternFields
<1> HIDE DEF p
<1>7. ShifterResult(op, w, a, b, c) = Rv(p.ops[2], ParamStep(op, w.rs3, a), Second(w, p.imm, 2, b, c))
  BY <1>2 DEF ShifterResult
<1>8. Meaning(p, w, a, b, c) = Rv(p.ops[2], Rv(p.ops[1], a, Second(w, p.imm, 1, b, c)), Second(w, p.imm, 2, b, c))
  BY <1>6 DEF Meaning
<1> QED
  BY <1>5, <1>7, <1>8 DEF p

\* Every strategy computes the pattern, so every decoded operation does.
LEMMA DecodedComputes ==
  ASSUME OpsInv
  PROVE  DatapathImplementsPattern
<1> SUFFICES ASSUME phase = "rtl", NEW w \in words, NEW op \in ops, Decodes(op, w), ~KnownToDiffer(op, w)
             PROVE  Agrees(op, w)
  BY DEF DatapathImplementsPattern
<1>1. op.slot = w.slot /\ ~Folded(op)
  BY DecodedIsOwn DEF KnownToDiffer
<1>2. op.unit \in {"mult", "alu"}
  BY <1>1, OperationIsPattern DEF ExecutionUnit
<1>3. OnBus(w, op.imm) = w
  BY PatchesMade
<1>4. Operands \subseteq WordValues /\ 0 \in WordValues
  BY DatapathAssumption, Sizes DEF WordValues, Size
<1>5. Strategy(op) \in {"reuse_adder", "reuse_shifter", "inline"}
  BY DEF Strategy
<1>6. ASSUME NEW a \in WordValues, NEW b \in WordValues, NEW c \in WordValues, w.rs3 = 0 => c = 0
      PROVE  Result(op, w, a, b, c) = Meaning(md[w.slot], w, a, b, c)
  <2>1. CASE op.unit = "mult"
    <3>1. Result(op, w, a, b, c) = MultResult(op, a, b, c)
      <4> HIDE DEF Strategy
      <4> QED  BY <2>1 DEF Result
    <3>2. MultResult(op, a, b, c) = Meaning(md[op.slot], w, a, b, c)
      <4>1. op.inputs < 3 => c = 0
        BY <1>6, <2>1 DEF KnownToDiffer, NarrowMult
      <4> QED  BY <1>1, <1>6, <2>1, <4>1, MultComputes
    <3> QED  BY <1>1, <3>1, <3>2
  <2>2. CASE op.unit = "alu" /\ Strategy(op) = "reuse_adder"
    <3>1. Result(op, w, a, b, c) = AdderResult(op, w, a, b, c)
      BY <1>3, <2>2 DEF Result
    <3> QED  BY <1>1, <2>2, <3>1, AdderComputes
  <2>3. CASE op.unit = "alu" /\ Strategy(op) = "reuse_shifter"
    <3>1. Result(op, w, a, b, c) = ShifterResult(op, w, a, b, c)
      BY <1>3, <2>3 DEF Result
    <3> QED  BY <1>1, <2>3, <3>1, ShifterComputes
  <2>4. CASE op.unit = "alu" /\ Strategy(op) = "inline"
    <3>1. Result(op, w, a, b, c) = InlineResult(op, w, a, b, c)
      BY <1>3, <2>4 DEF Result
    <3> QED  BY <1>1, <2>4, <3>1, InlineComputes
  <2> QED
    BY <1>2, <1>5, <2>1, <2>2, <2>3, <2>4
<1>7. ASSUME NEW a \in Operands, NEW b \in Operands, NEW c \in IF w.rs3 = 0 THEN {0} ELSE Operands
      PROVE  Result(op, w, a, b, c) = Meaning(md[w.slot], w, a, b, c)
  <2>1. /\ a \in WordValues /\ b \in WordValues /\ c \in WordValues
        /\ w.rs3 = 0 => c = 0
    BY <1>4
  <2> QED  BY <1>6, <2>1
<1> QED
  BY <1>7 DEF Agrees

\* For any .md file, any binary, any result of the profile and any register width:
\* outside the five named classes every decoded operation computes what its
\* pattern means, through whichever unit and strategy it got
\* (compute_filtered_ops, ALUSingleCycleGenerator, MultPatternMatcher, the RTL
\* patchers).
THEOREM DatapathAlwaysImplements == Spec => []DatapathImplementsPattern
  BY OpsInit, OpsNext, DecodedComputes, PTL DEF Spec
===============================================================================
