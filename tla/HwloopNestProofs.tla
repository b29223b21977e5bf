--------------------------- MODULE HwloopNestProofs ---------------------------
(***************************************************************************)
(* Theorems about HwloopNest.                                              *)
(***************************************************************************)
EXTENDS HwloopNest, FiniteSetTheorems, WellFoundedInduction, TLAPS

\* A set of naturals has a least member.
LEMMA LeastNatural ==
  ASSUME NEW T \in SUBSET Nat, T # {}
  PROVE  \E x \in T : \A y \in T : x <= y
<1> DEFINE lt == {s \in Nat \X Nat : s[1] < s[2]}
<1>1. IsWellFoundedOn(lt, Nat)
  BY NatLessThanWellFounded DEF OpToRel
<1>2. PICK x \in T : \A y \in T : ~(<<y, x>> \in lt)
  BY <1>1, WFMin
<1>3. \A y \in T : ~(y < x)  BY <1>2
<1> QED  BY <1>3

-----------------------------------------------------------------------------
(***************************************************************************)
(* The tree of loops.                                                      *)
(***************************************************************************)
\* The walk to the root is defined, since a parent has a smaller number.
LEMMA AncestorsWalk ==
  ASSUME NEW p, WellFormed(p)
  PROVE  \A l \in Loops(p) :
           Ancestors(p, l) =
             IF p.par[l] = 0 THEN {} ELSE {p.par[l]} \cup Ancestors(p, p.par[l])
<1> DEFINE D == Loops(p) \cup {0}
           n == Cardinality(Loops(p))
           up(f, k) == IF k = 0 \/ p.par[k] = 0 THEN {} ELSE {p.par[k]} \cup f[p.par[k]]
           Bad == {m \in Nat : ~\E f \in [D -> SUBSET D] : \A k \in D : k <= m => f[k] = up(f, k)}
<1>1. n \in Nat /\ Loops(p) = 1 .. n /\ D \subseteq Nat
      /\ \A k \in Loops(p) : p.par[k] \in D /\ p.par[k] < k /\ p.par[k] \in Nat
  BY FS_CardinalityType DEF WellFormed
<1> HIDE DEF n
<1>2. Bad = {}
  <2> SUFFICES ASSUME Bad # {} PROVE FALSE
    OBVIOUS
  <2>1. PICK m \in Bad : \A j \in Bad : m <= j  BY LeastNatural
  <2>2. CASE m = 0
    <3> DEFINE f == [k \in D |-> {}]
    <3>1. f \in [D -> SUBSET D] /\ \A k \in D : k <= m => f[k] = up(f, k)  BY <1>1, <2>2
    <3> QED  BY <2>1, <3>1
  <2>3. CASE m # 0
    <3>1. m - 1 \in Nat /\ m - 1 \notin Bad
      <4>1. m \in Nat  BY <2>1
      <4> HIDE DEF Bad
      <4>2. m - 1 \in Bad => m <= m - 1  BY <2>1
      <4> QED  BY <4>1, <4>2, <2>3
    <3>2. PICK f \in [D -> SUBSET D] : \A k \in D : k <= m - 1 => f[k] = up(f, k)
      BY <3>1
    <3> DEFINE g == [f EXCEPT ![m] = up(f, m)]
    <3>3. g \in [D -> SUBSET D]
      <4>1. m \in D => up(f, m) \in SUBSET D  BY <1>1, <2>3
      <4> QED  BY <4>1
    <3>4. ASSUME NEW k \in D, k <= m PROVE g[k] = up(g, k)
      <4>1. k # 0 /\ p.par[k] # 0 => p.par[k] # m /\ p.par[k] \in D  BY <1>1, <3>4
      <4>2. up(g, k) = up(f, k)  BY <4>1
      <4>3. CASE k = m  BY <4>2, <4>3
      <4>4. CASE k # m
        <5>1. k <= m - 1  BY <1>1, <2>1, <3>4, <4>4
        <5> QED  BY <3>2, <4>2, <4>4, <5>1
      <4> QED  BY <4>3, <4>4
    <3> QED  BY <2>1, <3>3, <3>4
  <2> QED  BY <2>2, <2>3
<1>3. PICK f \in [D -> SUBSET D] : \A k \in D : f[k] = up(f, k)
  <2>1. n \notin Bad  BY <1>2
  <2>2. \A k \in D : k <= n  BY <1>1
  <2> QED  BY <1>1, <2>1, <2>2
<1>4. f = [k \in D |-> up(f, k)]  BY <1>3
<1> DEFINE above == CHOOSE h : h = [k \in D |-> up(h, k)]
<1>5. above = [k \in D |-> up(above, k)]  BY <1>4
<1>6. \A l \in D : Ancestors(p, l) = above[l]  BY DEF Ancestors
<1>7. ASSUME NEW l \in Loops(p)
      PROVE  above[l] = IF p.par[l] = 0 THEN {} ELSE {p.par[l]} \cup above[p.par[l]]
  <2>1. l \in D /\ l # 0  BY <1>1
  <2>2. above[l] = up(above, l)  BY <1>5, <2>1
  <2> QED  BY <2>1, <2>2
<1> HIDE DEF above
<1> QED  BY <1>1, <1>6, <1>7

\* Ancestors are loops that begin earlier, and the ancestors of an ancestor are
\* ancestors.
LEMMA AncestorsAreOuter ==
  ASSUME NEW p, WellFormed(p), NEW l \in Loops(p), NEW a \in Ancestors(p, l)
  PROVE  /\ a \in Loops(p) /\ a < l
         /\ Ancestors(p, a) \subseteq Ancestors(p, l)
<1> DEFINE Good(k) == \A b \in Ancestors(p, k) :
                        /\ b \in Loops(p) /\ b < k
                        /\ Ancestors(p, b) \subseteq Ancestors(p, k)
           Bad == {k \in Loops(p) : ~Good(k)}
<1>1. /\ Loops(p) \subseteq Nat \ {0}
      /\ \A k \in Loops(p) : p.par[k] # 0 => p.par[k] \in Loops(p) /\ p.par[k] < k
  BY FS_CardinalityType DEF WellFormed
<1>2. Bad = {}
  <2> SUFFICES ASSUME Bad # {} PROVE FALSE
    OBVIOUS
  <2>1. PICK k \in Bad : \A j \in Bad : k <= j  BY <1>1, LeastNatural
  <2>2. Ancestors(p, k) = IF p.par[k] = 0 THEN {} ELSE {p.par[k]} \cup Ancestors(p, p.par[k])
    BY AncestorsWalk
  <2>3. p.par[k] # 0  BY <2>1, <2>2
  <2> DEFINE u == p.par[k]
  <2>4. u \in Loops(p) /\ u < k  BY <1>1, <2>1, <2>3
  <2>5. u \notin Bad
    <3> HIDE DEF Bad, u
    <3>1. u \in Nat /\ k \in Nat  BY <1>1, <2>1, <2>4 DEF Bad
    <3> QED  BY <2>1, <2>4, <3>1
  <2>6. Good(u)  BY <2>4, <2>5
  <2>7. ASSUME NEW b \in Ancestors(p, k)
        PROVE  b \in Loops(p) /\ b < k /\ Ancestors(p, b) \subseteq Ancestors(p, k)
    <3>1. Ancestors(p, u) \subseteq Ancestors(p, k)  BY <2>2, <2>3
    <3>2. CASE b = u  BY <2>4, <3>1, <3>2
    <3>3. CASE b # u
      <4>1. b \in Ancestors(p, u)  BY <2>2, <2>3, <3>3
      <4>2. b \in Loops(p) /\ b < u /\ Ancestors(p, b) \subseteq Ancestors(p, u)
        BY <2>6, <4>1
      <4> HIDE DEF u
      <4>3. b \in Nat /\ u \in Nat /\ k \in Nat  BY <1>1, <2>1, <2>4, <4>2
      <4> QED  BY <2>4, <3>1, <4>2, <4>3
    <3> QED  BY <3>2, <3>3
  <2> QED  BY <2>1, <2>7
<1>3. Good(l)
  <2>1. l \notin Bad  BY <1>2
  <2> QED  BY <2>1
<1> QED  BY <1>3

\* Of two loops around a loop one is around the other.
LEMMA AncestorsAreOrdered ==
  ASSUME NEW p, WellFormed(p), NEW l \in Loops(p),
         NEW a \in Ancestors(p, l), NEW b \in Ancestors(p, l)
  PROVE  a = b \/ a \in Ancestors(p, b) \/ b \in Ancestors(p, a)
<1> DEFINE Good(k) == \A x, y \in Ancestors(p, k) :
                        x = y \/ x \in Ancestors(p, y) \/ y \in Ancestors(p, x)
           Bad == {k \in Loops(p) : ~Good(k)}
<1>1. /\ Loops(p) \subseteq Nat \ {0}
      /\ \A k \in Loops(p) : p.par[k] # 0 => p.par[k] \in Loops(p) /\ p.par[k] < k
  BY FS_CardinalityType DEF WellFormed
<1>2. Bad = {}
  <2> SUFFICES ASSUME Bad # {} PROVE FALSE
    OBVIOUS
  <2>1. PICK k \in Bad : \A j \in Bad : k <= j  BY <1>1, LeastNatural
  <2>2. Ancestors(p, k) = IF p.par[k] = 0 THEN {} ELSE {p.par[k]} \cup Ancestors(p, p.par[k])
    BY AncestorsWalk
  <2>3. p.par[k] # 0  BY <2>1, <2>2
  <2> DEFINE u == p.par[k]
  <2>4. u \in Loops(p) /\ u < k  BY <1>1, <2>1, <2>3
  <2>5. u \notin Bad
    <3> HIDE DEF Bad, u
    <3>1. u \in Nat /\ k \in Nat  BY <1>1, <2>1, <2>4 DEF Bad
    <3> QED  BY <2>1, <2>4, <3>1
  <2>6. Good(u)  BY <2>4, <2>5
  <2>7. Ancestors(p, k) = {u} \cup Ancestors(p, u)  BY <2>2, <2>3
  <2>8. Good(k)  BY <2>6, <2>7
  <2> QED  BY <2>1, <2>8
<1>3. Good(l)
  <2>1. l \notin Bad  BY <1>2
  <2> QED  BY <2>1
<1> QED  BY <1>3


\* Parents and children by number.
LEMMA ParentOf ==
  ASSUME NEW p, WellFormed(p), NEW l \in Loops(p)
  PROVE  /\ l \in Nat \ {0} /\ l # 0
         /\ p.par[l] # 0 => p.par[l] \in Loops(p)
         /\ p.par[l] \in Nat /\ p.par[l] < l
         /\ p.par[l] = 0 => Ancestors(p, l) = {}
         /\ p.par[l] # 0 => Ancestors(p, l) = {p.par[l]} \cup Ancestors(p, p.par[l])
         /\ l \notin Ancestors(p, l)
<1>1. Cardinality(Loops(p)) \in Nat /\ Loops(p) = 1 .. Cardinality(Loops(p))
      /\ p.par[l] \in 0 .. l - 1
  BY FS_CardinalityType DEF WellFormed
<1>2. l \in Nat \ {0} /\ p.par[l] \in Nat /\ p.par[l] < l
      /\ (p.par[l] # 0 => p.par[l] \in Loops(p))
  BY <1>1
<1>3. l \notin Ancestors(p, l)
  <2>1. l \in Ancestors(p, l) => l < l  BY AncestorsAreOuter
  <2> QED  BY <1>2, <2>1
<1> QED  BY <1>2, <1>3, AncestorsWalk

\* The least member of a set of loops.
LEMMA MinOfNaturals ==
  ASSUME NEW S \in SUBSET Nat, S # {}
  PROVE  Min(S) \in S /\ \A y \in S : Min(S) <= y
BY LeastNatural DEF Min

\* Past the head of a loop come its parts, past its end come its siblings and
\* the rest of the loop around it: what surrounds these points.
LEMMA WithinInner ==
  ASSUME NEW p, WellFormed(p), NEW k \in Loops(p), NEW l
  PROVE  /\ Inner(p, k) \in {"step", "pre"} \X Loops(p)
         /\ Within(p, Inner(p, k), l) <=> l = k \/ l \in Ancestors(p, k)
<1>1. CASE Children(p, k) = {}
  <2>1. Inner(p, k) = <<"step", k>>  BY <1>1 DEF Inner
  <2> QED  BY <2>1 DEF Within
<1>2. CASE Children(p, k) # {}
  <2> DEFINE c == Min(Children(p, k))
  <2>1. Children(p, k) \in SUBSET Nat
    <3>1. Children(p, k) \subseteq Loops(p)  BY DEF Children
    <3> QED  BY <3>1, ParentOf
  <2>2. c \in Children(p, k)  BY <1>2, <2>1, MinOfNaturals
  <2>3. c \in Loops(p) /\ p.par[c] = k  BY <2>2 DEF Children
  <2>4. Inner(p, k) = <<"pre", c>>  BY <1>2 DEF Inner
  <2>5. k # 0 /\ Ancestors(p, c) = {k} \cup Ancestors(p, k)  BY <2>3, ParentOf
  <2> HIDE DEF c
  <2> QED  BY <2>3, <2>4, <2>5 DEF Within
<1> QED  BY <1>1, <1>2

LEMMA WithinAfter ==
  ASSUME NEW p, WellFormed(p), NEW k \in Loops(p) \cup {0}, NEW l
  PROVE  /\ After(p, k) = Done \/ After(p, k) \in {"step", "pre"} \X Loops(p)
         /\ Within(p, After(p, k), l) <=> k # 0 /\ l \in Ancestors(p, k)
         /\ After(p, k) = Done => k = 0 \/ Ancestors(p, k) = {}
<1> DEFINE outer == IF k = 0 THEN 0 ELSE p.par[k]
           next == {c \in Children(p, outer) : c > k}
<1>1. outer # 0 => /\ k # 0 /\ outer \in Loops(p)
                   /\ Ancestors(p, k) = {outer} \cup Ancestors(p, outer)
  BY ParentOf
<1>2. outer = 0 => k = 0 \/ Ancestors(p, k) = {}  BY ParentOf
<1>3. CASE next # {}
  <2> DEFINE c == Min(next)
  <2>1. next \in SUBSET Nat /\ next \subseteq Loops(p)
    <3>1. next \subseteq Loops(p)  BY DEF Children
    <3> QED  BY <3>1, ParentOf
  <2>2. c \in next  BY <1>3, <2>1, MinOfNaturals
  <2>3. c \in Loops(p) /\ p.par[c] = outer  BY <2>2 DEF Children
  <2>4. After(p, k) = <<"pre", c>>  BY <1>3 DEF After
  <2>5. outer = 0 => Ancestors(p, c) = {}  BY <2>3, ParentOf
  <2>6. outer # 0 => Ancestors(p, c) = {outer} \cup Ancestors(p, outer)  BY <2>3, ParentOf
  <2> HIDE DEF c, outer, next
  <2>7. Within(p, <<"pre", c>>, l) <=> l \in Ancestors(p, c)  BY <2>3 DEF Within
  <2>8. <<"pre", c>> # Done  BY DEF Done
  <2> QED  BY <1>1, <1>2, <2>3, <2>4, <2>5, <2>6, <2>7, <2>8
<1>4. CASE next = {} /\ outer # 0
  <2>1. After(p, k) = <<"step", outer>>  BY <1>4 DEF After
  <2> HIDE DEF outer, next
  <2>2. Within(p, <<"step", outer>>, l) <=> l = outer \/ l \in Ancestors(p, outer)
    BY <1>1, <1>4 DEF Within
  <2>3. <<"step", outer>> # Done  BY DEF Done
  <2> QED  BY <1>1, <1>4, <2>1, <2>2, <2>3
<1>5. CASE next = {} /\ outer = 0
  <2>1. After(p, k) = Done  BY <1>5 DEF After
  <2>2. ~Within(p, Done, l)
    <3>1. 0 \notin Loops(p)  BY ParentOf
    <3> QED  BY <3>1 DEF Within, Done
  <2> HIDE DEF outer, next
  <2> QED  BY <1>2, <1>5, <2>1, <2>2
<1> QED  BY <1>3, <1>4, <1>5

-----------------------------------------------------------------------------
(***************************************************************************)
(* Groups and ids.                                                         *)
(***************************************************************************)
\* No group starts inside the loop of another one: this is the case whenever no
\* eligible loop is inside an ineligible one inside an eligible one.  (Both
\* groups would use id 0.)
GroupsApart(p) == \A r \in Roots(p) : \A a \in Ancestors(p, r) : ~p.elig[a]

\* A loop is in one group only.
LEMMA OneRoot ==
  ASSUME NEW p, WellFormed(p), NEW r \in Roots(p), NEW s \in Roots(p),
         NEW l \in EligibleTree(p, r), l \in EligibleTree(p, s)
  PROVE  r = s
<1>1. ASSUME NEW t \in Roots(p), NEW u \in Roots(p), t \in Ancestors(p, u),
             l = u \/ u \in Ancestors(p, l), l \in EligibleTree(p, t)
      PROVE  FALSE
  <2>1. u \in Loops(p) /\ p.elig[u] /\ t \in Loops(p) /\ p.elig[t]  BY <1>1 DEF Roots
  <2>2. p.par[u] # 0  BY <1>1, <2>1, ParentOf
  <2>3. ~p.elig[p.par[u]]  BY <1>1, <2>2 DEF Roots
  <2>4. Ancestors(p, u) = {p.par[u]} \cup Ancestors(p, p.par[u])  BY <2>1, <2>2, ParentOf
  <2>5. t \in Ancestors(p, p.par[u])  BY <1>1, <2>1, <2>3, <2>4
  <2>6. l \in Loops(p)  BY DEF EligibleTree
  <2>7. p.par[u] \in Ancestors(p, l)
    <3>1. CASE l = u  BY <2>4, <3>1
    <3>2. CASE u \in Ancestors(p, l)
      <4>1. Ancestors(p, u) \subseteq Ancestors(p, l)  BY <2>6, <3>2, AncestorsAreOuter
      <4> QED  BY <2>4, <4>1
    <3> QED  BY <1>1, <3>1, <3>2
  <2>8. l # t
    <3>1. t \in Ancestors(p, l)
      <4>1. CASE l = u  BY <1>1, <4>1
      <4>2. CASE u \in Ancestors(p, l)
        <5>1. Ancestors(p, u) \subseteq Ancestors(p, l)  BY <2>6, <4>2, AncestorsAreOuter
        <5> QED  BY <1>1, <5>1
      <4> QED  BY <1>1, <4>1, <4>2
    <3> QED  BY <2>6, <3>1, ParentOf
  <2>9. p.elig[p.par[u]]  BY <1>1, <2>5, <2>7, <2>8 DEF EligibleTree
  <2> QED  BY <2>3, <2>9
<1>2. l \in Loops(p) /\ (l = r \/ r \in Ancestors(p, l)) /\ (l = s \/ s \in Ancestors(p, l))
  BY DEF EligibleTree
<1>3. r = s \/ r \in Ancestors(p, s) \/ s \in Ancestors(p, r)
  BY <1>2, AncestorsAreOrdered
<1> QED  BY <1>1, <1>2, <1>3

\* The tree of a root consists of the root and eligible loops inside it.
LEMMA TreeMembers ==
  ASSUME NEW p, WellFormed(p), NEW r \in Roots(p)
  PROVE  /\ r \in EligibleTree(p, r) /\ r \in Loops(p)
         /\ EligibleTree(p, r) \subseteq Loops(p)
         /\ \A l \in EligibleTree(p, r) :
              p.elig[l] /\ (l = r \/ (r \in Ancestors(p, l) /\ r < l))
<1>1. r \in Loops(p) /\ p.elig[r]  BY DEF Roots
<1>2. \A l \in EligibleTree(p, r) : l \in Loops(p) /\ (l = r \/ r \in Ancestors(p, l))
                                    /\ (l # r => p.elig[l])
  BY DEF EligibleTree
<1>3. r \in EligibleTree(p, r)  BY <1>1 DEF EligibleTree
<1> QED  BY <1>1, <1>2, <1>3, AncestorsAreOuter

\* With groups apart, an eligible loop around a loop of a group is in the group.
LEMMA AroundIsInGroup ==
  ASSUME NEW p, WellFormed(p), GroupsApart(p), NEW r \in Roots(p),
         NEW l \in EligibleTree(p, r), NEW a \in Ancestors(p, l), p.elig[a]
  PROVE  a \in EligibleTree(p, r)
<1>1. l \in Loops(p) /\ a \in Loops(p)  BY TreeMembers, AncestorsAreOuter
<1>2. r = a \/ r \in Ancestors(p, a) \/ a \in Ancestors(p, r)
  <2>1. CASE l = r  BY <2>1
  <2>2. CASE r \in Ancestors(p, l)  BY <1>1, <2>2, AncestorsAreOrdered
  <2> QED  BY <2>1, <2>2, TreeMembers
<1>3. a \notin Ancestors(p, r)  BY DEF GroupsApart
<1>4. CASE r = a  BY <1>4, TreeMembers
<1>5. CASE r \in Ancestors(p, a)
  <2>1. Ancestors(p, a) \subseteq Ancestors(p, l)  BY <1>1, AncestorsAreOuter
  <2>2. l # r
    <3>1. r \in Ancestors(p, l) => l # r  BY <1>1, ParentOf
    <3> QED  BY <1>5, <2>1, <3>1
  <2>3. \A k \in Ancestors(p, l) : r \in Ancestors(p, k) => p.elig[k]
    BY <2>2 DEF EligibleTree
  <2>4. \A k \in Ancestors(p, a) : r \in Ancestors(p, k) => p.elig[k]  BY <2>1, <2>3
  <2> QED  BY <1>1, <1>5, <2>4 DEF EligibleTree
<1> QED  BY <1>2, <1>3, <1>4, <1>5

\* The id of a loop is its position among the loops configured in its group.
LEMMA IdInGroup ==
  ASSUME NEW p, WellFormed(p), NEW s, NEW r \in Roots(p), NEW l \in EligibleTree(p, r)
  PROVE  LoopId(p, s, l) = Cardinality({k \in s \cap EligibleTree(p, r) : k < l})
<1> DEFINE root == CHOOSE t \in Roots(p) : l \in EligibleTree(p, t)
<1>1. root \in Roots(p) /\ l \in EligibleTree(p, root)  OBVIOUS
<1>2. root = r  BY <1>1, OneRoot
<1> QED  BY <1>2 DEF LoopId

\* Ids count from 0, the root's, in the order of the loops.
LEMMA IdsAreOrdered ==
  ASSUME NEW p, WellFormed(p), NEW s, NEW r \in Roots(p), NEW l \in s \cap EligibleTree(p, r)
  PROVE  /\ LoopId(p, s, l) \in Nat
         /\ LoopId(p, s, l) < Cardinality(s \cap EligibleTree(p, r))
         /\ LoopId(p, s, r) = 0
         /\ \A k \in s \cap EligibleTree(p, r) : k < l => LoopId(p, s, k) < LoopId(p, s, l)
<1> DEFINE G == s \cap EligibleTree(p, r)
           before(k) == {j \in G : j < k}
<1>1. G \subseteq Loops(p) /\ IsFiniteSet(G)
  <2>1. G \subseteq Loops(p)  BY TreeMembers
  <2> QED  BY <2>1, FS_Subset DEF WellFormed
<1>2. \A k \in G : k \in Nat  BY <1>1, ParentOf
<1>3. \A k \in G : LoopId(p, s, k) = Cardinality(before(k))  BY IdInGroup
<1>4. ASSUME NEW k \in G PROVE /\ IsFiniteSet(before(k)) /\ Cardinality(before(k)) \in Nat
                               /\ Cardinality(before(k)) < Cardinality(G)
  <2>1. before(k) \subseteq G /\ k \notin before(k)  BY <1>2
  <2>2. IsFiniteSet(before(k)) /\ Cardinality(before(k)) <= Cardinality(G)
        /\ (Cardinality(before(k)) = Cardinality(G) => before(k) = G)
    BY <1>1, <2>1, FS_Subset
  <2>3. Cardinality(before(k)) # Cardinality(G)  BY <2>1, <2>2
  <2>4. Cardinality(before(k)) \in Nat /\ Cardinality(G) \in Nat
    BY <1>1, <2>2, FS_CardinalityType
  <2> QED  BY <2>2, <2>3, <2>4
<1>5. LoopId(p, s, r) = 0
  <2>1. before(r) = {}
    <3>1. \A j \in G : j = r \/ r < j  BY TreeMembers
    <3>2. r \in Nat  BY TreeMembers, ParentOf
    <3> QED  BY <1>2, <3>1, <3>2
  <2>2. LoopId(p, s, r) = Cardinality(before(r))  BY TreeMembers, IdInGroup
  <2> HIDE DEF before
  <2> QED  BY <2>1, <2>2, FS_EmptySet
<1>6. ASSUME NEW k \in G, k < l PROVE LoopId(p, s, k) < LoopId(p, s, l)
  <2>1. before(k) \subseteq before(l) /\ k \in before(l) /\ k \notin before(k)
    BY <1>2, <1>6
  <2>2. Cardinality(before(k)) <= Cardinality(before(l))
        /\ (Cardinality(before(k)) = Cardinality(before(l)) => before(k) = before(l))
    BY <1>4, <2>1, FS_Subset
  <2>3. Cardinality(before(k)) # Cardinality(before(l))  BY <2>1, <2>2
  <2>4. Cardinality(before(k)) \in Nat /\ Cardinality(before(l)) \in Nat  BY <1>4
  <2>5. Cardinality(before(k)) < Cardinality(before(l))  BY <2>2, <2>3, <2>4
  <2> QED  BY <1>3, <2>5
<1>7. l \in G  OBVIOUS
<1> HIDE DEF G, before
<1> QED  BY <1>3, <1>4, <1>5, <1>6, <1>7 DEF G

-----------------------------------------------------------------------------
(***************************************************************************)
(* Numbers: greatest members, powers of two, remainders.                   *)
(***************************************************************************)
\* A finite set of naturals has a greatest member: the one that fewest others
\* exceed.
LEMMA MaxOfFinite ==
  ASSUME NEW S \in SUBSET Nat, IsFiniteSet(S), S # {}
  PROVE  Max(S) \in S /\ \A y \in S : Max(S) >= y
<1> DEFINE above(x) == {y \in S : y > x}
           Sizes == {Cardinality(above(x)) : x \in S}
<1>1. \A x \in S : IsFiniteSet(above(x)) /\ Cardinality(above(x)) \in Nat
  <2> TAKE x \in S
  <2>1. above(x) \subseteq S  OBVIOUS
  <2> HIDE DEF above
  <2> QED  BY <2>1, FS_Subset, FS_CardinalityType
<1>2. Sizes \in SUBSET Nat /\ Sizes # {}  BY <1>1
<1>3. PICK x \in S : \A y \in S : Cardinality(above(x)) <= Cardinality(above(y))
  <2>1. PICK m \in Sizes : \A c \in Sizes : m <= c  BY <1>2, LeastNatural
  <2>2. PICK x \in S : m = Cardinality(above(x))  OBVIOUS
  <2> QED  BY <2>1, <2>2
<1>4. ASSUME NEW y \in S, y > x PROVE FALSE
  <2>1. above(y) \subseteq above(x) /\ y \in above(x) /\ y \notin above(y)
    <3>1. x \in Nat /\ y \in Nat /\ \A z \in S : z \in Nat  OBVIOUS
    <3>2. \A z \in S : z > y => z > x  BY <1>4, <3>1
    <3>3. ~(y > y)  BY <3>1
    <3> QED  BY <1>4, <3>2, <3>3
  <2> HIDE DEF above
  <2>2. Cardinality(above(y)) <= Cardinality(above(x))
        /\ (Cardinality(above(x)) = Cardinality(above(y)) => above(x) = above(y))
    BY <1>1, <2>1, FS_Subset
  <2>3. Cardinality(above(x)) # Cardinality(above(y))  BY <2>1, <2>2
  <2> QED  BY <1>1, <1>3, <2>2, <2>3
<1>5. \E m \in S : \A y \in S : m >= y  BY <1>4
<1> QED  BY <1>5 DEF Max

LEMMA PowerPositive == ASSUME NEW k \in Nat PROVE 2^k \in Nat \ {0}
<1>1. IsFiniteSet(1 .. k) /\ Cardinality(1 .. k) = k  BY FS_Interval
<1>2. IsFiniteSet(SUBSET (1 .. k)) /\ Cardinality(SUBSET (1 .. k)) = 2^k
  BY <1>1, FS_SUBSET
<1>3. SUBSET (1 .. k) # {}  OBVIOUS
<1> QED  BY <1>2, <1>3, FS_CardinalityType, FS_EmptySet

\* There are more sets of k things than things.
LEMMA PowerIsGreater == ASSUME NEW k \in Nat PROVE k < 2^k
<1> DEFINE Singles == {{i} : i \in 1 .. k}
           single == [i \in 1 .. k |-> {i}]
<1>1. IsFiniteSet(1 .. k) /\ Cardinality(1 .. k) = k  BY FS_Interval
<1>2. IsFiniteSet(SUBSET (1 .. k)) /\ Cardinality(SUBSET (1 .. k)) = 2^k
  BY <1>1, FS_SUBSET
<1>3. single \in Bijection(1 .. k, Singles)
  BY DEF Bijection, Injection, Surjection, IsInjective
<1>4. IsFiniteSet(Singles) /\ Cardinality(Singles) = k
  BY <1>1, <1>3, FS_Bijection DEF ExistsBijection
<1>5. Singles \subseteq SUBSET (1 .. k) /\ {} \notin Singles /\ {} \in SUBSET (1 .. k)
  OBVIOUS
<1> HIDE DEF Singles
<1>6. Cardinality(Singles) <= Cardinality(SUBSET (1 .. k))
      /\ (Cardinality(SUBSET (1 .. k)) = Cardinality(Singles) => SUBSET (1 .. k) = Singles)
  BY <1>2, <1>5, FS_Subset
<1>7. SUBSET (1 .. k) # Singles  BY <1>5
<1> QED  BY <1>2, <1>4, <1>6, <1>7, PowerPositive

\* Register arithmetic stays within the register.
LEMMA WordRange ==
  ASSUME NEW x \in Int, NEW w \in Nat
  PROVE  Word(x, w) \in 0 .. 2^w - 1
<1>1. 2^w \in Nat \ {0}  BY PowerPositive
<1> QED  BY <1>1 DEF Word

LEMMA Quotient == ASSUME NEW x \in Nat, NEW d \in Nat \ {0} PROVE x \div d \in Nat
  BY Z3

LEMMA AbsIsNat == ASSUME NEW x \in Int PROVE AbsInt(x) \in Nat /\ (x # 0 => AbsInt(x) # 0)
  BY DEF AbsInt

LEMMA MaxOfTwo ==
  ASSUME NEW a \in Int, NEW b \in Int
  PROVE  Max({a, b}) = IF a >= b THEN a ELSE b
<1>1. \E m \in {a, b} : \A y \in {a, b} : m >= y  OBVIOUS
<1>2. Max({a, b}) \in {a, b} /\ \A y \in {a, b} : Max({a, b}) >= y  BY <1>1 DEF Max
<1> QED  BY <1>2

LEMMA MinOfTwo ==
  ASSUME NEW a \in Int, NEW b \in Int
  PROVE  Min({a, b}) = IF a <= b THEN a ELSE b
<1>1. \E m \in {a, b} : \A y \in {a, b} : m <= y  OBVIOUS
<1>2. Min({a, b}) \in {a, b} /\ \A y \in {a, b} : Min({a, b}) <= y  BY <1>1 DEF Min
<1> QED  BY <1>2

-----------------------------------------------------------------------------
(***************************************************************************)
(* Counts and the width of the counters.                                   *)
(***************************************************************************)
Registers == {"iv", "bound", "init"}

\* What a count says, where there is one.
LEMMA CountTyped ==
  ASSUME NEW p, WellFormed(p), NEW l \in Loops(p)
  PROVE  LET c == DetermineCount(p, l)
         IN  /\ c.op \in {"li", "reg", "sub", "none", "raise"}
             /\ c.op = "li" => c.x \in Int
             /\ c.op \in {"reg", "sub"} => c.x \in Registers
             /\ c.op = "sub" => c.lo \in Registers
             /\ c.div \in Nat \ {0}
<1> DEFINE Typed(c) == /\ c.op \in {"li", "reg", "sub", "none", "raise"}
                       /\ c.op = "li" => c.x \in Int
                       /\ c.op \in {"reg", "sub"} => c.x \in Registers
                       /\ c.op = "sub" => c.lo \in Registers
                       /\ c.div \in Nat \ {0}
<1>1. /\ p.step[l] \in Int \ {0} /\ p.init[l].val \in Int /\ p.bnd[l].val \in Int
      /\ AbsInt(p.step[l]) \in Nat \ {0}
  BY AbsIsNat DEF WellFormed
<1>2. \A x \in Int : AbsInt(x) \div AbsInt(p.step[l]) \in Nat
  BY <1>1, AbsIsNat, Quotient
<1>3. KnownInit(p, l) \in Int  BY <1>1 DEF KnownInit
<1> HIDE DEF Typed
<1>4. \A n \in Int : Typed(Count("li", n, "", 1))  BY DEF Typed, Count
<1>5. \A x \in Registers, d \in Nat \ {0} : Typed(Count("reg", x, "", d))
  BY DEF Typed, Count
<1>6. \A x, lo \in Registers, d \in Nat \ {0} : Typed(Count("sub", x, lo, d))
  BY DEF Typed, Count
<1>7. Typed(NoCount) /\ Typed(Count("raise", 0, "", 1))  BY DEF Typed, Count, NoCount
<1>8. {"iv", "bound", "init"} = Registers /\ 1 \in Nat \ {0} /\ 0 \in Int  BY DEF Registers
<1>9. Typed(CountResolved(p, l))
  <2>1. AbsInt(p.bnd[l].val - KnownInit(p, l)) \div AbsInt(p.step[l]) \in Int  BY <1>1, <1>2, <1>3
  <2> QED  BY <1>1, <1>4, <1>5, <1>6, <1>7, <1>8, <2>1 DEF CountResolved
<1>10. Typed(CountToZero(p, l))
  <2>1. AbsInt(p.init[l].val) \div AbsInt(p.step[l]) \in Int  BY <1>1, <1>2
  <2> QED  BY <1>1, <1>4, <1>5, <1>8, <2>1 DEF CountToZero
<1>11. Typed(CountFromRegister(p, l))
  <2>1. AbsInt(p.init[l].val) \div AbsInt(p.step[l]) \in Int  BY <1>1, <1>2
  <2> QED  BY <1>1, <1>4, <1>5, <1>6, <1>7, <1>8, <2>1 DEF CountFromRegister
<1>12. Typed(DetermineCount(p, l))  BY <1>9, <1>10, <1>11 DEF DetermineCount
<1> QED  BY <1>12 DEF Typed

LEMMA BoundRange ==
  ASSUME NEW p, WellFormed(p), NEW l \in Loops(p), NEW w \in Nat
  PROVE  BoundValue(p, l, w) \in 0 .. 2^w - 1
<1>1. 2^w \in Nat \ {0}  BY PowerPositive
<1>2. Word(p.bnd[l].val, w) \in 0 .. 2^w - 1
  <2>1. p.bnd[l].val \in Int  BY DEF WellFormed
  <2> QED  BY <2>1, WordRange
<1> QED  BY <1>1, <1>2 DEF BoundValue

LEMMA InitRange ==
  ASSUME NEW p, WellFormed(p), NEW l \in Loops(p), NEW w \in Nat,
         NEW v \in [Loops(p) -> 0 .. 2^w - 1]
  PROVE  InitValue(p, l, v, w) \in 0 .. 2^w - 1
<1>1. 2^w \in Nat \ {0}  BY PowerPositive
<1>2. /\ p.bnd[l].val \in Int /\ p.init[l].val \in Int
      /\ p.init[l].kind \in {"zero", "imm", "arg", "outer", "off"}
      /\ p.init[l].kind = "outer" => p.par[l] # 0
  BY DEF WellFormed
<1>3. /\ Word(p.init[l].val, w) \in 0 .. 2^w - 1
      /\ Word(p.bnd[l].val + p.init[l].val, w) \in 0 .. 2^w - 1
  <2>1. p.bnd[l].val + p.init[l].val \in Int  BY <1>2
  <2> QED  BY <1>2, <2>1, WordRange
<1>4. p.init[l].kind = "outer" => v[p.par[l]] \in 0 .. 2^w - 1  BY <1>2, ParentOf
<1> QED  BY <1>1, <1>2, <1>3, <1>4 DEF InitValue

LEMMA CountIsInt ==
  ASSUME NEW p, WellFormed(p), NEW l \in Loops(p), NEW w \in Nat,
         NEW v \in [Loops(p) -> 0 .. 2^w - 1],
         DetermineCount(p, l).op \notin {"none", "raise"}
  PROVE  CountValue(p, l, v, w) \in Nat
<1> DEFINE c == DetermineCount(p, l)
           reg(x) == CASE x = "iv"    -> v[l]
                       [] x = "bound" -> BoundValue(p, l, w)
                       [] x = "init"  -> Word(p.init[l].val, w)
<1>1. /\ c.op \in {"li", "reg", "sub"}
      /\ c.op = "li" => c.x \in Int
      /\ c.op \in {"reg", "sub"} => c.x \in Registers
      /\ c.op = "sub" => c.lo \in Registers
      /\ c.div \in Nat \ {0}
  BY CountTyped
<1>2. 2^w \in Nat \ {0}  BY PowerPositive
<1>3. \A x \in Registers : reg(x) \in Nat
  <2>1. Word(p.init[l].val, w) \in 0 .. 2^w - 1  BY WordRange DEF WellFormed
  <2>2. v[l] \in 0 .. 2^w - 1 /\ BoundValue(p, l, w) \in 0 .. 2^w - 1  BY BoundRange
  <2>3. v[l] \in Nat /\ BoundValue(p, l, w) \in Nat /\ Word(p.init[l].val, w) \in Nat
    BY <1>2, <2>1, <2>2
  <2> QED  BY <2>3 DEF Registers
<1>4. CountValue(p, l, v, w) = CASE c.op = "li"  -> Word(c.x, w)
                                 [] c.op = "reg" -> reg(c.x) \div c.div
                                 [] c.op = "sub" -> Word(reg(c.x) - reg(c.lo), w) \div c.div
  BY DEF CountValue
<1> HIDE DEF c, reg
<1>5. \A x \in Int : Word(x, w) \in Nat
  <2> TAKE x \in Int
  <2>1. Word(x, w) \in 0 .. 2^w - 1  BY WordRange
  <2> QED  BY <1>2, <2>1
<1>6. CASE c.op = "li"  BY <1>1, <1>4, <1>5, <1>6
<1>7. CASE c.op = "reg"
  <2>1. reg(c.x) \div c.div \in Nat  BY <1>1, <1>3, <1>7, Quotient
  <2> QED  BY <1>4, <1>7, <2>1
<1>8. CASE c.op = "sub"
  <2>1. Word(reg(c.x) - reg(c.lo), w) \in Nat  BY <1>1, <1>3, <1>5, <1>8
  <2>2. Word(reg(c.x) - reg(c.lo), w) \div c.div \in Nat  BY <1>1, <2>1, Quotient
  <2> QED  BY <1>4, <1>8, <2>2
<1> QED  BY <1>1, <1>6, <1>7, <1>8

\* The largest count seen of a loop, and of all loops, is a number.
LEMMA SeenIsNat ==
  ASSUME NEW p, WellFormed(p), NEW l \in Loops(p)
  PROVE  CountSeen(p, l) \in Nat
<1> DEFINE c == DetermineCount(p, l)
           A == IF c.op = "li" THEN {c.x} ELSE {}
           B == IF c.op = "sub" /\ c.x = "bound" /\ ResolvedConst(p, l) THEN {p.bnd[l].val} ELSE {}
           C == IF c.div > 1 /\ ~PowerOfTwo(c.div) THEN {c.div} ELSE {}
           I == IF p.init[l].kind = "imm" THEN {AbsInt(p.init[l].val)} ELSE {}
           S == {0} \cup Estimates(p, l) \cup LiConstants(p, l) \cup I
<1>1. /\ p.step[l] \in Int \ {0} /\ p.init[l].val \in Int /\ p.bnd[l].val \in Int
      /\ AbsInt(p.step[l]) \in Nat \ {0}
  BY AbsIsNat DEF WellFormed
<1>2. c.div \in Nat \ {0} /\ (c.op = "li" => c.x \in Int)  BY CountTyped
<1>3. A \subseteq Int /\ B \subseteq Int /\ C \subseteq Int  BY <1>1, <1>2
<1>4. IsFiniteSet(A) /\ IsFiniteSet(B) /\ IsFiniteSet(C) /\ IsFiniteSet(I) /\ IsFiniteSet({0})
  BY FS_EmptySet, FS_Singleton
<1>5. LiConstants(p, l) = {AbsInt(k) : k \in A \cup B \cup C}
  BY DEF LiConstants
<1>6. LiConstants(p, l) \subseteq Nat /\ IsFiniteSet(LiConstants(p, l))
  <2> DEFINE T == A \cup B \cup C
             f == [k \in T |-> AbsInt(k)]
  <2>1. IsFiniteSet(T) /\ T \subseteq Int
    <3> HIDE DEF A, B, C
    <3>1. IsFiniteSet(A \cup B)  BY <1>4, FS_Union
    <3> QED  BY <1>3, <1>4, <3>1, FS_Union
  <2> HIDE DEF T
  <2>2. f \in Surjection(T, {AbsInt(k) : k \in T})  BY DEF Surjection
  <2>3. IsFiniteSet({AbsInt(k) : k \in T})  BY <2>1, <2>2, FS_Surjection
  <2>4. {AbsInt(k) : k \in T} \subseteq Nat  BY <2>1, AbsIsNat
  <2> QED  BY <1>5, <2>3, <2>4 DEF T
<1>7. Estimates(p, l) \subseteq Nat /\ IsFiniteSet(Estimates(p, l))
  <2>1. KnownInit(p, l) \in Int  BY <1>1 DEF KnownInit
  <2>2. \A x \in Int : AbsInt(x) \div AbsInt(p.step[l]) \in Nat
    BY <1>1, AbsIsNat, Quotient
  <2> DEFINE b == IF p.bnd[l].kind = "zero" THEN 0 ELSE p.bnd[l].val
             e == AbsInt(b - KnownInit(p, l)) \div AbsInt(p.step[l])
  <2>3. e \in Nat
    <3>1. b - KnownInit(p, l) \in Int  BY <1>1, <2>1
    <3> QED  BY <2>2, <3>1
  <2>4. Estimates(p, l) = {e} \/ Estimates(p, l) = {}  BY DEF Estimates
  <2> HIDE DEF e
  <2> QED  BY <2>3, <2>4, FS_EmptySet, FS_Singleton
<1>8. I \subseteq Nat  BY <1>1, AbsIsNat
<1>9. IsFiniteSet(S) /\ S \subseteq Nat /\ S # {}
  <2> HIDE DEF I
  <2>1. IsFiniteSet({0} \cup Estimates(p, l))  BY <1>4, <1>7, FS_Union
  <2>2. IsFiniteSet({0} \cup Estimates(p, l) \cup LiConstants(p, l))  BY <1>6, <2>1, FS_Union
  <2>3. IsFiniteSet(S)  BY <1>4, <2>2, FS_Union
  <2>4. {0} \subseteq Nat /\ 0 \in {0}  OBVIOUS
  <2>5. S \subseteq Nat /\ 0 \in S  BY <1>6, <1>7, <1>8, <2>4, Zenon
  <2> QED  BY <2>3, <2>5
<1>10. CountSeen(p, l) = Max(S)  BY DEF CountSeen
<1> HIDE DEF S
<1> QED  BY <1>9, <1>10, MaxOfFinite

LEMMA WidthRange ==
  ASSUME NEW p, WellFormed(p), NEW s \in SUBSET Loops(p),
         NEW margin \in Nat, NEW most \in Nat \ {0},
         NEW least \in 1 .. most, NEW default \in 1 .. most
  PROVE  CounterWidth(p, s, margin, least, default, most) \in 1 .. most
<1> DEFINE counts == {CountSeen(p, l) : l \in s}
           seen == Max({0} \cup counts)
           f == [l \in s |-> CountSeen(p, l)]
           bits == BitLength(seen)
<1>1. counts \subseteq Nat /\ IsFiniteSet(counts)
  <2>1. IsFiniteSet(s)  BY FS_Subset DEF WellFormed
  <2>2. f \in Surjection(s, counts)  BY DEF Surjection
  <2>3. IsFiniteSet(counts)  BY <2>1, <2>2, FS_Surjection
  <2> QED  BY <2>3, SeenIsNat
<1> HIDE DEF counts
<1>2. seen \in Nat
  <2>1. IsFiniteSet({0} \cup counts)  BY <1>1, FS_Singleton, FS_Union
  <2>2. {0} \cup counts \in SUBSET Nat /\ {0} \cup counts # {}  BY <1>1
  <2> QED  BY <2>1, <2>2, MaxOfFinite
<1>3. CounterWidth(p, s, margin, least, default, most) =
        IF seen = 0 THEN default ELSE Max({least, Min({most, bits + margin})})
  BY DEF CounterWidth, counts
<1> HIDE DEF seen
<1>4. bits \in Nat
  <2> DEFINE K == {k \in 0 .. seen : seen < 2^k}
  <2>1. seen \in K  BY <1>2, PowerIsGreater
  <2>2. K \in SUBSET Nat  BY <1>2
  <2>3. bits = Min(K)  BY DEF BitLength
  <2> HIDE DEF K, bits
  <2>4. Min(K) \in K  BY <2>1, <2>2, MinOfNaturals
  <2> QED  BY <2>2, <2>3, <2>4
<1> HIDE DEF bits
<1>5. Min({most, bits + margin}) = IF most <= bits + margin THEN most ELSE bits + margin
  BY <1>4, MinOfTwo
<1>6. Min({most, bits + margin}) \in 0 .. most  BY <1>4, <1>5
<1>7. Max({least, Min({most, bits + margin})}) \in 1 .. most
  <2> DEFINE m == Min({most, bits + margin})
  <2>1. m \in Int /\ least \in Int /\ m \in 0 .. most  BY <1>6
  <2> HIDE DEF m
  <2>2. Max({least, m}) = IF least >= m THEN least ELSE m  BY <2>1, MaxOfTwo
  <2> QED  BY <2>1, <2>2 DEF m
<1> QED  BY <1>3, <1>7

-----------------------------------------------------------------------------
(***************************************************************************)
(* Types.                                                                  *)
(***************************************************************************)
MostLoops == Max(HwLoops \cup {2})

\* What generate() settled, once and for all.
PlanInv ==
  /\ prog \in Programs /\ sel \subseteq Loops(prog)
  /\ cntWidth \in 1 .. Width
  /\ \A l \in sel :
       /\ DetermineCount(prog, l).op \notin {"none", "raise"}
       /\ \E r \in Roots(prog) : l \in EligibleTree(prog, r) /\ r \in sel
  /\ \A r \in Roots(prog) : Cardinality(sel \cap EligibleTree(prog, r)) <= MostLoops

\* What the registers can hold.
Registered ==
  [loop   : [Ids -> Loops(prog) \cup {0}],
   cnt    : [Ids -> 0 .. 2^cntWidth - 1],
   shadow : [Ids -> 0 .. 2^cntWidth - 1],
   fsm    : {"DECODE", "DECODE_HWLOOP"}]

\* Where control can be: setup code stands where the patcher puts it.
Placed(q) ==
  \/ q = Done
  \/ /\ q \in {"pre", "bounds", "count", "inner", "head", "step", "back", "clear"} \X Loops(prog)
     /\ q[1] \in {"bounds", "inner"} => IsRoot(q[2])
     /\ q[1] = "count" => q[2] \in sel
     /\ q[1] = "clear" => IsRoot(q[2]) /\ InnerOf(q[2]) # {}

Typed ==
  /\ PlanInv
  /\ hw \in Registered
  /\ Placed(pc)
  /\ iv \in [Loops(prog) -> 0 .. 2^Width - 1]

LEMMA HwLoopsNumbers ==
  MostLoops \in Nat /\ MostLoops >= 2 /\ \A h \in HwLoops : h <= MostLoops
<1>1. IsFiniteSet(HwLoops \cup {2})  BY HwloopNestAssumption, FS_Singleton, FS_Union
<1>2. HwLoops \cup {2} \in SUBSET Nat /\ HwLoops \cup {2} # {}  BY HwloopNestAssumption
<1>3. MostLoops \in HwLoops \cup {2} /\ \A h \in HwLoops \cup {2} : MostLoops >= h
  BY <1>1, <1>2, MaxOfFinite DEF MostLoops
<1> HIDE DEF MostLoops
<1> QED  BY <1>2, <1>3

LEMMA InitTyped == Init => Typed
<1> SUFFICES ASSUME Init PROVE Typed
  OBVIOUS
<1>1. prog \in Programs /\ WellFormed(prog)  BY HwloopNestAssumption DEF Init
<1>2. PICK hwLoop \in HwLoops : sel \in Plans(prog, hwLoop)  BY DEF Init
<1>3. hwLoop \in Nat /\ hwLoop <= MostLoops  BY HwloopNestAssumption, HwLoopsNumbers
<1>4. \A r \in Roots(prog) :
        \/ sel \cap EligibleTree(prog, r) = {}
        \/ /\ r \in sel
           /\ Cardinality(sel \cap EligibleTree(prog, r))
                = Min({hwLoop, Cardinality(EligibleTree(prog, r))})
  BY <1>2 DEF Plans, Selections
<1>5. \A r \in Roots(prog) : Cardinality(sel \cap EligibleTree(prog, r)) <= MostLoops
  <2> TAKE r \in Roots(prog)
  <2>1. Cardinality(EligibleTree(prog, r)) \in Nat
    <3>1. EligibleTree(prog, r) \subseteq Loops(prog)  BY <1>1, TreeMembers
    <3> QED  BY <1>1, <3>1, FS_Subset, FS_CardinalityType DEF WellFormed
  <2>2. Min({hwLoop, Cardinality(EligibleTree(prog, r))}) <= hwLoop
        /\ Min({hwLoop, Cardinality(EligibleTree(prog, r))}) \in Nat
    BY <1>3, <2>1, MinOfTwo
  <2>3. CASE sel \cap EligibleTree(prog, r) = {}
    BY <2>3, FS_EmptySet, HwLoopsNumbers
  <2>4. CASE sel \cap EligibleTree(prog, r) # {}
    <3>1. Cardinality(sel \cap EligibleTree(prog, r))
            = Min({hwLoop, Cardinality(EligibleTree(prog, r))})
      BY <1>4, <2>4
    <3> QED  BY <1>3, <2>2, <3>1, HwLoopsNumbers
  <2> QED  BY <2>3, <2>4
<1>6. /\ sel \subseteq Loops(prog)
      /\ \A l \in sel : /\ DetermineCount(prog, l).op \notin {"none", "raise"}
                        /\ \E r \in Roots(prog) : l \in EligibleTree(prog, r)
  BY <1>2 DEF Plans
<1>7. \A l \in sel : \E r \in Roots(prog) : l \in EligibleTree(prog, r) /\ r \in sel
  <2> TAKE l \in sel
  <2>1. PICK r \in Roots(prog) : l \in EligibleTree(prog, r)  BY <1>6
  <2>2. sel \cap EligibleTree(prog, r) # {}  BY <2>1
  <2> QED  BY <1>4, <2>1, <2>2
<1>8. cntWidth \in 1 .. Width
  BY <1>1, <1>6, WidthRange, HwloopNestAssumption DEF Init
<1>9. PlanInv  BY <1>1, <1>5, <1>6, <1>7, <1>8 DEF PlanInv
<1>10. 2^cntWidth \in Nat \ {0} /\ 2^Width \in Nat \ {0}
  BY <1>8, PowerPositive, HwloopNestAssumption
<1>11. hw \in Registered  BY <1>10 DEF Registered, Init, Reset
<1>12. Placed(pc)
  <2>1. pc = After(prog, 0)  BY DEF Init
  <2>2. pc = Done \/ pc \in {"step", "pre"} \X Loops(prog)  BY <1>1, <2>1, WithinAfter
  <2> QED  BY <2>2 DEF Placed
<1>13. iv \in [Loops(prog) -> 0 .. 2^Width - 1]  BY <1>10 DEF Init
<1> QED  BY <1>9, <1>11, <1>12, <1>13 DEF Typed

LEMMA ExecuteTyped ==
  ASSUME PlanInv, hw \in Registered
  PROVE  Execute(prog, hw, pc) \in Registered
<1>1. 2^cntWidth \in Nat \ {0}
  <2>1. cntWidth \in Nat  BY HwloopNestAssumption DEF PlanInv
  <2> QED  BY <2>1, PowerPositive
<1>2. /\ DOMAIN hw.cnt = Ids
      /\ hw.cnt \in [Ids -> 0 .. 2^cntWidth - 1] /\ hw.shadow \in [Ids -> 0 .. 2^cntWidth - 1]
  BY DEF Registered
<1>3. \A i \in DecCnt(hw, pc) : hw.cnt[i] # 0
  BY DEF DecCnt, DecWanted
<1>4. Counters(hw, pc) \in [Ids -> 0 .. 2^cntWidth - 1]
  <2> DEFINE dec == DecCnt(hw, pc)
  <2>1. Counters(hw, pc) = [i \in Ids |-> IF i \in dec THEN hw.cnt[i] - 1
                              ELSE IF \E j \in dec : j < i THEN hw.shadow[i] ELSE hw.cnt[i]]
    BY <1>2 DEF Counters
  <2>2. ASSUME NEW i \in Ids, i \in dec PROVE hw.cnt[i] - 1 \in 0 .. 2^cntWidth - 1
    <3>1. hw.cnt[i] \in 0 .. 2^cntWidth - 1 /\ hw.cnt[i] # 0  BY <1>2, <1>3, <2>2
    <3> QED  BY <1>1, <3>1
  <2> HIDE DEF dec
  <2> QED  BY <1>2, <2>1, <2>2
<1>5. NextFsm(prog, hw, pc) \in {"DECODE", "DECODE_HWLOOP"}  BY DEF NextFsm
<1> QED  BY <1>4, <1>5 DEF Execute, Registered

LEMMA SetupTyped ==
  ASSUME NEW h \in Registered
  PROVE  [h EXCEPT !.fsm = NextFsm(prog, hw, pc)] \in Registered
<1>1. NextFsm(prog, hw, pc) \in {"DECODE", "DECODE_HWLOOP"}  BY DEF NextFsm
<1> QED  BY <1>1 DEF Registered

LEMMA NextTyped == Typed /\ [Next]_vars => Typed'
<1> SUFFICES ASSUME Typed, [Next]_vars PROVE Typed'
  OBVIOUS
<1>0. PlanInv /\ hw \in Registered /\ Placed(pc) /\ iv \in [Loops(prog) -> 0 .. 2^Width - 1]
      /\ WellFormed(prog) /\ Width \in Nat
  BY HwloopNestAssumption DEF Typed, PlanInv
<1>1. CASE UNCHANGED vars
  BY <1>0, <1>1 DEF vars, Typed, PlanInv, Registered, Placed, IsRoot, InnerOf
<1>2. ASSUME NEW l \in Loops(prog),
             Pre(l) \/ RootBounds(l) \/ SetupCount(l) \/ InnerBounds(l)
             \/ Head(l) \/ Step(l) \/ BackHw(l) \/ BackSw(l) \/ ClearInner(l)
      PROVE  Typed'
  <2>1. Fixed
    BY <1>2 DEF Pre, RootBounds, SetupCount, InnerBounds, Head, Step, BackHw, BackSw,
                ClearInner, Plain, Setup
  <2>2. ASSUME hw' \in Registered, Placed(pc'), iv' \in [Loops(prog) -> 0 .. 2^Width - 1]
        PROVE  Typed'
    BY <1>0, <2>1, <2>2 DEF Fixed, Typed, PlanInv, Registered, Placed, IsRoot, InnerOf
  <2>3. Execute(prog, hw, pc) \in Registered  BY <1>0, ExecuteTyped
  <2>4. 2^cntWidth \in Nat \ {0} /\ 0 \in 0 .. 2^cntWidth - 1
    <3>1. cntWidth \in Nat  BY <1>0, HwloopNestAssumption DEF PlanInv
    <3>2. 2^cntWidth \in Nat \ {0}  BY <3>1, PowerPositive
    <3> QED  BY <3>2
  <2>5. Placed(After(prog, l))
    <3>1. After(prog, l) = Done \/ After(prog, l) \in {"step", "pre"} \X Loops(prog)
      BY <1>0, WithinAfter
    <3> QED  BY <3>1 DEF Placed
  <2>6. Placed(<<"head", l>>)  BY DEF Placed
  <2>7. Pre(l) => Typed'
    <3> SUFFICES ASSUME Pre(l) PROVE Typed'
      OBVIOUS
    <3>1. iv' = [iv EXCEPT ![l] = InitValue(prog, l, iv, Width)] /\ pc' = Entry(l)
          /\ hw' = Execute(prog, hw, pc)
      BY DEF Pre, Plain
    <3>2. InitValue(prog, l, iv, Width) \in 0 .. 2^Width - 1  BY <1>0, InitRange
    <3>3. Placed(pc')  BY <3>1 DEF Entry, Placed, IsRoot
    <3> QED  BY <1>0, <2>2, <2>3, <3>1, <3>2, <3>3
  <2>8. RootBounds(l) => Typed'
    <3> SUFFICES ASSUME RootBounds(l) PROVE Typed'
      OBVIOUS
    <3>1. /\ pc = <<"bounds", l>> /\ pc' = <<"count", l>> /\ iv' = iv
          /\ hw' = [WriteBounds(hw, Id(l), l) EXCEPT !.fsm = NextFsm(prog, hw, pc)]
      BY DEF RootBounds, Setup
    <3>2. WriteBounds(hw, Id(l), l) \in Registered  BY <1>0, <2>4 DEF WriteBounds, Registered
    <3>3. hw' \in Registered  BY <3>1, <3>2, SetupTyped
    <3>4. Placed(pc')
      <4>1. pc[1] = "bounds" /\ pc[2] = l /\ pc # Done  BY <3>1 DEF Done
      <4>2. IsRoot(l)  BY <1>0, <4>1 DEF Placed
      <4> QED  BY <3>1, <4>2 DEF Placed, IsRoot
    <3> QED  BY <1>0, <2>2, <3>1, <3>3, <3>4
  <2>9. SetupCount(l) => Typed'
    <3> SUFFICES ASSUME SetupCount(l) PROVE Typed'
      OBVIOUS
    <3> DEFINE v == CountValue(prog, l, iv, Width)
    <3>1. /\ pc = <<"count", l>> /\ iv' = iv
          /\ pc' = IF IsRoot(l) THEN <<"inner", l>> ELSE <<"head", l>>
          /\ hw' = [WriteCount(hw, Id(l), v, cntWidth) EXCEPT !.fsm = NextFsm(prog, hw, pc)]
      BY DEF SetupCount, Setup
    <3>2. l \in sel
      <4>1. pc[1] = "count" /\ pc[2] = l /\ pc # Done  BY <3>1 DEF Done
      <4> QED  BY <1>0, <4>1 DEF Placed
    <3>3. v \in Nat  BY <1>0, <3>2, CountIsInt DEF PlanInv
    <3> HIDE DEF v
    <3>4. Word(v, cntWidth) \in 0 .. 2^cntWidth - 1
      <4>1. cntWidth \in Nat  BY <1>0, HwloopNestAssumption DEF PlanInv
      <4> QED  BY <3>3, <4>1, WordRange
    <3>5. WriteCount(hw, Id(l), v, cntWidth) \in Registered
      BY <1>0, <3>4 DEF WriteCount, Registered
    <3>6. hw' \in Registered  BY <3>1, <3>5, SetupTyped
    <3>7. Placed(pc')  BY <3>1 DEF Placed
    <3> QED  BY <1>0, <2>2, <3>1, <3>6, <3>7
  <2>10. InnerBounds(l) => Typed'
    <3> SUFFICES ASSUME InnerBounds(l) PROVE Typed'
      OBVIOUS
    <3> DEFINE owner(i) == {k \in InnerOf(l) : Id(k) = i}
               loop == [i \in Ids |-> IF owner(i) = {} THEN hw.loop[i] ELSE Min(owner(i))]
               cnt == [i \in Ids |-> IF owner(i) = {} THEN hw.cnt[i] ELSE 0]
    <3>1. /\ pc' = <<"head", l>> /\ iv' = iv
          /\ hw' = [[hw EXCEPT !.loop = loop, !.cnt = cnt] EXCEPT !.fsm = NextFsm(prog, hw, pc)]
      BY DEF InnerBounds, Setup
    <3>2. \A i \in Ids : owner(i) # {} => Min(owner(i)) \in Loops(prog)
      <4> TAKE i \in Ids
      <4>1. owner(i) \subseteq sel  BY DEF InnerOf
      <4> HIDE DEF owner
      <4>2. owner(i) \subseteq Loops(prog)  BY <1>0, <4>1 DEF PlanInv
      <4>3. owner(i) \in SUBSET Nat  BY <1>0, <4>2, ParentOf
      <4>4. owner(i) # {} => Min(owner(i)) \in owner(i)  BY <4>3, MinOfNaturals
      <4> QED  BY <4>2, <4>4
    <3> HIDE DEF owner
    <3>3. hw.loop \in [Ids -> Loops(prog) \cup {0}] /\ hw.cnt \in [Ids -> 0 .. 2^cntWidth - 1]
      BY <1>0 DEF Registered
    <3>4. loop \in [Ids -> Loops(prog) \cup {0}] /\ cnt \in [Ids -> 0 .. 2^cntWidth - 1]
      BY <2>4, <3>2, <3>3
    <3> HIDE DEF loop, cnt
    <3>5. [hw EXCEPT !.loop = loop, !.cnt = cnt] \in Registered  BY <1>0, <3>4 DEF Registered
    <3>6. hw' \in Registered  BY <3>1, <3>5, SetupTyped
    <3> QED  BY <1>0, <2>2, <2>6, <3>1, <3>6
  <2>11. Head(l) => Typed'
    <3> SUFFICES ASSUME Head(l) PROVE Typed'
      OBVIOUS
    <3>1. pc' = Inner(prog, l) /\ iv' = iv /\ hw' = Execute(prog, hw, pc)  BY DEF Head, Plain
    <3>2. Inner(prog, l) \in {"step", "pre"} \X Loops(prog)  BY <1>0, WithinInner
    <3>3. Placed(pc')  BY <3>1, <3>2 DEF Placed
    <3> QED  BY <1>0, <2>2, <2>3, <3>1, <3>3
  <2>12. Step(l) => Typed'
    <3> SUFFICES ASSUME Step(l) PROVE Typed'
      OBVIOUS
    <3>1. /\ iv' = [iv EXCEPT ![l] = Word(iv[l] + prog.step[l], Width)]
          /\ pc' = <<"back", l>> /\ hw' = Execute(prog, hw, pc)
      BY DEF Step, Plain
    <3>2. Word(iv[l] + prog.step[l], Width) \in 0 .. 2^Width - 1
      <4>1. 2^Width \in Nat \ {0}  BY <1>0, PowerPositive
      <4>2. iv[l] \in Int /\ prog.step[l] \in Int  BY <1>0, <4>1 DEF WellFormed
      <4>3. iv[l] + prog.step[l] \in Int  BY <4>2
      <4> QED  BY <1>0, <4>3, WordRange
    <3>3. Placed(pc')  BY <3>1 DEF Placed
    <3> QED  BY <1>0, <2>2, <2>3, <3>1, <3>2, <3>3
  <2>13. BackHw(l) => Typed'
    <3> SUFFICES ASSUME BackHw(l) PROVE Typed'
      OBVIOUS
    <3>1. /\ pc' = (IF Wraps(hw, pc) THEN <<"head", l>> ELSE Leave(l))
          /\ iv' = iv /\ hw' = Execute(prog, hw, pc)
      BY DEF BackHw, Plain
    <3>2. Placed(Leave(l))
      <4>1. IsRoot(l) /\ InnerOf(l) # {} => Placed(<<"clear", l>>)  BY DEF Placed
      <4> QED  BY <2>5, <4>1 DEF Leave
    <3> QED  BY <1>0, <2>2, <2>3, <2>6, <3>1, <3>2
  <2>14. BackSw(l) => Typed'
    <3> SUFFICES ASSUME BackSw(l) PROVE Typed'
      OBVIOUS
    <3>1. /\ pc' = <<"head", l>> \/ pc' = After(prog, l)
          /\ iv' = iv /\ hw' = Execute(prog, hw, pc)
      BY DEF BackSw, Plain
    <3> QED  BY <1>0, <2>2, <2>3, <2>5, <2>6, <3>1
  <2>15. ClearInner(l) => Typed'
    <3> SUFFICES ASSUME ClearInner(l) PROVE Typed'
      OBVIOUS
    <3> DEFINE inner == {Id(k) : k \in InnerOf(l)}
               cnt == [i \in Ids |-> IF i \in inner THEN 0 ELSE hw.cnt[i]]
               shadow == [i \in Ids |-> IF i \in inner THEN 0 ELSE hw.shadow[i]]
    <3>1. /\ pc' = After(prog, l) /\ iv' = iv
          /\ hw' = [[hw EXCEPT !.cnt = cnt, !.shadow = shadow]
                      EXCEPT !.fsm = NextFsm(prog, hw, pc)]
      BY DEF ClearInner, Setup
    <3> HIDE DEF inner
    <3>2. /\ hw.shadow \in [Ids -> 0 .. 2^cntWidth - 1]
          /\ hw.cnt \in [Ids -> 0 .. 2^cntWidth - 1]
      BY <1>0 DEF Registered
    <3>3. cnt \in [Ids -> 0 .. 2^cntWidth - 1] /\ shadow \in [Ids -> 0 .. 2^cntWidth - 1]
      BY <2>4, <3>2
    <3> HIDE DEF cnt, shadow
    <3>4. [hw EXCEPT !.cnt = cnt, !.shadow = shadow] \in Registered
      BY <1>0, <3>3 DEF Registered
    <3>5. hw' \in Registered  BY <3>1, <3>4, SetupTyped
    <3> QED  BY <1>0, <2>2, <2>5, <3>1, <3>5
  <2> QED  BY <1>2, <2>7, <2>8, <2>9, <2>10, <2>11, <2>12, <2>13, <2>14, <2>15
<1> QED  BY <1>1, <1>2 DEF Next

\* Every counter stays within the width generate() chose for it, whatever the
\* counts of the loops, and control stays on code that the patcher wrote.
THEOREM TypeCorrect == Spec => []TypeOK
<1>1. Typed => TypeOK
  <2> SUFFICES ASSUME Typed PROVE TypeOK
    OBVIOUS
  <2>1. /\ hw.loop \in [Ids -> Loops(prog) \cup {0}]
        /\ hw.cnt \in [Ids -> 0 .. 2^cntWidth - 1]
        /\ hw.shadow \in [Ids -> 0 .. 2^cntWidth - 1]
        /\ hw.fsm \in {"DECODE", "DECODE_HWLOOP"}
    BY DEF Typed, Registered
  <2>2. pc = Done \/ pc \in {"pre", "bounds", "count", "inner", "head", "step", "back", "clear"}
                             \X Loops(prog)
    BY DEF Typed, Placed
  <2>3. /\ sel \subseteq Loops(prog) /\ cntWidth \in 1 .. Width
        /\ iv \in [Loops(prog) -> 0 .. 2^Width - 1]
    BY DEF Typed, PlanInv
  <2> QED  BY <2>1, <2>2, <2>3 DEF TypeOK
<1> QED  BY InitTyped, NextTyped, <1>1, PTL DEF Spec

-----------------------------------------------------------------------------
(***************************************************************************)
(* Where a step leads, and the groups of the program that runs.            *)
(***************************************************************************)
Does(l) ==
  \/ Pre(l) \/ RootBounds(l) \/ SetupCount(l) \/ InnerBounds(l)
  \/ Head(l) \/ Step(l) \/ BackHw(l) \/ BackSw(l) \/ ClearInner(l)

Group(r) == sel \cap EligibleTree(prog, r)

Apart == \A p \in Programs : GroupsApart(p)

\* What surrounds a point.
LEMMA WithinPoint ==
  ASSUME Typed, NEW l \in Loops(prog), NEW k
  PROVE  /\ \A kind \in {"head", "step", "back"} :
              Within(prog, <<kind, l>>, k) <=> k = l \/ k \in Ancestors(prog, l)
         /\ \A kind \in {"pre", "bounds", "count", "inner", "clear"} :
              Within(prog, <<kind, l>>, k) <=> k \in Ancestors(prog, l)
  BY DEF Within

\* A configured loop is entered at its label, and left by its last instruction
\* once it does not wrap.
LEMMA WithinStep ==
  ASSUME Typed, NEW l \in Loops(prog), Does(l), NEW r \in sel
  PROVE  /\ Within(prog, pc', r) /\ ~Within(prog, pc, r) =>
              /\ l = r /\ pc' = <<"head", r>>
              /\ pc = IF IsRoot(r) THEN <<"inner", r>> ELSE <<"count", r>>
         /\ Within(prog, pc, r) /\ ~Within(prog, pc', r) =>
              l = r /\ BackHw(r) /\ ~Wraps(hw, pc) /\ pc = <<"back", r>>
<1>1. WellFormed(prog) /\ r \in Loops(prog)  BY HwloopNestAssumption DEF Typed, PlanInv
<1>2. \A kind \in {"head", "step", "back"} :
        Within(prog, <<kind, l>>, r) <=> r = l \/ r \in Ancestors(prog, l)
  BY WithinPoint
<1>3. \A kind \in {"pre", "bounds", "count", "inner", "clear"} :
        Within(prog, <<kind, l>>, r) <=> r \in Ancestors(prog, l)
  BY WithinPoint
<1>4. Within(prog, After(prog, l), r) <=> r \in Ancestors(prog, l)
  <2>1. l # 0  BY <1>1, ParentOf
  <2> QED  BY <1>1, <2>1, WithinAfter
<1>5. Within(prog, Inner(prog, l), r) <=> r = l \/ r \in Ancestors(prog, l)
  BY <1>1, WithinInner
<1>6. CASE Pre(l)
  <2>1. pc = <<"pre", l>> /\ pc' = Entry(l)  BY <1>6 DEF Pre, Plain
  <2>2. CASE l \notin sel
    <3>1. pc' = <<"head", l>> /\ l # r  BY <2>1, <2>2 DEF Entry
    <3> QED  BY <1>2, <1>3, <2>1, <3>1
  <2>3. CASE l \in sel
    <3>1. pc' = <<"bounds", l>> \/ pc' = <<"count", l>>  BY <2>1, <2>3 DEF Entry
    <3> QED  BY <1>3, <2>1, <3>1
  <2> QED  BY <2>2, <2>3
<1>7. CASE RootBounds(l)
  <2>1. pc = <<"bounds", l>> /\ pc' = <<"count", l>>  BY <1>7 DEF RootBounds, Setup
  <2> QED  BY <1>3, <2>1
<1>8. CASE SetupCount(l)
  <2>1. pc = <<"count", l>> /\ pc' = IF IsRoot(l) THEN <<"inner", l>> ELSE <<"head", l>>
    BY <1>8 DEF SetupCount, Setup
  <2> QED  BY <1>2, <1>3, <2>1
<1>9. CASE InnerBounds(l)
  <2>1. pc = <<"inner", l>> /\ pc' = <<"head", l>>  BY <1>9 DEF InnerBounds, Setup
  <2>2. IsRoot(l)
    <3>1. pc[1] = "inner" /\ pc[2] = l /\ pc # Done  BY <2>1 DEF Done
    <3> QED  BY <3>1 DEF Typed, Placed
  <2> QED  BY <1>2, <1>3, <2>1, <2>2
<1>10. CASE Head(l)
  <2>1. pc = <<"head", l>> /\ pc' = Inner(prog, l)  BY <1>10 DEF Head, Plain
  <2> QED  BY <1>2, <1>5, <2>1
<1>11. CASE Step(l)
  <2>1. pc = <<"step", l>> /\ pc' = <<"back", l>>  BY <1>11 DEF Step, Plain
  <2> QED  BY <1>2, <2>1
<1>12. CASE BackHw(l)
  <2>1. pc = <<"back", l>> /\ pc' = IF Wraps(hw, pc) THEN <<"head", l>> ELSE Leave(l)
    BY <1>12 DEF BackHw, Plain
  <2>2. Within(prog, Leave(l), r) <=> r \in Ancestors(prog, l)
    <3>1. Leave(l) = <<"clear", l>> \/ Leave(l) = After(prog, l)  BY DEF Leave
    <3> QED  BY <1>3, <1>4, <3>1
  <2> QED  BY <1>2, <1>12, <2>1, <2>2
<1>13. CASE BackSw(l)
  <2>1. pc = <<"back", l>> /\ l # r /\ (pc' = <<"head", l>> \/ pc' = After(prog, l))
    BY <1>13 DEF BackSw, Plain
  <2> QED  BY <1>2, <1>4, <2>1
<1>14. CASE ClearInner(l)
  <2>1. pc = <<"clear", l>> /\ pc' = After(prog, l)  BY <1>14 DEF ClearInner, Setup
  <2> QED  BY <1>3, <1>4, <2>1
<1> QED  BY <1>6, <1>7, <1>8, <1>9, <1>10, <1>11, <1>12, <1>13, <1>14 DEF Does

\* A group is its root and the loops inside it; each has an id of its own.
LEMMA Grouped ==
  ASSUME Typed, NEW r, IsRoot(r)
  PROVE  /\ r \in Roots(prog) /\ r \in Group(r) /\ r \in Loops(prog) /\ prog.elig[r]
         /\ InnerOf(r) = Group(r) \ {r}
         /\ Id(r) = 0 /\ 0 \in Ids
         /\ \A l \in Group(r) :
              /\ l \in sel /\ l \in Loops(prog) /\ l \in Nat /\ prog.elig[l]
              /\ l = r \/ r \in Ancestors(prog, l)
              /\ Id(l) \in Ids /\ Id(l) \in Nat
         /\ \A l \in InnerOf(r) : Id(l) # 0
         /\ \A k, l \in Group(r) : k < l => Id(k) < Id(l)
         /\ \A k, l \in Group(r) : Id(k) = Id(l) => k = l
<1>1. WellFormed(prog)  BY HwloopNestAssumption DEF Typed, PlanInv
<1>2. r \in Roots(prog) /\ r \in sel  BY DEF IsRoot
<1>3. /\ r \in EligibleTree(prog, r) /\ r \in Loops(prog)
      /\ EligibleTree(prog, r) \subseteq Loops(prog)
      /\ \A l \in EligibleTree(prog, r) :
           prog.elig[l] /\ (l = r \/ (r \in Ancestors(prog, l) /\ r < l))
  BY <1>1, <1>2, TreeMembers
<1>4. \A l \in Group(r) :
        /\ Id(l) \in Nat /\ Id(l) < Cardinality(Group(r)) /\ Id(r) = 0
        /\ \A k \in Group(r) : k < l => Id(k) < Id(l)
  BY <1>1, <1>2, IdsAreOrdered DEF Group, Id
<1>5. \A l \in Group(r) : l \in Nat  BY <1>1, <1>3, ParentOf DEF Group
<1>6. \A k, l \in Group(r) : Id(k) = Id(l) => k = l
  <2> TAKE k, l \in Group(r)
  <2>1. k \in Nat /\ l \in Nat /\ Id(k) \in Nat /\ Id(l) \in Nat  BY <1>4, <1>5
  <2>2. k < l => Id(k) < Id(l)  BY <1>4
  <2>3. l < k => Id(l) < Id(k)  BY <1>4
  <2> QED  BY <2>1, <2>2, <2>3
<1>7. r \in Group(r)  BY <1>2, <1>3 DEF Group
<1>8. \A l \in Group(r) : Id(l) \in Ids
  <2> TAKE l \in Group(r)
  <2>1. Cardinality(Group(r)) <= MostLoops  BY <1>2 DEF Group, Typed, PlanInv
  <2>2. Cardinality(Group(r)) \in Nat
    <3>1. Group(r) \subseteq Loops(prog)  BY <1>3 DEF Group
    <3> QED  BY <1>1, <3>1, FS_Subset, FS_CardinalityType DEF WellFormed
  <2>3. Id(l) \in Nat /\ Id(l) < Cardinality(Group(r))  BY <1>4
  <2>4. MostLoops \in Nat  BY HwLoopsNumbers
  <2>5. Ids = 0 .. MostLoops - 1  BY DEF Ids, MostLoops
  <2> QED  BY <2>1, <2>2, <2>3, <2>4, <2>5
<1>9. InnerOf(r) = Group(r) \ {r}  BY DEF InnerOf, Group
<1>10. Id(r) = 0 /\ 0 \in Ids  BY <1>4, <1>7, <1>8
<1>11. \A l \in InnerOf(r) : Id(l) # 0  BY <1>6, <1>7, <1>9, <1>10
<1>12. \A l \in Group(r) : l \in sel /\ l \in EligibleTree(prog, r)  BY DEF Group
<1> QED  BY <1>2, <1>3, <1>4, <1>5, <1>6, <1>7, <1>8, <1>9, <1>10, <1>11, <1>12

\* Every configured loop is in the group of a configured root.
LEMMA GroupOf ==
  ASSUME Typed, NEW l \in sel
  PROVE  \E r : IsRoot(r) /\ l \in Group(r) /\ r \in sel
  BY DEF Typed, PlanInv, IsRoot, Group

\* With groups apart, a configured loop around one of a group is in the group,
\* and none is around its root.
LEMMA AroundRoot ==
  ASSUME Typed, Apart, NEW r, IsRoot(r)
  PROVE  /\ \A a \in sel : a \notin Ancestors(prog, r)
         /\ \A l \in Group(r) : \A a \in sel \cap Ancestors(prog, l) : a \in Group(r)
<1>1. WellFormed(prog) /\ GroupsApart(prog)
  BY HwloopNestAssumption DEF Typed, PlanInv, Apart
<1>2. r \in Roots(prog)  BY DEF IsRoot
<1>3. \A a \in sel : prog.elig[a]
  <2> TAKE a \in sel
  <2>1. PICK t : IsRoot(t) /\ a \in Group(t)  BY GroupOf
  <2> QED  BY <2>1, Grouped
<1>4. \A a \in sel : a \notin Ancestors(prog, r)  BY <1>1, <1>2, <1>3 DEF GroupsApart
<1>5. ASSUME NEW l \in Group(r), NEW a \in sel \cap Ancestors(prog, l) PROVE a \in Group(r)
  <2>1. l \in EligibleTree(prog, r) /\ prog.elig[a]  BY <1>3 DEF Group
  <2>2. a \in EligibleTree(prog, r)  BY <1>1, <1>2, <2>1, AroundIsInGroup
  <2> QED  BY <2>2 DEF Group
<1> QED  BY <1>4, <1>5

-----------------------------------------------------------------------------
(***************************************************************************)
(* Whose the registers are.                                                *)
(***************************************************************************)
InRegion(r) == pc \in {"count", "inner", "clear"} \X {r} \/ Within(prog, pc, r)

Live(i) == hw.cnt[i] # 0 \/ (i # 0 /\ hw.shadow[i] # 0)

\* The bounds of an id are those of a loop with that id.
IdsOwn == \A i \in Ids : hw.loop[i] = 0 \/ (hw.loop[i] \in sel /\ Id(hw.loop[i]) = i)

\* From the setup of a group to its end the bounds are the group's.
GroupsOwn ==
  \A r \in sel : IsRoot(r) =>
    /\ pc \in {<<"count", r>>, <<"inner", r>>} => hw.loop[0] = r
    /\ Within(prog, pc, r) => \A l \in Group(r) : hw.loop[Id(l)] = l

\* A counter that counts, or could be reloaded, belongs to the group that runs.
Quiet ==
  \A i \in Ids : Live(i) =>
    \E r \in sel : IsRoot(r) /\ InRegion(r) /\ \E l \in Group(r) : Id(l) = i

\* The root's counter has run out when the others are cleared.
Cleared == \A r \in sel : pc = <<"clear", r>> => hw.cnt[0] = 0

Owned == IdsOwn /\ GroupsOwn /\ Quiet /\ Cleared

LEMMA InitOwned == Init => Owned
<1> SUFFICES ASSUME Init PROVE Owned
  OBVIOUS
<1>1. Typed  BY InitTyped
<1>2. \A i \in Ids : hw.loop[i] = 0 /\ hw.cnt[i] = 0 /\ hw.shadow[i] = 0
  BY DEF Init, Reset
<1>3. IdsOwn  BY <1>2 DEF IdsOwn
<1>4. Quiet  BY <1>2 DEF Quiet, Live
<1>5. \A r \in sel : ~Within(prog, pc, r) /\ pc[1] \notin {"count", "inner", "clear"}
  <2> TAKE r \in sel
  <2>1. WellFormed(prog) /\ pc = After(prog, 0)
    BY <1>1, HwloopNestAssumption DEF Init, Typed, PlanInv
  <2>2. pc = Done \/ pc \in {"step", "pre"} \X Loops(prog)  BY <2>1, WithinAfter
  <2>3. ~Within(prog, pc, r)  BY <2>1, WithinAfter
  <2>4. Done[1] = "done"  BY DEF Done
  <2> QED  BY <2>2, <2>3, <2>4
<1>6. GroupsOwn /\ Cleared
  <2>1. \A r \in sel : pc # <<"count", r>> /\ pc # <<"inner", r>> /\ pc # <<"clear", r>>
    <3> TAKE r \in sel
    <3>1. <<"count", r>>[1] = "count" /\ <<"inner", r>>[1] = "inner" /\ <<"clear", r>>[1] = "clear"
      OBVIOUS
    <3> QED  BY <1>5, <3>1
  <2> QED  BY <1>5, <2>1 DEF GroupsOwn, Cleared
<1> QED  BY <1>3, <1>4, <1>6 DEF Owned

\* At the end of a loop the bounds of its id, and of no other, are reached.
LEMMA EndIsOwn ==
  ASSUME Typed, Owned, NEW l \in sel, pc = <<"back", l>>
  PROVE  AtEnd(hw, pc) = {Id(l)} /\ Id(l) \in Ids
<1>1. PICK r : IsRoot(r) /\ l \in Group(r) /\ r \in sel  BY GroupOf
<1>2. l \in Loops(prog) /\ Id(l) \in Ids /\ (l = r \/ r \in Ancestors(prog, l)) /\ l \in Nat
  BY <1>1, Grouped
<1>3. Within(prog, pc, r)  BY <1>2, WithinPoint
<1>4. hw.loop[Id(l)] = l  BY <1>1, <1>3 DEF Owned, GroupsOwn
<1>5. l # 0
  <2>1. WellFormed(prog)  BY HwloopNestAssumption DEF Typed, PlanInv
  <2> QED  BY <1>2, <2>1, ParentOf
<1>6. \A i \in Ids : hw.loop[i] = l => i = Id(l)  BY <1>5 DEF Owned, IdsOwn
<1>7. DOMAIN hw.cnt = Ids  BY DEF Typed, Registered
<1>8. AtEnd(hw, pc) = {i \in Ids : hw.loop[i] = l}  BY <1>7 DEF AtEnd
<1> QED  BY <1>2, <1>4, <1>6, <1>8

\* No counter is at its end anywhere but at the end of a configured loop.
LEMMA NoEnd ==
  ASSUME Typed, Owned, NEW l \in Loops(prog), NEW kind, pc = <<kind, l>>,
         kind # "back" \/ l \notin sel
  PROVE  /\ AtEnd(hw, pc) = {}
         /\ Counters(hw, pc) = hw.cnt
<1>1. DOMAIN hw.cnt = Ids /\ hw.cnt = [i \in Ids |-> hw.cnt[i]]  BY DEF Typed, Registered
<1>2. l # 0
  <2>1. WellFormed(prog)  BY HwloopNestAssumption DEF Typed, PlanInv
  <2> QED  BY <2>1, ParentOf
<1>3. \A i \in Ids : pc[1] = "back" => hw.loop[i] # pc[2]
  BY <1>2 DEF Owned, IdsOwn
<1>4. AtEnd(hw, pc) = {}  BY <1>1, <1>3 DEF AtEnd
<1>5. DecCnt(hw, pc) = {}  BY <1>4 DEF DecCnt, DecWanted
<1>6. Counters(hw, pc) = [i \in Ids |-> hw.cnt[i]]  BY <1>1, <1>5 DEF Counters
<1> QED  BY <1>1, <1>4, <1>6

LEMMA BoundsOwned ==
  ASSUME Typed, Apart, Owned, NEW l \in Loops(prog), Does(l)
  PROVE  IdsOwn' /\ GroupsOwn'
<1>1. Fixed /\ sel' = sel /\ prog' = prog /\ \A k : Id(k)' = Id(k) /\ IsRoot(k)' = IsRoot(k)
                                                   /\ Group(k)' = Group(k)
  BY DEF Does, Pre, RootBounds, SetupCount, InnerBounds, Head, Step, BackHw, BackSw, ClearInner,
         Plain, Setup, Fixed, Id, IsRoot, Group
<1>2. WellFormed(prog) /\ sel \subseteq Loops(prog)
  BY HwloopNestAssumption DEF Typed, PlanInv
<1>3. \A r \in sel : IsRoot(r) =>
        /\ Within(prog, pc', r) => Within(prog, pc, r) \/ pc = <<"inner", r>>
        /\ pc' = <<"count", r>> => pc = <<"bounds", r>>
        /\ pc' = <<"inner", r>> => pc = <<"count", r>>
  <2> TAKE r \in sel
  <2> SUFFICES ASSUME IsRoot(r)
               PROVE /\ Within(prog, pc', r) => Within(prog, pc, r) \/ pc = <<"inner", r>>
                     /\ pc' = <<"count", r>> => pc = <<"bounds", r>>
                     /\ pc' = <<"inner", r>> => pc = <<"count", r>>
    OBVIOUS
  <2>1. Within(prog, pc', r) => Within(prog, pc, r) \/ pc = <<"inner", r>>  BY WithinStep
  <2>2. Inner(prog, l)[1] \in {"step", "pre"} /\ After(prog, l)[1] \in {"done", "step", "pre"}
    <3>1. Inner(prog, l) \in {"step", "pre"} \X Loops(prog)  BY <1>2, WithinInner
    <3>2. After(prog, l) = Done \/ After(prog, l) \in {"step", "pre"} \X Loops(prog)
      BY <1>2, WithinAfter
    <3>3. Done[1] = "done"  BY DEF Done
    <3> QED  BY <3>1, <3>2, <3>3
  <2>3. Leave(l)[1] \in {"clear", "done", "step", "pre"}  BY <2>2 DEF Leave
  <2>4. CASE Pre(l)
    <3>1. pc' = Entry(l)  BY <2>4 DEF Pre, Plain
    <3>2. CASE l = r
      <4>1. pc' = <<"bounds", r>>  BY <3>1, <3>2 DEF Entry
      <4> QED  BY <2>1, <4>1
    <3>3. CASE l # r
      <4>1. pc'[2] = l  BY <3>1 DEF Entry
      <4>2. pc' # <<"count", r>> /\ pc' # <<"inner", r>>  BY <3>3, <4>1
      <4> QED  BY <2>1, <4>2
    <3> QED  BY <3>2, <3>3
  <2>5. CASE RootBounds(l)
    <3>1. pc = <<"bounds", l>> /\ pc' = <<"count", l>>  BY <2>5 DEF RootBounds, Setup
    <3> QED  BY <2>1, <3>1
  <2>6. CASE SetupCount(l)
    <3>1. pc = <<"count", l>> /\ pc' = IF IsRoot(l) THEN <<"inner", l>> ELSE <<"head", l>>
      BY <2>6 DEF SetupCount, Setup
    <3> QED  BY <2>1, <3>1
  <2>7. CASE InnerBounds(l) \/ Step(l)
    <3>1. pc'[1] \in {"head", "back"}  BY <2>7 DEF InnerBounds, Step, Setup, Plain
    <3>2. pc' # <<"count", r>> /\ pc' # <<"inner", r>>  BY <3>1
    <3> QED  BY <2>1, <3>2
  <2>8. CASE Head(l) \/ BackHw(l) \/ BackSw(l) \/ ClearInner(l)
    <3>1. pc' \in {Inner(prog, l), <<"head", l>>, Leave(l), After(prog, l)}
      BY <2>8 DEF Head, BackHw, BackSw, ClearInner, Setup, Plain
    <3>2. pc'[1] \in {"head", "clear", "done", "step", "pre"}  BY <2>2, <2>3, <3>1
    <3>3. pc' # <<"count", r>> /\ pc' # <<"inner", r>>  BY <3>2
    <3> QED  BY <2>1, <3>3
  <2> QED  BY <2>4, <2>5, <2>6, <2>7, <2>8 DEF Does
<1>4. ASSUME hw'.loop = hw.loop, pc[1] \notin {"bounds", "inner"}
      PROVE  IdsOwn' /\ GroupsOwn'
  <2>1. IdsOwn'  BY <1>1, <1>4 DEF Owned, IdsOwn
  <2>2. ASSUME NEW r \in sel, IsRoot(r)
        PROVE  /\ pc' \in {<<"count", r>>, <<"inner", r>>} => hw.loop[0] = r
               /\ Within(prog, pc', r) => \A k \in Group(r) : hw.loop[Id(k)] = k
    <3>1. pc # <<"bounds", r>> /\ pc # <<"inner", r>>  BY <1>4
    <3> QED  BY <1>3, <2>2, <3>1 DEF Owned, GroupsOwn
  <2>3. GroupsOwn'  BY <1>1, <1>4, <2>2 DEF GroupsOwn
  <2> QED  BY <2>1, <2>3
<1>5. CASE RootBounds(l)
  <2>1. /\ pc = <<"bounds", l>> /\ pc' = <<"count", l>>
        /\ hw' = [WriteBounds(hw, Id(l), l) EXCEPT !.fsm = NextFsm(prog, hw, pc)]
    BY <1>5 DEF RootBounds, Setup
  <2>2. IsRoot(l)
    <3>1. pc[1] = "bounds" /\ pc[2] = l /\ pc # Done  BY <2>1 DEF Done
    <3> QED  BY <3>1 DEF Typed, Placed
  <2>3. l \in sel /\ Id(l) = 0 /\ 0 \in Ids /\ Id(l) \in Ids  BY <2>2, Grouped
  <2>4. hw'.loop = [hw.loop EXCEPT ![0] = l] /\ hw.loop \in [Ids -> Loops(prog) \cup {0}]
    BY <2>1, <2>3 DEF WriteBounds, Typed, Registered
  <2>5. IdsOwn'  BY <1>1, <2>3, <2>4 DEF Owned, IdsOwn
  <2>6. ASSUME NEW r \in sel, IsRoot(r)
        PROVE  /\ pc' \in {<<"count", r>>, <<"inner", r>>} => hw'.loop[0] = r
               /\ ~Within(prog, pc', r)
    <3>1. pc' \in {<<"count", r>>, <<"inner", r>>} => r = l  BY <2>1
    <3>2. Within(prog, pc', r) <=> r \in Ancestors(prog, l)  BY <2>1, WithinPoint
    <3> QED  BY <2>2, <2>3, <2>4, <2>6, <3>1, <3>2, AroundRoot
  <2>7. GroupsOwn'  BY <1>1, <2>6 DEF GroupsOwn
  <2> QED  BY <2>5, <2>7
<1>6. CASE InnerBounds(l)
  <2> DEFINE owner(i) == {k \in InnerOf(l) : Id(k) = i}
  <2>1. /\ pc = <<"inner", l>> /\ pc' = <<"head", l>>
        /\ hw'.loop = [i \in Ids |-> IF owner(i) = {} THEN hw.loop[i] ELSE Min(owner(i))]
    BY <1>6 DEF InnerBounds, Setup, Typed, Registered
  <2>2. IsRoot(l)
    <3>1. pc[1] = "inner" /\ pc[2] = l /\ pc # Done  BY <2>1 DEF Done
    <3> QED  BY <3>1 DEF Typed, Placed
  <2>3. \A k \in InnerOf(l) : k \in Group(l) /\ k \in sel /\ Id(k) \in Ids /\ Id(k) # 0 /\ k \in Nat
    BY <2>2, Grouped
  <2>4. \A i \in Ids : owner(i) # {} => Min(owner(i)) \in owner(i)
    <3> TAKE i \in Ids
    <3>1. owner(i) \in SUBSET Nat  BY <2>3
    <3> HIDE DEF owner
    <3> QED  BY <3>1, MinOfNaturals
  <2>5. IdsOwn'
    <3>1. ASSUME NEW i \in Ids
          PROVE  hw'.loop[i] = 0 \/ (hw'.loop[i] \in sel /\ Id(hw'.loop[i]) = i)
      <4>1. CASE owner(i) = {}
        <5>1. hw'.loop[i] = hw.loop[i]  BY <2>1, <4>1
        <5> QED  BY <5>1 DEF Owned, IdsOwn
      <4>2. CASE owner(i) # {}
        <5>1. hw'.loop[i] = Min(owner(i))  BY <2>1, <4>2
        <5>2. Min(owner(i)) \in owner(i)  BY <2>4, <4>2
        <5>3. hw'.loop[i] \in InnerOf(l) /\ Id(hw'.loop[i]) = i  BY <5>1, <5>2
        <5> QED  BY <2>3, <5>3
      <4> QED  BY <4>1, <4>2
    <3> QED  BY <1>1, <3>1 DEF IdsOwn
  <2>6. hw'.loop[0] = l
    <3>1. owner(0) = {} /\ 0 \in Ids  BY <2>2, <2>3, Grouped
    <3>2. hw.loop[0] = l
      <4>1. l \in sel /\ pc \in {<<"count", l>>, <<"inner", l>>}  BY <2>1, <2>2 DEF IsRoot
      <4> QED  BY <2>2, <4>1 DEF Owned, GroupsOwn
    <3> HIDE DEF owner
    <3> QED  BY <2>1, <3>1, <3>2
  <2>7. ASSUME NEW k \in Group(l) PROVE hw'.loop[Id(k)] = k
    <3>1. CASE k = l  BY <2>2, <2>6, <3>1, Grouped
    <3>2. CASE k # l
      <4>1. k \in InnerOf(l) /\ Id(k) \in Ids  BY <2>2, <3>2, Grouped
      <4>2. k \in owner(Id(k))  BY <4>1
      <4>3. Min(owner(Id(k))) \in owner(Id(k))  BY <2>4, <4>1, <4>2
      <4>4. \A j \in owner(Id(k)) : j = k
        <5> TAKE j \in owner(Id(k))
        <5>1. j \in Group(l) /\ Id(j) = Id(k)  BY <2>3
        <5> QED  BY <2>2, <5>1, Grouped
      <4> HIDE DEF owner
      <4> QED  BY <2>1, <4>1, <4>2, <4>3, <4>4
    <3> QED  BY <3>1, <3>2
  <2> HIDE DEF owner
  <2>8. ASSUME NEW r \in sel, IsRoot(r)
        PROVE  /\ pc' \notin {<<"count", r>>, <<"inner", r>>}
               /\ Within(prog, pc', r) => r = l
    <3>1. Within(prog, pc', r) <=> r = l \/ r \in Ancestors(prog, l)  BY <2>1, WithinPoint
    <3> QED  BY <2>1, <2>2, <3>1, AroundRoot
  <2>9. GroupsOwn'  BY <1>1, <2>7, <2>8 DEF GroupsOwn
  <2> QED  BY <2>5, <2>9
<1>7. CASE Pre(l) \/ Head(l) \/ Step(l) \/ BackHw(l) \/ BackSw(l)
  <2>1. hw' = Execute(prog, hw, pc) /\ pc[1] \in {"pre", "head", "step", "back"}
    BY <1>7 DEF Pre, Head, Step, BackHw, BackSw, Plain
  <2>2. hw'.loop = hw.loop  BY <2>1 DEF Execute, Typed, Registered
  <2> QED  BY <1>4, <2>1, <2>2
<1>8. CASE SetupCount(l) \/ ClearInner(l)
  <2>1. hw'.loop = hw.loop /\ pc[1] \in {"count", "clear"}
    <3>1. CASE SetupCount(l)
      BY <3>1 DEF SetupCount, Setup, WriteCount, Typed, Registered
    <3>2. CASE ClearInner(l)
      BY <3>2 DEF ClearInner, Setup, Typed, Registered
    <3> QED  BY <1>8, <3>1, <3>2
  <2> QED  BY <1>4, <2>1
<1> QED  BY <1>5, <1>6, <1>7, <1>8 DEF Does

\* What the last instruction of a configured loop does: the controller and the
\* aligner both look at the counter of that loop alone.
LEMMA AtBack ==
  ASSUME Typed, Owned, NEW l \in sel, pc = <<"back", l>>
  PROVE  LET i == Id(l)
             counts == hw.cnt[i] = 1 \/ (hw.fsm = "DECODE_HWLOOP" /\ hw.cnt[i] # 0)
         IN  /\ i \in Ids
             /\ Wraps(hw, pc) <=> hw.cnt[i] > 1
             /\ ~counts => Counters(hw, pc) = hw.cnt
             /\ counts => Counters(hw, pc) =
                  [j \in Ids |-> IF j = i THEN hw.cnt[i] - 1
                                 ELSE IF i < j THEN hw.shadow[j] ELSE hw.cnt[j]]
<1> DEFINE i == Id(l)
           counts == hw.cnt[i] = 1 \/ (hw.fsm = "DECODE_HWLOOP" /\ hw.cnt[i] # 0)
<1>1. AtEnd(hw, pc) = {i} /\ i \in Ids  BY EndIsOwn
<1> HIDE DEF i
<1>2. /\ hw.cnt \in [Ids -> 0 .. 2^cntWidth - 1] /\ DOMAIN hw.cnt = Ids
      /\ hw.cnt = [j \in Ids |-> hw.cnt[j]]
      /\ hw.fsm \in {"DECODE", "DECODE_HWLOOP"}
  BY DEF Typed, Registered
<1>3. i \in Nat
  <2>1. MostLoops \in Nat  BY HwLoopsNumbers
  <2> QED  BY <1>1, <2>1 DEF Ids, MostLoops
<1>4. hw.cnt[i] \in Nat
  <2>1. 2^cntWidth \in Nat \ {0}
    <3>1. cntWidth \in Nat  BY HwloopNestAssumption DEF Typed, PlanInv
    <3> QED  BY <3>1, PowerPositive
  <2> QED  BY <1>1, <1>2, <2>1
<1>5. Wraps(hw, pc) <=> hw.cnt[i] > 1
  <2>1. CASE hw.cnt[i] > 0
    <3>1. {j \in AtEnd(hw, pc) : hw.cnt[j] > 0} = {i}  BY <1>1, <2>1
    <3>2. Min({i}) = i
      <4>1. {i} \in SUBSET Nat /\ {i} # {}  BY <1>3
      <4> QED  BY <4>1, MinOfNaturals
    <3> QED  BY <3>1, <3>2 DEF Wraps
  <2>2. CASE ~(hw.cnt[i] > 0)
    <3>1. {j \in AtEnd(hw, pc) : hw.cnt[j] > 0} = {}  BY <1>1, <2>2
    <3> QED  BY <1>4, <2>2, <3>1 DEF Wraps
  <2> QED  BY <2>1, <2>2
<1>6. DecWanted(hw, pc) = IF counts THEN {i} ELSE {}
  BY <1>1, <1>2 DEF DecWanted
<1>7. DecCnt(hw, pc) = IF counts THEN {i} ELSE {}
  BY <1>3, <1>6 DEF DecCnt
<1>8. ~counts => Counters(hw, pc) = hw.cnt
  BY <1>2, <1>7 DEF Counters
<1>9. counts => Counters(hw, pc) =
                  [j \in Ids |-> IF j = i THEN hw.cnt[i] - 1
                                 ELSE IF i < j THEN hw.shadow[j] ELSE hw.cnt[j]]
  BY <1>2, <1>7 DEF Counters
<1> QED  BY <1>1, <1>5, <1>8, <1>9 DEF i

\* Each action stands at its own points.
LEMMA DoesAt ==
  ASSUME NEW l, Does(l)
  PROVE  /\ pc[2] = l
         /\ \/ pc = <<"pre", l>> /\ Pre(l)
            \/ pc = <<"bounds", l>> /\ RootBounds(l)
            \/ pc = <<"count", l>> /\ SetupCount(l)
            \/ pc = <<"inner", l>> /\ InnerBounds(l)
            \/ pc = <<"head", l>> /\ Head(l)
            \/ pc = <<"step", l>> /\ Step(l)
            \/ pc = <<"back", l>> /\ l \in sel /\ BackHw(l)
            \/ pc = <<"back", l>> /\ l \notin sel /\ BackSw(l)
            \/ pc = <<"clear", l>> /\ ClearInner(l)
<1>1. \/ pc = <<"pre", l>> /\ Pre(l)
      \/ pc = <<"bounds", l>> /\ RootBounds(l)
      \/ pc = <<"count", l>> /\ SetupCount(l)
      \/ pc = <<"inner", l>> /\ InnerBounds(l)
      \/ pc = <<"head", l>> /\ Head(l)
      \/ pc = <<"step", l>> /\ Step(l)
      \/ pc = <<"back", l>> /\ l \in sel /\ BackHw(l)
      \/ pc = <<"back", l>> /\ l \notin sel /\ BackSw(l)
      \/ pc = <<"clear", l>> /\ ClearInner(l)
  BY DEF Does, Pre, RootBounds, SetupCount, InnerBounds, Head, Step, BackHw, BackSw, ClearInner
<1>2. pc[2] = l  BY <1>1
<1> QED  BY <1>1, <1>2

\* No instruction of the program makes an idle counter live.
LEMMA ExecuteKeepsIdle ==
  ASSUME Typed, Owned, NEW l \in Loops(prog), NEW kind, pc = <<kind, l>>,
         NEW i \in Ids, ~Live(i)
  PROVE  Counters(hw, pc)[i] = 0
<1>1. hw.cnt[i] = 0 /\ (i = 0 \/ hw.shadow[i] = 0)  BY DEF Live
<1>2. CASE kind # "back" \/ l \notin sel
  <2>1. Counters(hw, pc) = hw.cnt  BY <1>2, NoEnd
  <2> QED  BY <1>1, <2>1
<1>3. CASE kind = "back" /\ l \in sel
  <2> DEFINE c == Counters(hw, pc)
  <2>1. pc = <<"back", l>>  BY <1>3
  <2>2. \/ c = hw.cnt
        \/ /\ hw.cnt[Id(l)] # 0
           /\ c = [j \in Ids |-> IF j = Id(l) THEN hw.cnt[Id(l)] - 1
                                  ELSE IF Id(l) < j THEN hw.shadow[j] ELSE hw.cnt[j]]
    BY <1>3, <2>1, AtBack
  <2>3. Id(l) < i => i # 0
    <3>1. Id(l) \in Ids  BY <1>3, <2>1, AtBack
    <3>2. Id(l) \in Nat /\ i \in Nat
      <4>1. MostLoops \in Nat  BY HwLoopsNumbers
      <4> QED  BY <3>1, <4>1 DEF Ids, MostLoops
    <3> QED  BY <3>2
  <2> HIDE DEF c
  <2>4. CASE c = hw.cnt  BY <1>1, <2>4 DEF c
  <2>5. CASE /\ hw.cnt[Id(l)] # 0
             /\ c = [j \in Ids |-> IF j = Id(l) THEN hw.cnt[Id(l)] - 1
                                    ELSE IF Id(l) < j THEN hw.shadow[j] ELSE hw.cnt[j]]
    <3>1. i # Id(l)  BY <1>1, <2>5
    <3>2. c[i] = IF Id(l) < i THEN hw.shadow[i] ELSE hw.cnt[i]  BY <2>5, <3>1
    <3> QED  BY <1>1, <2>3, <3>2 DEF c
  <2> QED  BY <2>2, <2>4, <2>5
<1> QED  BY <1>2, <1>3

\* The root's counter is zero when control leaves the group.
LEMMA RootRunsOut ==
  ASSUME Typed, Owned, NEW r \in sel, IsRoot(r), BackHw(r), ~Wraps(hw, pc)
  PROVE  hw'.cnt[0] = 0
<1>1. pc = <<"back", r>> /\ hw' = Execute(prog, hw, pc)  BY DEF BackHw, Plain
<1>2. Id(r) = 0 /\ 0 \in Ids  BY Grouped
<1>3. hw.cnt[0] \in Nat
  <2>1. 2^cntWidth \in Nat \ {0}
    <3>1. cntWidth \in Nat  BY HwloopNestAssumption DEF Typed, PlanInv
    <3> QED  BY <3>1, PowerPositive
  <2>2. hw.cnt \in [Ids -> 0 .. 2^cntWidth - 1]  BY DEF Typed, Registered
  <2> QED  BY <1>2, <2>1, <2>2
<1>4. hw.cnt[0] = 0 \/ hw.cnt[0] = 1
  <2>1. ~(hw.cnt[0] > 1)  BY <1>1, <1>2, AtBack
  <2> QED  BY <1>3, <2>1
<1>5. hw'.cnt = Counters(hw, pc)  BY <1>1 DEF Execute, Typed, Registered
<1>6. CASE hw.cnt[0] = 0
  <2>1. ~(hw.cnt[Id(r)] = 1 \/ (hw.fsm = "DECODE_HWLOOP" /\ hw.cnt[Id(r)] # 0))
    BY <1>2, <1>6
  <2>2. Counters(hw, pc) = hw.cnt  BY <1>1, <2>1, AtBack
  <2> QED  BY <1>5, <1>6, <2>2
<1>7. CASE hw.cnt[0] = 1
  <2>1. Counters(hw, pc) = [j \in Ids |-> IF j = 0 THEN hw.cnt[0] - 1
                             ELSE IF 0 < j THEN hw.shadow[j] ELSE hw.cnt[j]]
    BY <1>1, <1>2, <1>7, AtBack
  <2> QED  BY <1>2, <1>5, <1>7, <2>1
<1> QED  BY <1>4, <1>6, <1>7

LEMMA CountersOwned ==
  ASSUME Typed, Apart, Owned, NEW l \in Loops(prog), Does(l)
  PROVE  Quiet' /\ Cleared'
<1>1. Fixed /\ sel' = sel /\ prog' = prog /\ Ids' = Ids /\ \A k : Id(k)' = Id(k) /\ IsRoot(k)' = IsRoot(k)
                                                   /\ Group(k)' = Group(k)
  BY DEF Does, Pre, RootBounds, SetupCount, InnerBounds, Head, Step, BackHw, BackSw, ClearInner,
         Plain, Setup, Fixed, Id, IsRoot, Group, Ids
<1>2. WellFormed(prog) /\ sel \subseteq Loops(prog)
  BY HwloopNestAssumption DEF Typed, PlanInv
<1>3. ASSUME NEW r \in sel, IsRoot(r), InRegion(r)
      PROVE  \/ InRegion(r)'
             \/ l = r /\ BackHw(r) /\ ~Wraps(hw, pc) /\ pc = <<"back", r>> /\ InnerOf(r) = {}
             \/ l = r /\ ClearInner(r) /\ pc = <<"clear", r>>
  <2>1. CASE Within(prog, pc, r)
    <3>1. Within(prog, pc', r) => InRegion(r)'  BY <1>1 DEF InRegion
    <3>2. ASSUME ~Within(prog, pc', r), InnerOf(r) # {}
          PROVE  InRegion(r)'
      <4>1. l = r /\ BackHw(r) /\ ~Wraps(hw, pc)  BY <2>1, <3>2, WithinStep
      <4>2. pc' = <<"clear", r>>  BY <1>3, <3>2, <4>1 DEF BackHw, Plain, Leave
      <4>3. pc' \in {"count", "inner", "clear"} \X {r}  BY <4>2
      <4> QED  BY <4>3 DEF InRegion
    <3>3. ~Within(prog, pc', r) => l = r /\ BackHw(r) /\ ~Wraps(hw, pc) /\ pc = <<"back", r>>
      BY <2>1, WithinStep
    <3> QED  BY <3>1, <3>2, <3>3
  <2>2. CASE pc = <<"count", r>>
    <3>1. l = r /\ SetupCount(r)
      <4>1. pc[2] = r /\ pc[1] = "count"  BY <2>2
      <4> QED  BY <4>1, DoesAt
    <3>2. pc' = <<"inner", r>>  BY <1>3, <3>1 DEF SetupCount, Setup
    <3>3. pc' \in {"count", "inner", "clear"} \X {r}  BY <3>2
    <3> QED  BY <3>3 DEF InRegion
  <2>3. CASE pc = <<"inner", r>>
    <3>1. l = r /\ InnerBounds(r)
      <4>1. pc[2] = r /\ pc[1] = "inner"  BY <2>3
      <4> QED  BY <4>1, DoesAt
    <3>2. pc' = <<"head", r>>  BY <3>1 DEF InnerBounds, Setup
    <3>3. Within(prog, pc', r)  BY <1>2, <3>1, <3>2, WithinPoint
    <3> QED  BY <1>1, <3>3 DEF InRegion
  <2>4. CASE pc = <<"clear", r>>
    <3>1. l = r /\ ClearInner(r)
      <4>1. pc[2] = r /\ pc[1] = "clear"  BY <2>4
      <4> QED  BY <4>1, DoesAt
    <3> QED  BY <2>4, <3>1
  <2>5. Within(prog, pc, r) \/ pc = <<"count", r>> \/ pc = <<"inner", r>> \/ pc = <<"clear", r>>
    BY <1>3 DEF InRegion
  <2> QED  BY <2>1, <2>2, <2>3, <2>4, <2>5
<1>4. ASSUME \A i \in Ids : Live(i)' =>
               \E r \in sel : IsRoot(r) /\ InRegion(r)' /\ \E k \in Group(r) : Id(k) = i
      PROVE  Quiet'
  BY <1>1, <1>4 DEF Quiet
\* At the setup of a group, no other group runs.
<1>5. ASSUME IsRoot(l), pc \in {"bounds", "count", "inner", "clear"} \X {l},
             NEW r \in sel, IsRoot(r), InRegion(r)
      PROVE  r = l /\ pc # <<"bounds", l>>
  <2>1. ~Within(prog, pc, r)
    <3>1. PICK kind \in {"bounds", "count", "inner", "clear"} : pc = <<kind, l>>  BY <1>5
    <3>2. Within(prog, pc, r) => r \in Ancestors(prog, l)  BY <3>1, WithinPoint
    <3> QED  BY <1>5, <3>2, AroundRoot
  <2>2. pc \in {"count", "inner", "clear"} \X {r}  BY <1>5, <2>1 DEF InRegion
  <2>3. pc[2] = r /\ pc[1] # "bounds"  BY <2>2
  <2>4. pc[2] = l  BY <1>5
  <2> QED  BY <2>3, <2>4
<1>6. CASE Pre(l) \/ Head(l) \/ Step(l) \/ BackHw(l) \/ BackSw(l)
  <2>1. PICK kind \in {"pre", "head", "step", "back"} : pc = <<kind, l>>
    BY <1>6 DEF Pre, Head, Step, BackHw, BackSw
  <2>2. hw' = Execute(prog, hw, pc)
    BY <1>6 DEF Pre, Head, Step, BackHw, BackSw, Plain
  <2>3. hw'.cnt = Counters(hw, pc) /\ hw'.shadow = hw.shadow
    BY <2>2 DEF Execute, Typed, Registered
  <2>4. ASSUME NEW i \in Ids, Live(i)'
        PROVE  \E r \in sel : IsRoot(r) /\ InRegion(r)' /\ \E k \in Group(r) : Id(k) = i
    <3>1. Live(i)
      <4>1. ~Live(i) => hw'.cnt[i] = 0  BY <2>1, <2>3, ExecuteKeepsIdle
      <4> QED  BY <2>3, <2>4, <4>1 DEF Live
    <3>2. PICK r \in sel : IsRoot(r) /\ InRegion(r) /\ \E k \in Group(r) : Id(k) = i
      BY <3>1 DEF Owned, Quiet
    <3>3. pc # <<"clear", r>>  BY <2>1
    <3>4. ASSUME BackHw(r), ~Wraps(hw, pc), InnerOf(r) = {} PROVE FALSE
      <4>1. i = 0  BY <3>2, <3>4, Grouped
      <4>2. hw'.cnt[0] = 0  BY <3>2, <3>4, RootRunsOut
      <4> QED  BY <2>4, <4>1, <4>2 DEF Live
    <3>5. InRegion(r)'  BY <1>3, <3>2, <3>3, <3>4
    <3> QED  BY <3>2, <3>5
  <2>5. Quiet'  BY <1>4, <2>4
  <2>6. ASSUME NEW r \in sel, pc' = <<"clear", r>> PROVE hw'.cnt[0] = 0
    <3>1. pc'[1] = "clear" /\ pc'[2] = r  BY <2>6
    <3>2. Inner(prog, l)[1] # "clear" /\ After(prog, l)[1] # "clear"
      <4>1. Inner(prog, l) \in {"step", "pre"} \X Loops(prog)  BY <1>2, WithinInner
      <4>2. After(prog, l) = Done \/ After(prog, l) \in {"step", "pre"} \X Loops(prog)
        BY <1>2, WithinAfter
      <4>3. Done[1] = "done"  BY DEF Done
      <4> QED  BY <4>1, <4>2, <4>3
    <3>3. ~Pre(l) /\ ~Head(l) /\ ~Step(l) /\ ~BackSw(l)
      BY <3>1, <3>2 DEF Pre, Entry, Head, Step, BackSw, Plain
    <3>4. BackHw(l) /\ ~Wraps(hw, pc) /\ pc' = Leave(l)
      <4>1. BackHw(l)  BY <1>6, <3>3
      <4>2. pc' = IF Wraps(hw, pc) THEN <<"head", l>> ELSE Leave(l)  BY <4>1 DEF BackHw, Plain
      <4>3. <<"head", l>>[1] # "clear"  OBVIOUS
      <4> QED  BY <3>1, <4>1, <4>2, <4>3
    <3>5. IsRoot(l) /\ l = r
      <4>1. IsRoot(l) /\ Leave(l) = <<"clear", l>>  BY <3>1, <3>2, <3>4 DEF Leave
      <4> QED  BY <3>1, <3>4, <4>1
    <3> QED  BY <3>4, <3>5, RootRunsOut
  <2>7. Cleared'  BY <1>1, <2>6 DEF Cleared
  <2> QED  BY <2>5, <2>7
<1>7. CASE RootBounds(l)
  <2>1. /\ pc = <<"bounds", l>> /\ pc' = <<"count", l>>
        /\ hw' = [WriteBounds(hw, Id(l), l) EXCEPT !.fsm = NextFsm(prog, hw, pc)]
    BY <1>7 DEF RootBounds, Setup
  <2>2. IsRoot(l)
    <3>1. pc[1] = "bounds" /\ pc[2] = l /\ pc # Done  BY <2>1 DEF Done
    <3> QED  BY <3>1 DEF Typed, Placed
  <2>3. Id(l) = 0 /\ 0 \in Ids  BY <2>2, Grouped
  <2>4. hw'.cnt = [hw.cnt EXCEPT ![0] = 0] /\ hw'.shadow = hw.shadow
    BY <2>1, <2>3 DEF WriteBounds, Typed, Registered
  <2>5. pc \in {"bounds", "count", "inner", "clear"} \X {l}  BY <2>1
  <2>6. \A i \in Ids : ~Live(i)  BY <1>5, <2>1, <2>2, <2>5 DEF Owned, Quiet
  <2>7. \A i \in Ids : ~Live(i)'
    <3>1. hw.cnt \in [Ids -> 0 .. 2^cntWidth - 1]  BY DEF Typed, Registered
    <3> QED  BY <2>4, <2>6, <3>1 DEF Live
  <2>8. Quiet'  BY <1>4, <2>7
  <2>9. Cleared'  BY <1>1, <2>1 DEF Cleared
  <2> QED  BY <2>8, <2>9
<1>8. CASE SetupCount(l)
  <2> DEFINE v == CountValue(prog, l, iv, Width)
  <2>1. /\ pc = <<"count", l>> /\ pc' = IF IsRoot(l) THEN <<"inner", l>> ELSE <<"head", l>>
        /\ hw' = [WriteCount(hw, Id(l), v, cntWidth) EXCEPT !.fsm = NextFsm(prog, hw, pc)]
    BY <1>8 DEF SetupCount, Setup
  <2>2. l \in sel
    <3>1. pc[1] = "count" /\ pc[2] = l /\ pc # Done  BY <2>1 DEF Done
    <3> QED  BY <3>1 DEF Typed, Placed
  <2>3. PICK r : IsRoot(r) /\ l \in Group(r) /\ r \in sel  BY <2>2, GroupOf
  <2>4. InRegion(r)
    <3>1. l = r \/ r \in Ancestors(prog, l)  BY <2>3, Grouped
    <3>2. CASE l = r
      <4>1. pc \in {"count", "inner", "clear"} \X {r}  BY <2>1, <3>2
      <4> QED  BY <4>1 DEF InRegion
    <3>3. CASE r \in Ancestors(prog, l)
      <4>1. Within(prog, pc, r)  BY <2>1, <3>3, WithinPoint
      <4> QED  BY <4>1 DEF InRegion
    <3> QED  BY <3>1, <3>2, <3>3
  <2>5. /\ pc # <<"back", r>> /\ pc # <<"clear", r>>
        /\ \A t \in sel : pc # <<"back", t>> /\ pc # <<"clear", t>>
    BY <2>1
  <2>6. InRegion(r)'  BY <1>3, <2>3, <2>4, <2>5
  <2> HIDE DEF v
  <2>7. \A i \in Ids : i # Id(l) => hw'.cnt[i] = hw.cnt[i] /\ hw'.shadow[i] = hw.shadow[i]
    BY <2>1 DEF WriteCount, Typed, Registered
  <2>8. ASSUME NEW i \in Ids, Live(i)'
        PROVE  \E t \in sel : IsRoot(t) /\ InRegion(t)' /\ \E k \in Group(t) : Id(k) = i
    <3>1. CASE i = Id(l)  BY <2>3, <2>6, <3>1
    <3>2. CASE i # Id(l)
      <4>1. Live(i)  BY <2>7, <2>8, <3>2 DEF Live
      <4>2. PICK t \in sel : IsRoot(t) /\ InRegion(t) /\ \E k \in Group(t) : Id(k) = i
        BY <4>1 DEF Owned, Quiet
      <4>3. InRegion(t)'  BY <1>3, <2>5, <4>2
      <4> QED  BY <4>2, <4>3
    <3> QED  BY <3>1, <3>2
  <2>9. Quiet'  BY <1>4, <2>8
  <2>10. Cleared'  BY <1>1, <2>1 DEF Cleared
  <2> QED  BY <2>9, <2>10
<1>9. CASE InnerBounds(l)
  <2> DEFINE owner(i) == {k \in InnerOf(l) : Id(k) = i}
  <2>1. /\ pc = <<"inner", l>> /\ pc' = <<"head", l>>
        /\ hw'.cnt = [i \in Ids |-> IF owner(i) = {} THEN hw.cnt[i] ELSE 0]
        /\ hw'.shadow = hw.shadow
    BY <1>9 DEF InnerBounds, Setup, Typed, Registered
  <2> HIDE DEF owner
  <2>2. \A t \in sel : pc # <<"back", t>> /\ pc # <<"clear", t>>  BY <2>1
  <2>3. ASSUME NEW i \in Ids, Live(i)'
        PROVE  \E t \in sel : IsRoot(t) /\ InRegion(t)' /\ \E k \in Group(t) : Id(k) = i
    <3>1. Live(i)  BY <2>1, <2>3 DEF Live
    <3>2. PICK t \in sel : IsRoot(t) /\ InRegion(t) /\ \E k \in Group(t) : Id(k) = i
      BY <3>1 DEF Owned, Quiet
    <3>3. InRegion(t)'  BY <1>3, <2>2, <3>2
    <3> QED  BY <3>2, <3>3
  <2>4. Quiet'  BY <1>4, <2>3
  <2>5. Cleared'  BY <1>1, <2>1 DEF Cleared
  <2> QED  BY <2>4, <2>5
<1>10. CASE ClearInner(l)
  <2> DEFINE inner == {Id(k) : k \in InnerOf(l)}
  <2>1. /\ pc = <<"clear", l>> /\ pc' = After(prog, l)
        /\ hw'.cnt = [i \in Ids |-> IF i \in inner THEN 0 ELSE hw.cnt[i]]
        /\ hw'.shadow = [i \in Ids |-> IF i \in inner THEN 0 ELSE hw.shadow[i]]
    BY <1>10 DEF ClearInner, Setup, Typed, Registered
  <2>2. IsRoot(l) /\ l \in sel
    <3>1. pc[1] = "clear" /\ pc[2] = l /\ pc # Done  BY <2>1 DEF Done
    <3> QED  BY <3>1 DEF Typed, Placed, IsRoot
  <2>3. hw.cnt[0] = 0  BY <2>1, <2>2 DEF Owned, Cleared
  <2>4. pc \in {"bounds", "count", "inner", "clear"} \X {l}  BY <2>1
  <2>5. ASSUME NEW i \in Ids, Live(i)' PROVE FALSE
    <3>1. i \notin inner /\ Live(i)  BY <2>1, <2>5 DEF Live
    <3>2. PICK t \in sel : IsRoot(t) /\ InRegion(t) /\ \E k \in Group(t) : Id(k) = i
      BY <3>1 DEF Owned, Quiet
    <3>3. t = l  BY <1>5, <2>2, <2>4, <3>2
    <3>4. PICK k \in Group(l) : Id(k) = i  BY <3>2, <3>3
    <3>5. k = l  BY <2>2, <3>1, <3>4, Grouped
    <3>6. i = 0  BY <2>2, <3>4, <3>5, Grouped
    <3> HIDE DEF inner
    <3>7. hw'.cnt[0] = 0  BY <2>1, <2>3, <3>6
    <3> QED  BY <2>5, <3>6, <3>7 DEF Live
  <2>6. Quiet'  BY <1>4, <2>5
  <2>7. Cleared'
    <3>1. After(prog, l)[1] # "clear"
      <4>1. After(prog, l) = Done \/ After(prog, l) \in {"step", "pre"} \X Loops(prog)
        BY <1>2, WithinAfter
      <4>2. Done[1] = "done"  BY DEF Done
      <4> QED  BY <4>1, <4>2
    <3>2. \A r \in sel : pc' # <<"clear", r>>  BY <2>1, <3>1
    <3> QED  BY <1>1, <3>2 DEF Cleared
  <2> QED  BY <2>6, <2>7
<1> QED  BY <1>6, <1>7, <1>8, <1>9, <1>10 DEF Does

LEMMA OwnedInvariant == Apart => (Spec => [](Typed /\ Owned))
<1> SUFFICES ASSUME Apart PROVE Spec => [](Typed /\ Owned)
  OBVIOUS
<1>1. Init => Typed /\ Owned  BY InitTyped, InitOwned
<1>2. Typed /\ Owned /\ [Next]_vars => (Typed /\ Owned)'
  <2> SUFFICES ASSUME Typed, Owned, [Next]_vars PROVE (Typed /\ Owned)'
    OBVIOUS
  <2>1. Typed'  BY NextTyped
  <2>2. CASE UNCHANGED vars
    BY <2>1, <2>2 DEF vars, Owned, IdsOwn, GroupsOwn, Quiet, Cleared, Live, InRegion, Id, IsRoot,
                      Group, Ids
  <2>3. ASSUME NEW l \in Loops(prog), Does(l) PROVE Owned'
    BY <2>3, BoundsOwned, CountersOwned DEF Owned
  <2>4. Next => \E l \in Loops(prog) : Does(l)  BY DEF Next, Does
  <2> QED  BY <2>1, <2>2, <2>3, <2>4
<1> QED  BY <1>1, <1>2, PTL DEF Spec

\* While a configured loop runs, the bounds of its id are its own: neither a
\* loop of its group nor another group has taken them over, however many groups
\* share the ids (codegen/hwloop/generator.py gives them out from 0 in each).
THEOREM OwnBoundsCorrect == Apart => (Spec => []OwnBounds)
<1> SUFFICES ASSUME Apart PROVE Spec => []OwnBounds
  OBVIOUS
<1>1. Typed /\ Owned => OwnBounds
  <2> SUFFICES ASSUME Typed, Owned, NEW l \in sel, Within(prog, pc, l)
               PROVE  hw.loop[Id(l)] = l
    BY DEF OwnBounds
  <2>1. PICK r : IsRoot(r) /\ l \in Group(r) /\ r \in sel  BY GroupOf
  <2>2. WellFormed(prog) /\ l \in Loops(prog)  BY HwloopNestAssumption DEF Typed, PlanInv
  <2>3. l = r \/ r \in Ancestors(prog, l)  BY <2>1, Grouped
  <2>4. Within(prog, pc, r)
    <3>1. pc[2] \in Loops(prog) /\ l \in Ancestors(prog, pc[2]) =>
            Ancestors(prog, l) \subseteq Ancestors(prog, pc[2])
      BY <2>2, AncestorsAreOuter
    <3> QED  BY <2>2, <2>3, <3>1 DEF Within
  <2> QED  BY <2>1, <2>4 DEF Owned, GroupsOwn
<1> QED  BY <1>1, OwnedInvariant, PTL

\* No counter is left standing outside the group it belongs to: an end address
\* of an earlier group never sends control back.
THEOREM NoStaleCounterCorrect == Apart => (Spec => []NoStaleCounter)
<1> SUFFICES ASSUME Apart PROVE Spec => []NoStaleCounter
  OBVIOUS
<1>1. Typed /\ Owned => NoStaleCounter
  <2> SUFFICES ASSUME Typed, Owned,
                      \A l \in sel : /\ ~Within(prog, pc, l)
                                     /\ pc \notin {"bounds", "count", "inner", "clear"} \X {l},
                      NEW i \in Ids, hw.cnt[i] # 0
               PROVE  FALSE
    BY DEF NoStaleCounter
  <2>1. PICK r \in sel : InRegion(r)  BY DEF Owned, Quiet, Live
  <2> QED  BY <2>1 DEF InRegion
<1> QED  BY <1>1, OwnedInvariant, PTL

-----------------------------------------------------------------------------
(***************************************************************************)
(* The count of a loop that reaches its bound in whole steps.              *)
(***************************************************************************)
\* The constants are as the registers hold them, and a loop that starts at an
\* unknown value counts up to a constant bound (the generator subtracts the
\* start from it whatever the direction).
Regular(p, l, w) ==
  /\ p.bnd[l].val \in 0 .. 2^w - 1
  /\ p.init[l].kind = "imm" => p.init[l].val \in 0 .. 2^w - 1
  /\ p.init[l].kind = "off" => p.bnd[l].val + p.init[l].val \in 0 .. 2^w - 1
  /\ p.bnd[l].kind = "li" /\ p.init[l].kind \notin {"zero", "imm"} => p.step[l] > 0

LEMMA WordOfSmall ==
  ASSUME NEW w \in Nat, NEW x \in 0 .. 2^w - 1
  PROVE  Word(x, w) = x
<1>1. 2^w \in Nat \ {0}  BY PowerPositive
<1> DEFINE t == 2^w
<1>2. \A n \in Nat : \A a \in 0 .. n - 1 : a % n = a  BY Z3
<1>3. t \in Nat /\ x \in 0 .. t - 1  BY <1>1
<1> HIDE DEF t
<1>4. x % t = x  BY <1>2, <1>3
<1> QED  BY <1>4 DEF Word, t

LEMMA Multiple ==
  ASSUME NEW d \in Nat \ {0}, NEW m \in Nat
  PROVE  m * d \in Nat /\ m <= m * d /\ (m * d) \div d = m
  BY Z3

\* Between the start of such a loop and its bound no value repeats the bound.
LEMMA Between ==
  ASSUME NEW t \in Nat, NEW x \in 0 .. t, NEW b \in 0 .. t, NEW s \in Int, s # 0,
         NEW n \in Nat, x + n * s = b, NEW k \in 0 .. n - 1
  PROVE  x + k * s \in 0 .. t /\ x + k * s # b
<1>1. PICK j \in Nat : j = n - k /\ j # 0  OBVIOUS
<1>2. k \in Nat  OBVIOUS
<1>3. n * s = k * s + j * s  BY <1>1, Z3
<1>4. PICK u : u = k * s  OBVIOUS
<1>5. PICK v : v = j * s  OBVIOUS
<1>6. u \in Int /\ v \in Int  BY <1>1, <1>2, <1>4, <1>5
<1>7. CASE s > 0
  <2>1. s \in Nat \ {0}  BY <1>7
  <2>2. u >= 0  BY <1>2, <1>4, <2>1, Multiple
  <2>3. v >= j  BY <1>1, <1>5, <2>1, Multiple
  <2>4. x + u + v = b  BY <1>3, <1>4, <1>5, <1>6
  <2>5. x + u \in 0 .. t /\ x + u # b  BY <1>1, <1>6, <2>2, <2>3, <2>4
  <2> QED  BY <1>4, <2>5
<1>8. CASE s < 0
  <2>1. 0 - s \in Nat \ {0}  BY <1>8
  <2>2. k * (0 - s) >= 0 /\ j * (0 - s) >= j  BY <1>1, <1>2, <2>1, Multiple
  <2>3. k * (0 - s) = 0 - u /\ j * (0 - s) = 0 - v  BY <1>1, <1>2, <1>4, <1>5, Z3
  <2>4. u <= 0 /\ v <= 0 - j  BY <1>1, <1>6, <2>2, <2>3
  <2>5. x + u + v = b  BY <1>3, <1>4, <1>5, <1>6
  <2>6. x + u \in 0 .. t /\ x + u # b  BY <1>1, <1>6, <2>4, <2>5
  <2> QED  BY <1>4, <2>6
<1> QED  BY <1>7, <1>8

\* One of the steps to the bound leaves one less.
LEMMA OneStep ==
  ASSUME NEW t \in Nat, NEW x \in 0 .. t, NEW b \in 0 .. t, NEW s \in Int, s # 0,
         NEW n \in Nat, n >= 1, x + n * s = b
  PROVE  x + s \in 0 .. t /\ (x + s) + (n - 1) * s = b
<1>1. 1 * s = s  OBVIOUS
<1>2. CASE n = 1
  <2>1. x + s = b /\ (n - 1) * s = 0  BY <1>1, <1>2
  <2> QED  BY <2>1
<1>3. CASE n # 1
  <2>1. 1 \in 0 .. n - 1  BY <1>3
  <2>2. x + 1 * s \in 0 .. t  BY <2>1, Between
  <2>3. n * s = s + (n - 1) * s  BY Z3
  <2>4. (n - 1) * s \in Int  OBVIOUS
  <2>5. (x + s) + (n - 1) * s = b  BY <2>3, <2>4
  <2> QED  BY <1>1, <2>2, <2>5
<1> QED  BY <1>2, <1>3

\* The setup calculates the number of iterations, in each of its ways.
LEMMA CountOfRegular ==
  ASSUME NEW p, WellFormed(p), NEW l \in Loops(p), NEW w \in Nat,
         NEW iv0 \in [Loops(p) -> 0 .. 2^w - 1],
         Regular(p, l, w), DetermineCount(p, l).op \notin {"none", "raise"},
         iv0[l] = InitValue(p, l, iv0, w),
         NEW m \in Nat \ {0}, iv0[l] + m * p.step[l] = BoundValue(p, l, w)
  PROVE  CountValue(p, l, iv0, w) = m
<1> DEFINE s == p.step[l]
           d == AbsInt(s)
           x == iv0[l]
           b == BoundValue(p, l, w)
           top == 2^w
           i == p.init[l].val
           c == p.bnd[l].val
           md == m * d
           reg(r) == CASE r = "iv" -> x [] r = "bound" -> b [] r = "init" -> Word(i, w)
<1>1. top \in Nat \ {0}  BY PowerPositive
<1>2. x \in 0 .. top - 1 /\ b \in 0 .. top - 1  BY BoundRange
<1>3. s \in Int /\ s # 0 /\ i \in Int /\ c \in Int  BY DEF WellFormed
<1>4. d \in Nat \ {0} /\ (s > 0 => d = s) /\ (s < 0 => d = 0 - s)  BY <1>3 DEF AbsInt
<1>5. md \in Nat /\ m <= md /\ md \div d = m  BY <1>4, Multiple
<1>6. (s > 0 => b - x = md) /\ (s < 0 => x - b = md)
  <2> HIDE DEF s, d, x, b, md, top
  <2>1. x + m * s = b  BY DEF x, b, s
  <2>2. x \in Int /\ b \in Int  BY <1>1, <1>2
  <2>3. s > 0 => md = m * s  BY <1>4 DEF md
  <2>4. s < 0 => md = 0 - m * s  BY <1>3, <1>4, Z3 DEF md
  <2>5. m * s \in Int  BY <1>3
  <2> QED  BY <2>1, <2>2, <2>3, <2>4, <2>5
<1>7. Word(md, w) = md /\ Word(m, w) = m
  <2>1. md \in 0 .. top - 1 /\ m \in 0 .. top - 1
    <3> HIDE DEF s, d, x, b, md, top
    <3> QED  BY <1>1, <1>2, <1>3, <1>5, <1>6
  <2> QED  BY <2>1, WordOfSmall
<1>9. reg("iv") = x /\ reg("bound") = b /\ reg("init") = Word(i, w)
      /\ "iv" \in Registers /\ "bound" \in Registers /\ "init" \in Registers
  BY DEF Registers
<1> DEFINE cv == CountValue(p, l, iv0, w)
           dc == DetermineCount(p, l)
<1>20. cv = CASE dc.op = "li"  -> Word(dc.x, w)
              [] dc.op = "reg" -> reg(dc.x) \div dc.div
              [] dc.op = "sub" -> Word(reg(dc.x) - reg(dc.lo), w) \div dc.div
  BY DEF CountValue
<1>8. /\ \A r \in Registers, e \in Nat : dc = Count("reg", r, "", e) => cv = reg(r) \div e
      /\ \A r, q \in Registers, e \in Nat : dc = Count("sub", r, q, e) =>
           cv = Word(reg(r) - reg(q), w) \div e
  <2> HIDE DEF reg, cv, dc
  <2>1. ASSUME NEW r \in Registers, NEW e \in Nat, dc = Count("reg", r, "", e)
        PROVE  cv = reg(r) \div e
    <3>1. dc.op = "reg" /\ dc.x = r /\ dc.div = e  BY <2>1 DEF Count
    <3> QED  BY <1>20, <3>1
  <2>2. ASSUME NEW r \in Registers, NEW q \in Registers, NEW e \in Nat,
               dc = Count("sub", r, q, e)
        PROVE  cv = Word(reg(r) - reg(q), w) \div e
    <3>1. dc.op = "sub" /\ dc.x = r /\ dc.lo = q /\ dc.div = e  BY <2>2 DEF Count
    <3> QED  BY <1>20, <3>1
  <2> QED  BY <2>1, <2>2
<1>10. /\ p.init[l].kind = "zero" => x = 0
       /\ p.init[l].kind = "imm" => x = i /\ i \in 0 .. top - 1 /\ Word(i, w) = i
       /\ p.init[l].kind = "off" => x = c + i
  <2>1. p.init[l].kind = "imm" => i \in 0 .. top - 1 /\ Word(i, w) = i
    BY WordOfSmall DEF Regular
  <2>2. p.init[l].kind = "off" => Word(c + i, w) = c + i  BY WordOfSmall DEF Regular
  <2> QED  BY <2>1, <2>2 DEF InitValue
<1>11. /\ p.bnd[l].kind = "zero" => b = 0
       /\ p.bnd[l].kind # "zero" => b = c
  <2>1. Word(c, w) = c  BY WordOfSmall DEF Regular
  <2> QED  BY <2>1 DEF BoundValue
<1>12. \A n \in Nat : n \div 1 = n  BY Z3
<1>13. p.bnd[l].kind \in {"zero", "li", "arg"}
       /\ p.init[l].kind \in {"zero", "imm", "arg", "outer", "off"}
  BY DEF WellFormed
\* The three ways a count is used.
<1>14. ASSUME dc = Count("li", m, "", 1) PROVE cv = m
  <2> HIDE DEF reg, cv, dc
  <2>1. dc.op = "li" /\ dc.x = m  BY <1>14 DEF Count
  <2>2. cv = Word(m, w)  BY <1>20, <2>1
  <2> QED  BY <1>7, <2>2
<1>15. ASSUME dc = Count("sub", "bound", "iv", d), s > 0 PROVE cv = m
  <2>1. cv = Word(reg("bound") - reg("iv"), w) \div d  BY <1>4, <1>8, <1>9, <1>15
  <2>2. reg("bound") - reg("iv") = md  BY <1>6, <1>9, <1>15
  <2> HIDE DEF s, d, x, b, md, top, reg, cv, dc
  <2> QED  BY <1>5, <1>7, <2>1, <2>2
<1>16. CASE p.bnd[l].kind = "li"
  <2> DEFINE dist == AbsInt(c - KnownInit(p, l)) \div d
  <2>1. dc = IF p.init[l].kind \in {"zero", "imm"}
             THEN IF dist = 0 THEN NoCount
                  ELSE IF dist = c THEN Count("reg", "bound", "", 1) ELSE Count("li", dist, "", 1)
             ELSE Count("sub", "bound", "iv", d)
    BY <1>16 DEF DetermineCount, ResolvedConst, CountResolved
  <2>2. CASE p.init[l].kind \in {"zero", "imm"}
    <3>1. KnownInit(p, l) = x /\ b = c  BY <1>10, <1>11, <1>16, <2>2 DEF KnownInit
    <3>2. AbsInt(b - x) = md
      <4> HIDE DEF s, d, x, b, md, top
      <4> QED  BY <1>1, <1>2, <1>3, <1>5, <1>6 DEF AbsInt
    <3>3. dist = m  BY <1>5, <3>1, <3>2
    <3>4. CASE m = c
      <4>1. dc = Count("reg", "bound", "", 1)  BY <2>1, <2>2, <3>3, <3>4
      <4>2. cv = b \div 1  BY <1>8, <1>9, <4>1
      <4>3. b \in Nat  BY <3>1, <3>4
      <4> HIDE DEF cv, b
      <4> QED  BY <1>12, <3>1, <3>4, <4>2, <4>3 DEF cv
    <3>5. CASE m # c
      <4>1. dc = Count("li", m, "", 1)  BY <2>1, <2>2, <3>3, <3>5
      <4> QED  BY <1>14, <4>1
    <3> QED  BY <3>4, <3>5
  <2>3. CASE p.init[l].kind \notin {"zero", "imm"}
    <3>1. s > 0  BY <1>16, <2>3 DEF Regular
    <3> QED  BY <1>15, <2>1, <2>3, <3>1
  <2> QED  BY <2>2, <2>3
<1>17. CASE p.bnd[l].kind = "zero"
  <2>1. dc = CASE p.init[l].kind = "zero" -> Count("li", 0, "", 1)
               [] p.init[l].kind = "imm"  ->
                    IF d = 1 THEN Count("reg", "iv", "", 1) ELSE Count("li", AbsInt(i) \div d, "", 1)
               [] OTHER                   -> Count("reg", "iv", "", d)
    BY <1>17 DEF DetermineCount, ResolvedConst, CountToZero
  <2>2. x = md
    <3> HIDE DEF s, d, x, b, md, top
    <3> QED  BY <1>1, <1>2, <1>3, <1>5, <1>6, <1>11, <1>17
  <2>3. CASE p.init[l].kind = "zero"
    <3> HIDE DEF x, md
    <3> QED  BY <1>5, <1>10, <2>2, <2>3
  <2>4. CASE p.init[l].kind = "imm"
    <3>1. x = i /\ AbsInt(i) = i
      <4>1. x = i /\ i \in 0 .. top - 1  BY <1>10, <2>4
      <4> HIDE DEF x, i, top
      <4> QED  BY <1>1, <4>1 DEF AbsInt
    <3>2. CASE d = 1
      <4>1. cv = x \div 1  BY <1>8, <1>9, <2>1, <2>4, <3>2
      <4>2. md = m  BY <3>2
      <4> HIDE DEF cv, x, md
      <4> QED  BY <1>5, <1>12, <2>2, <4>1, <4>2 DEF cv
    <3>3. CASE d # 1
      <4>1. AbsInt(i) \div d = m  BY <1>5, <2>2, <3>1
      <4>2. dc = Count("li", m, "", 1)  BY <2>1, <2>4, <3>3, <4>1
      <4> QED  BY <1>14, <4>2
    <3> QED  BY <3>2, <3>3
  <2>5. CASE p.init[l].kind \notin {"zero", "imm"}
    <3>1. dc = Count("reg", "iv", "", d)  BY <2>1, <2>5
    <3>2. cv = x \div d  BY <1>4, <1>8, <1>9, <3>1
    <3> HIDE DEF cv, x, d, md
    <3> QED  BY <1>5, <2>2, <3>2 DEF cv
  <2> QED  BY <2>3, <2>4, <2>5
<1>18. CASE p.bnd[l].kind = "arg"
  <2> DEFINE far == p.init[l].kind = "off" /\ i # 0 /\ AbsInt(i) \div d > 0
             flat == p.init[l].kind = "zero" /\ p.par[l] = 0
             sub(r) == IF s < 0 THEN Count("sub", r, "bound", d) ELSE Count("sub", "bound", r, d)
  <2>1. dc = CASE far -> Count("li", AbsInt(i) \div d, "", 1)
               [] flat -> Count("reg", "bound", "", d)
               [] p.init[l].kind = "imm" ->
                    IF d > 1 /\ PowerOfTwo(d) THEN Count("raise", 0, "", 1) ELSE sub("init")
               [] OTHER -> sub("iv")
    BY <1>18 DEF DetermineCount, ResolvedConst, CountFromRegister
  <2>2. b = c  BY <1>11, <1>18
  <2>3. \A r \in {"iv", "init"} : reg(r) = x /\ dc = sub(r) => cv = m
    <3> TAKE r \in {"iv", "init"}
    <3> SUFFICES ASSUME reg(r) = x, dc = sub(r) PROVE cv = m
      OBVIOUS
    <3>1. r \in Registers  BY DEF Registers
    <3>2. CASE s < 0
      <4>1. cv = Word(reg(r) - reg("bound"), w) \div d  BY <1>4, <1>8, <1>9, <3>1, <3>2
      <4>2. x - b = md  BY <1>6, <3>2
      <4> HIDE DEF cv, reg, x, b, md, d
      <4> QED  BY <1>5, <1>7, <1>9, <3>2, <4>1, <4>2
    <3>3. CASE s > 0
      <4>1. cv = Word(reg("bound") - reg(r), w) \div d
        <5>1. ~(s < 0)  BY <1>3, <3>3
        <5> QED  BY <1>4, <1>8, <1>9, <3>1, <5>1
      <4>2. b - x = md  BY <1>6, <3>3
      <4> HIDE DEF cv, reg, x, b, md, d
      <4> QED  BY <1>5, <1>7, <1>9, <3>3, <4>1, <4>2
    <3> QED  BY <1>3, <3>2, <3>3
  <2>4. CASE p.init[l].kind = "off"
    <3>1. AbsInt(i) = md /\ i # 0
      <4>1. x = b + i  BY <1>10, <2>2, <2>4
      <4> HIDE DEF s, d, x, b, md, top, i
      <4> QED  BY <1>1, <1>2, <1>3, <1>5, <1>6, <4>1 DEF AbsInt
    <3>2. AbsInt(i) \div d = m  BY <1>5, <3>1
    <3>3. far  BY <2>4, <3>1, <3>2
    <3>4. dc = Count("li", m, "", 1)  BY <2>1, <3>2, <3>3
    <3> QED  BY <1>14, <3>4
  <2>5. CASE p.init[l].kind = "imm"
    <3>1. dc = sub("init")
      <4>1. dc.op # "raise"  OBVIOUS
      <4>2. Count("raise", 0, "", 1).op = "raise"  BY DEF Count
      <4> QED  BY <2>1, <2>5, <4>1, <4>2
    <3>2. reg("init") = x  BY <1>9, <1>10, <2>5
    <3> QED  BY <2>3, <3>1, <3>2
  <2>6. CASE flat
    <3>1. dc = Count("reg", "bound", "", d)  BY <2>1, <2>6
    <3>2. cv = b \div d  BY <1>4, <1>8, <1>9, <3>1
    <3>3. b = md
      <4>1. x = 0  BY <1>10, <2>6
      <4> HIDE DEF s, d, x, b, md, top
      <4> QED  BY <1>1, <1>2, <1>3, <1>5, <1>6, <4>1
    <3> HIDE DEF cv, b, d, md
    <3> QED  BY <1>5, <3>2, <3>3 DEF cv
  <2>7. CASE ~flat /\ p.init[l].kind \notin {"off", "imm"}
    <3>1. dc = sub("iv")  BY <2>1, <2>7
    <3> QED  BY <1>9, <2>3, <3>1
  <2> QED  BY <2>4, <2>5, <2>6, <2>7
<1> QED  BY <1>13, <1>16, <1>17, <1>18

-----------------------------------------------------------------------------
(***************************************************************************)
(* What the counters hold.                                                 *)
(***************************************************************************)
RegularLoops == \A p \in Programs : \A l \in Loops(p) : Regular(p, l, Width)

\* Wherever a configured loop is set up, it is a whole number of steps from its
\* bound, without passing the end of the number range, and the counter holds
\* that number.
WholeSteps ==
  \A l \in sel : pc = <<"count", l>> =>
    \E m \in 1 .. 2^cntWidth - 1 : iv[l] + m * prog.step[l] = BoundValue(prog, l, Width)

\* n more steps take l to its bound.
Remains(l, n) == n >= 1 /\ iv[l] + n * prog.step[l] = BoundValue(prog, l, Width)

\* The induction variable is set up when the count is calculated.
Started ==
  \A l \in sel : pc \in {<<"bounds", l>>, <<"count", l>>} => iv[l] = InitValue(prog, l, iv, Width)

Counted ==
  \A l \in sel :
    /\ pc = <<"inner", l>> \/ (Within(prog, pc, l) /\ pc # <<"back", l>>) =>
         Remains(l, hw.cnt[Id(l)])
    /\ pc = <<"back", l>> =>
         /\ hw.cnt[Id(l)] >= 1
         /\ iv[l] + (hw.cnt[Id(l)] - 1) * prog.step[l] = BoundValue(prog, l, Width)

\* Past its head a loop that goes on is known to the controller.
Ready ==
  \A l \in sel : Within(prog, pc, l) /\ pc # <<"head", l>> /\ hw.cnt[Id(l)] > 1 =>
    hw.fsm = "DECODE_HWLOOP"

LEMMA StepFixed ==
  ASSUME NEW l, Does(l)
  PROVE  /\ Fixed /\ sel' = sel /\ prog' = prog /\ cntWidth' = cntWidth
         /\ \A k : Id(k)' = Id(k) /\ IsRoot(k)' = IsRoot(k) /\ Group(k)' = Group(k)
  BY DEF Does, Pre, RootBounds, SetupCount, InnerBounds, Head, Step, BackHw, BackSw, ClearInner,
         Plain, Setup, Fixed, Id, IsRoot, Group

\* How the points of a loop are reached.
LEMMA PointsReached ==
  ASSUME Typed, NEW l \in Loops(prog), Does(l), NEW k
  PROVE  /\ pc' = <<"bounds", k>> => k = l /\ Pre(k)
         /\ pc' = <<"count", k>> => k = l /\ (Pre(k) \/ RootBounds(k))
         /\ pc' = <<"inner", k>> => k = l /\ SetupCount(k)
         /\ pc' = <<"back", k>> => k = l /\ Step(k)
<1>1. WellFormed(prog)  BY HwloopNestAssumption DEF Typed, PlanInv
<1>2. Inner(prog, l)[1] \in {"step", "pre"} /\ After(prog, l)[1] \in {"done", "step", "pre"}
  <2>1. Inner(prog, l) \in {"step", "pre"} \X Loops(prog)  BY <1>1, WithinInner
  <2>2. After(prog, l) = Done \/ After(prog, l) \in {"step", "pre"} \X Loops(prog)
    BY <1>1, WithinAfter
  <2>3. Done[1] = "done"  BY DEF Done
  <2> QED  BY <2>1, <2>2, <2>3
<1>3. Leave(l)[1] \in {"clear", "done", "step", "pre"}  BY <1>2 DEF Leave
<1>4. ASSUME NEW kind \in {"bounds", "count", "inner", "back"}, pc' = <<kind, k>>
      PROVE  pc'[1] = kind /\ pc'[2] = k
  BY <1>4
<1>5. CASE Pre(l)
  <2>1. pc' = <<"head", l>> \/ pc' = <<"bounds", l>> \/ pc' = <<"count", l>>
    BY <1>5 DEF Pre, Plain, Entry
  <2> QED  BY <1>4, <1>5, <2>1
<1>6. CASE RootBounds(l)
  <2>1. pc' = <<"count", l>>  BY <1>6 DEF RootBounds, Setup
  <2> QED  BY <1>4, <1>6, <2>1
<1>7. CASE SetupCount(l)
  <2>1. pc' = <<"inner", l>> \/ pc' = <<"head", l>>  BY <1>7 DEF SetupCount, Setup
  <2> QED  BY <1>4, <1>7, <2>1
<1>8. CASE InnerBounds(l)
  <2>1. pc' = <<"head", l>>  BY <1>8 DEF InnerBounds, Setup
  <2> QED  BY <1>4, <2>1
<1>9. CASE Step(l)
  <2>1. pc' = <<"back", l>>  BY <1>9 DEF Step, Plain
  <2> QED  BY <1>4, <1>9, <2>1
<1>10. CASE Head(l) \/ BackHw(l) \/ BackSw(l) \/ ClearInner(l)
  <2>1. pc' \in {Inner(prog, l), <<"head", l>>, Leave(l), After(prog, l)}
    BY <1>10 DEF Head, BackHw, BackSw, ClearInner, Setup, Plain
  <2>2. pc'[1] \in {"head", "clear", "done", "step", "pre"}  BY <1>2, <1>3, <2>1
  <2> QED  BY <1>4, <2>2
<1> QED  BY <1>5, <1>6, <1>7, <1>8, <1>9, <1>10 DEF Does

\* Inside a loop only its own parts change its counter and its variable.
LEMMA CounterKept ==
  ASSUME Typed, Apart, Owned, NEW l \in Loops(prog), Does(l),
         NEW k \in sel, Within(prog, pc, k), pc # <<"back", k>>
  PROVE  /\ hw'.cnt[Id(k)] = hw.cnt[Id(k)]
         /\ iv'[k] = iv[k] \/ (k = l /\ Step(k))
<1>1. WellFormed(prog) /\ k \in Loops(prog) /\ iv \in [Loops(prog) -> 0 .. 2^Width - 1]
  BY HwloopNestAssumption DEF Typed, PlanInv
<1>2. PICK r : IsRoot(r) /\ k \in Group(r) /\ r \in sel  BY GroupOf
<1>3. Id(k) \in Ids /\ Id(k) \in Nat /\ k \in Nat  BY <1>2, Grouped
<1>4. ASSUME NEW kind \in {"pre", "bounds", "count", "inner", "clear"}, pc = <<kind, l>>
      PROVE  k \in Ancestors(prog, l) /\ k # l /\ ~IsRoot(l)
  <2>1. k \in Ancestors(prog, l)  BY <1>4, WithinPoint
  <2>2. k # l  BY <1>1, <2>1, ParentOf
  <2> QED  BY <2>1, <2>2, AroundRoot
<1>5. CASE Pre(l) \/ Head(l) \/ Step(l) \/ BackSw(l)
  <2>1. PICK kind \in {"pre", "head", "step", "back"} :
          pc = <<kind, l>> /\ (kind # "back" \/ l \notin sel)
    BY <1>5 DEF Pre, Head, Step, BackSw
  <2>2. hw' = Execute(prog, hw, pc)  BY <1>5 DEF Pre, Head, Step, BackSw, Plain
  <2>3. hw'.cnt = hw.cnt
    <3>1. hw'.cnt = Counters(hw, pc)  BY <2>2 DEF Execute, Typed, Registered
    <3> QED  BY <2>1, <3>1, NoEnd
  <2>4. iv'[k] = iv[k] \/ (k = l /\ Step(k))
    <3>1. CASE Pre(l)
      <4>1. pc = <<"pre", l>> /\ iv' = [iv EXCEPT ![l] = InitValue(prog, l, iv, Width)]
        BY <3>1 DEF Pre
      <4> QED  BY <1>1, <1>4, <4>1
    <3>2. CASE Step(l)
      <4>1. iv' = [iv EXCEPT ![l] = Word(iv[l] + prog.step[l], Width)]  BY <3>2 DEF Step
      <4> QED  BY <1>1, <3>2, <4>1
    <3>3. CASE Head(l) \/ BackSw(l)  BY <3>3 DEF Head, BackSw
    <3> QED  BY <1>5, <3>1, <3>2, <3>3
  <2> QED  BY <2>3, <2>4
<1>6. CASE BackHw(l)
  <2>1. pc = <<"back", l>> /\ l \in sel /\ iv' = iv /\ hw' = Execute(prog, hw, pc)
    BY <1>6 DEF BackHw, Plain
  <2>2. k \in Ancestors(prog, l)  BY <2>1, WithinPoint
  <2>3. PICK t : IsRoot(t) /\ l \in Group(t) /\ t \in sel  BY <2>1, GroupOf
  <2>4. k \in Group(t)  BY <2>2, <2>3, AroundRoot
  <2>5. k < l  BY <1>1, <2>2, AncestorsAreOuter
  <2>6. Id(k) < Id(l) /\ Id(l) \in Nat  BY <2>3, <2>4, <2>5, Grouped
  <2>7. hw'.cnt = Counters(hw, pc)  BY <2>1 DEF Execute, Typed, Registered
  <2>8. Counters(hw, pc) = hw.cnt
        \/ Counters(hw, pc) =
             [j \in Ids |-> IF j = Id(l) THEN hw.cnt[Id(l)] - 1
                            ELSE IF Id(l) < j THEN hw.shadow[j] ELSE hw.cnt[j]]
    BY <2>1, AtBack
  <2>9. Id(k) # Id(l) /\ ~(Id(l) < Id(k))  BY <1>3, <2>6
  <2>10. hw'.cnt[Id(k)] = hw.cnt[Id(k)]  BY <1>3, <2>7, <2>8, <2>9
  <2> QED  BY <2>1, <2>10
<1>7. CASE SetupCount(l)
  <2>1. /\ pc = <<"count", l>> /\ iv' = iv
        /\ hw' = [WriteCount(hw, Id(l), CountValue(prog, l, iv, Width), cntWidth)
                    EXCEPT !.fsm = NextFsm(prog, hw, pc)]
    BY <1>7 DEF SetupCount, Setup
  <2>2. l \in sel
    <3>1. pc[1] = "count" /\ pc[2] = l /\ pc # Done  BY <2>1 DEF Done
    <3> QED  BY <3>1 DEF Typed, Placed
  <2>3. k \in Ancestors(prog, l) /\ k # l  BY <1>4, <2>1
  <2>4. PICK t : IsRoot(t) /\ l \in Group(t) /\ t \in sel  BY <2>2, GroupOf
  <2>5. k \in Group(t)  BY <2>3, <2>4, AroundRoot
  <2>6. Id(k) # Id(l)  BY <2>3, <2>4, <2>5, Grouped
  <2>7. hw'.cnt[Id(k)] = hw.cnt[Id(k)]
    BY <1>3, <2>1, <2>6 DEF WriteCount, Typed, Registered
  <2> QED  BY <2>1, <2>7
<1>8. CASE RootBounds(l) \/ InnerBounds(l) \/ ClearInner(l)
  <2>1. PICK kind \in {"bounds", "inner", "clear"} : pc = <<kind, l>>
    BY <1>8 DEF RootBounds, InnerBounds, ClearInner
  <2>2. IsRoot(l)
    <3>1. pc[1] = kind /\ pc[2] = l /\ pc # Done  BY <2>1 DEF Done
    <3> QED  BY <3>1 DEF Typed, Placed
  <2> QED  BY <1>4, <2>1, <2>2
<1> QED  BY <1>5, <1>6, <1>7, <1>8 DEF Does

\* What SetupCount leaves in the counter of its loop.
LEMMA CountWritten ==
  ASSUME Typed, RegularLoops, WholeSteps, Started, NEW l \in sel, SetupCount(l)
  PROVE  /\ hw'.cnt[Id(l)] \in Nat /\ Remains(l, hw'.cnt[Id(l)])
         /\ iv' = iv
<1>1. WellFormed(prog) /\ l \in Loops(prog) /\ iv \in [Loops(prog) -> 0 .. 2^Width - 1]
      /\ prog \in Programs /\ Width \in Nat /\ cntWidth \in Nat
  BY HwloopNestAssumption DEF Typed, PlanInv
<1> DEFINE v == CountValue(prog, l, iv, Width)
<1>2. /\ pc = <<"count", l>> /\ iv' = iv
      /\ hw' = [WriteCount(hw, Id(l), v, cntWidth) EXCEPT !.fsm = NextFsm(prog, hw, pc)]
  BY DEF SetupCount, Setup
<1>3. PICK m \in 1 .. 2^cntWidth - 1 : iv[l] + m * prog.step[l] = BoundValue(prog, l, Width)
  BY <1>2 DEF WholeSteps
<1>4. 2^cntWidth \in Nat \ {0}  BY <1>1, PowerPositive
<1>5. m \in Nat \ {0} /\ m \in 0 .. 2^cntWidth - 1
  <2> DEFINE t == 2^cntWidth
  <2>1. m \in 1 .. t - 1 /\ t \in Nat  BY <1>4
  <2> HIDE DEF t
  <2>2. m \in Nat \ {0} /\ m \in 0 .. t - 1  BY <2>1
  <2> QED  BY <2>2 DEF t
<1>6. v = m
  <2>1. Regular(prog, l, Width)  BY <1>1 DEF RegularLoops
  <2>2. DetermineCount(prog, l).op \notin {"none", "raise"}  BY DEF Typed, PlanInv
  <2>3. iv[l] = InitValue(prog, l, iv, Width)  BY <1>2 DEF Started
  <2> QED  BY <1>1, <1>3, <1>5, <2>1, <2>2, <2>3, CountOfRegular
<1>7. Word(v, cntWidth) = m  BY <1>1, <1>5, <1>6, WordOfSmall
<1> HIDE DEF v
<1>8. Id(l) \in Ids
  <2>1. PICK r : IsRoot(r) /\ l \in Group(r) /\ r \in sel  BY GroupOf
  <2> QED  BY <2>1, Grouped
<1>9. hw'.cnt[Id(l)] = m  BY <1>2, <1>7, <1>8 DEF WriteCount, Typed, Registered
<1>10. m >= 1 /\ m \in Nat  BY <1>5
<1> QED  BY <1>2, <1>3, <1>9, <1>10 DEF Remains

LEMMA StartedKept ==
  ASSUME Typed, Started, NEW l \in Loops(prog), Does(l)
  PROVE  Started'
<1>1. WellFormed(prog) /\ sel \subseteq Loops(prog) /\ iv \in [Loops(prog) -> 0 .. 2^Width - 1]
      /\ sel' = sel /\ prog' = prog
  BY StepFixed, HwloopNestAssumption DEF Typed, PlanInv
<1>2. ASSUME NEW k \in sel, pc' \in {<<"bounds", k>>, <<"count", k>>}
      PROVE  iv'[k] = InitValue(prog, k, iv', Width)
  <2>1. k = l /\ (Pre(k) \/ RootBounds(k))  BY <1>2, PointsReached
  <2>2. CASE Pre(k)
    <3>1. iv' = [iv EXCEPT ![k] = InitValue(prog, k, iv, Width)]  BY <2>2 DEF Pre
    <3>2. k \in Loops(prog) /\ prog.par[k] # k
      <4>1. k \in Nat /\ prog.par[k] \in Nat /\ prog.par[k] < k  BY <1>1, ParentOf
      <4> QED  BY <1>1, <4>1
    <3>3. iv'[prog.par[k]] = iv[prog.par[k]]  BY <1>1, <3>1, <3>2
    <3>4. InitValue(prog, k, iv', Width) = InitValue(prog, k, iv, Width)
      BY <3>3 DEF InitValue
    <3> QED  BY <1>1, <3>1, <3>2, <3>4
  <2>3. CASE RootBounds(k)
    <3>1. pc = <<"bounds", k>> /\ iv' = iv  BY <2>3 DEF RootBounds, Setup
    <3> QED  BY <3>1 DEF Started
  <2> QED  BY <2>1, <2>2, <2>3
<1> QED  BY <1>1, <1>2 DEF Started

LEMMA ReadyKept ==
  ASSUME Typed, Apart, Owned, Ready, NEW l \in Loops(prog), Does(l)
  PROVE  Ready'
<1>1. WellFormed(prog) /\ sel' = sel /\ prog' = prog /\ \A k : Id(k)' = Id(k)
  BY StepFixed, HwloopNestAssumption DEF Typed, PlanInv
<1>2. hw'.fsm = NextFsm(prog, hw, pc)
  <2>1. CASE Pre(l) \/ Head(l) \/ Step(l) \/ BackHw(l) \/ BackSw(l)
    <3>1. hw' = Execute(prog, hw, pc)  BY <2>1 DEF Pre, Head, Step, BackHw, BackSw, Plain
    <3> QED  BY <3>1 DEF Execute, Typed, Registered
  <2>2. CASE RootBounds(l) \/ SetupCount(l)
    BY <2>2 DEF RootBounds, SetupCount, Setup, WriteBounds, WriteCount, Typed, Registered
  <2>3. CASE InnerBounds(l)
    BY <2>3 DEF InnerBounds, Setup, Typed, Registered
  <2>4. CASE ClearInner(l)
    BY <2>4 DEF ClearInner, Setup, Typed, Registered
  <2> QED  BY <2>1, <2>2, <2>3, <2>4 DEF Does
<1>3. ASSUME NEW k \in sel, Within(prog, pc', k), pc' # <<"head", k>>, hw'.cnt[Id(k)] > 1
      PROVE  hw'.fsm = "DECODE_HWLOOP"
  <2>1. Within(prog, pc, k)  BY <1>3, WithinStep
  <2>2. pc # <<"back", k>>
    <3> SUFFICES ASSUME pc = <<"back", k>> PROVE FALSE
      OBVIOUS
    <3>1. l = k /\ BackHw(k)
      <4>1. pc[2] = k /\ pc[1] = "back"  OBVIOUS
      <4> QED  BY <4>1, DoesAt
    <3>2. pc' = Leave(k)  BY <1>3, <3>1 DEF BackHw, Plain
    <3>3. ~Within(prog, Leave(k), k)
      <4>1. k # 0 /\ k \notin Ancestors(prog, k)  BY <1>1, <3>1, ParentOf
      <4>2. ~Within(prog, After(prog, k), k)  BY <1>1, <3>1, <4>1, WithinAfter
      <4>3. ~Within(prog, <<"clear", k>>, k)  BY <3>1, <4>1, WithinPoint
      <4> QED  BY <4>2, <4>3 DEF Leave
    <3> QED  BY <1>3, <3>2, <3>3
  <2>3. hw.cnt[Id(k)] > 1
    <3>1. hw'.cnt[Id(k)] = hw.cnt[Id(k)]  BY <2>1, <2>2, CounterKept
    <3> QED  BY <1>3, <3>1
  <2>4. PICK r : IsRoot(r) /\ k \in Group(r) /\ r \in sel  BY GroupOf
  <2>5. k \in Loops(prog) /\ Id(k) \in Ids /\ (k = r \/ r \in Ancestors(prog, k))
    BY <2>4, Grouped
  <2>6. Within(prog, pc, r)
    <3>1. pc[2] \in Loops(prog) /\ k \in Ancestors(prog, pc[2]) =>
            Ancestors(prog, k) \subseteq Ancestors(prog, pc[2])
      BY <1>1, AncestorsAreOuter
    <3> QED  BY <2>1, <2>5, <3>1 DEF Within
  <2>7. hw.loop[Id(k)] = k  BY <2>4, <2>6 DEF Owned, GroupsOwn
  <2>8. k # 0  BY <1>1, <2>5, ParentOf
  <2>9. Id(k) \in DOMAIN hw.cnt  BY <2>5 DEF Typed, Registered
  <2>10. IsBody(prog, hw, pc)  BY <2>1, <2>3, <2>7, <2>8, <2>9 DEF IsBody
  <2> QED  BY <1>2, <2>10 DEF NextFsm
<1> QED  BY <1>1, <1>3 DEF Ready

LEMMA CountedKept ==
  ASSUME Typed, Apart, RegularLoops, Owned, WholeSteps, Started, Counted, Ready,
         NEW l \in Loops(prog), Does(l)
  PROVE  Counted'
<1>1. WellFormed(prog) /\ sel \subseteq Loops(prog) /\ sel' = sel /\ prog' = prog
      /\ iv \in [Loops(prog) -> 0 .. 2^Width - 1] /\ \A k : Id(k)' = Id(k) /\ IsRoot(k)' = IsRoot(k)
  BY StepFixed, HwloopNestAssumption DEF Typed, PlanInv
<1>2. 2^Width \in Nat \ {0} /\ Width \in Nat  BY PowerPositive, HwloopNestAssumption
<1> DEFINE b(k) == BoundValue(prog, k, Width)
           s(k) == prog.step[k]
<1>3. \A k \in sel : /\ iv[k] \in 0 .. 2^Width - 1 /\ b(k) \in 0 .. 2^Width - 1
                     /\ s(k) \in Int /\ s(k) # 0
                     /\ Id(k) \in Ids /\ hw.cnt[Id(k)] \in Nat
  <2> TAKE k \in sel
  <2>1. PICK r : IsRoot(r) /\ k \in Group(r) /\ r \in sel  BY GroupOf
  <2>2. Id(k) \in Ids  BY <2>1, Grouped
  <2>3. hw.cnt[Id(k)] \in Nat
    <3>1. 2^cntWidth \in Nat \ {0}
      <4>1. cntWidth \in Nat  BY HwloopNestAssumption DEF Typed, PlanInv
      <4> QED  BY <4>1, PowerPositive
    <3>2. hw.cnt \in [Ids -> 0 .. 2^cntWidth - 1]  BY DEF Typed, Registered
    <3> QED  BY <2>2, <3>1, <3>2
  <2>4. b(k) \in 0 .. 2^Width - 1  BY <1>1, <1>2, BoundRange
  <2> QED  BY <1>1, <2>2, <2>3, <2>4 DEF WellFormed
\* A step that leaves the counter and the variable of a loop alone.
<1>4. ASSUME NEW k \in sel, Remains(k, hw'.cnt[Id(k)]), iv'[k] = iv[k], pc' # <<"back", k>>
      PROVE  /\ hw'.cnt[Id(k)] >= 1 /\ iv'[k] + hw'.cnt[Id(k)] * s(k) = b(k)
             /\ pc' # <<"back", k>>
  BY <1>4 DEF Remains
<1>5. ASSUME NEW k \in sel
      PROVE  \/ /\ hw'.cnt[Id(k)] >= 1 /\ iv'[k] + hw'.cnt[Id(k)] * s(k) = b(k)
                /\ pc' # <<"back", k>>
             \/ /\ hw'.cnt[Id(k)] >= 1 /\ iv'[k] + (hw'.cnt[Id(k)] - 1) * s(k) = b(k)
                /\ pc' = <<"back", k>>
             \/ pc' # <<"inner", k>> /\ ~Within(prog, pc', k) /\ pc' # <<"back", k>>
  <2> DEFINE c == hw.cnt[Id(k)]
  <2>1. CASE Within(prog, pc, k) /\ pc # <<"back", k>>
    <3>1. Remains(k, c)  BY <2>1 DEF Counted
    <3>2. hw'.cnt[Id(k)] = c /\ (iv'[k] = iv[k] \/ (k = l /\ Step(k)))
      BY <2>1, CounterKept
    <3>3. CASE k = l /\ Step(k)
      <4>1. pc' = <<"back", k>> /\ iv' = [iv EXCEPT ![k] = Word(iv[k] + s(k), Width)]
        BY <3>3 DEF Step, Plain
      <4>2. iv'[k] = Word(iv[k] + s(k), Width)  BY <1>1, <4>1
      <4>3. c \in Nat /\ c >= 1 /\ iv[k] + c * s(k) = b(k)  BY <1>3, <3>1 DEF Remains
      <4>4. iv[k] + s(k) \in 0 .. 2^Width - 1 /\ iv[k] + s(k) + (c - 1) * s(k) = b(k)
        <5> DEFINE t == 2^Width - 1
                   x == iv[k]
        <5>1. t \in Nat /\ x \in 0 .. t /\ b(k) \in 0 .. t /\ s(k) \in Int /\ s(k) # 0
          BY <1>2, <1>3
        <5>2. x + c * s(k) = b(k)  BY <4>3
        <5> HIDE DEF t, x, b, s, c
        <5>3. x + s(k) \in 0 .. t /\ (x + s(k)) + (c - 1) * s(k) = b(k)
          BY <4>3, <5>1, <5>2, OneStep
        <5> QED  BY <5>3 DEF t, x
      <4>5. iv'[k] = iv[k] + s(k)  BY <1>2, <4>2, <4>4, WordOfSmall
      <4> HIDE DEF c
      <4> QED  BY <3>2, <4>1, <4>3, <4>4, <4>5
    <3>4. CASE ~(k = l /\ Step(k))
      <4>1. iv'[k] = iv[k]  BY <3>2, <3>4
      <4>2. pc' # <<"back", k>>  BY <3>4, PointsReached
      <4> QED  BY <1>4, <3>1, <3>2, <4>1, <4>2
    <3> QED  BY <3>3, <3>4
  <2>2. CASE pc = <<"back", k>>
    <3>1. l = k /\ BackHw(k)
      <4>1. pc[2] = k /\ pc[1] = "back"  BY <2>2
      <4> QED  BY <2>2, <4>1, DoesAt
    <3>2. pc' = (IF Wraps(hw, pc) THEN <<"head", k>> ELSE Leave(k))
          /\ iv' = iv /\ hw' = Execute(prog, hw, pc)
      BY <3>1 DEF BackHw, Plain
    <3>3. c >= 1 /\ iv[k] + (c - 1) * s(k) = b(k)  BY <2>2 DEF Counted
    <3>4. CASE Wraps(hw, pc)
      <4>1. c > 1  BY <2>2, <3>4, AtBack
      <4>2. Within(prog, pc, k)  BY <2>2, <3>1, WithinPoint
      <4>3. pc # <<"head", k>>  BY <2>2
      <4>4. hw.fsm = "DECODE_HWLOOP"  BY <4>1, <4>2, <4>3 DEF Ready
      <4>5. c \in Nat /\ c # 0 /\ Id(k) \in Ids  BY <1>3, <4>1
      <4>6. Counters(hw, pc) = [j \in Ids |-> IF j = Id(k) THEN hw.cnt[Id(k)] - 1
                                 ELSE IF Id(k) < j THEN hw.shadow[j] ELSE hw.cnt[j]]
        BY <2>2, <4>4, <4>5, AtBack
      <4>7. hw'.cnt = Counters(hw, pc)  BY <3>2 DEF Execute, Typed, Registered
      <4>8. hw'.cnt[Id(k)] = c - 1  BY <4>5, <4>6, <4>7
      <4>9. pc' # <<"back", k>>  BY <3>2, <3>4
      <4>10. c - 1 >= 1  BY <4>1, <4>5
      <4> HIDE DEF c
      <4> QED  BY <3>2, <3>3, <4>8, <4>9, <4>10
    <3>5. CASE ~Wraps(hw, pc)
      <4>1. k \in Loops(prog) /\ k # 0 /\ k \notin Ancestors(prog, k)  BY <1>1, <3>1, ParentOf
      <4>2. ~Within(prog, After(prog, k), k)  BY <1>1, <4>1, WithinAfter
      <4>3. ~Within(prog, <<"clear", k>>, k)  BY <4>1, WithinPoint
      <4>4. ~Within(prog, pc', k)  BY <3>2, <3>5, <4>2, <4>3 DEF Leave
      <4>5. pc' # <<"inner", k>> /\ pc' # <<"back", k>>
        <5>1. pc' = <<"inner", k>> => pc = <<"count", k>>
          <6>1. pc' = <<"inner", k>> => SetupCount(k)  BY PointsReached
          <6> QED  BY <6>1 DEF SetupCount
        <5>2. pc' = <<"back", k>> => pc = <<"step", k>>
          <6>1. pc' = <<"back", k>> => Step(k)  BY PointsReached
          <6> QED  BY <6>1 DEF Step
        <5> QED  BY <2>2, <5>1, <5>2
      <4> QED  BY <4>4, <4>5
    <3> QED  BY <3>4, <3>5
  <2>3. CASE ~Within(prog, pc, k)
    <3>1. pc' # <<"back", k>>
      <4>1. pc' = <<"back", k>> => k = l /\ pc = <<"step", k>>
        <5>1. pc' = <<"back", k>> => k = l /\ Step(k)  BY PointsReached
        <5> QED  BY <5>1 DEF Step
      <4> QED  BY <2>3, <4>1, WithinPoint
    <3>2. CASE SetupCount(l) /\ l = k
      <4>1. Remains(k, hw'.cnt[Id(k)]) /\ iv' = iv  BY <3>2, CountWritten
      <4> QED  BY <1>4, <3>1, <4>1
    <3>3. CASE InnerBounds(l) /\ l = k
      <4>1. pc = <<"inner", k>> /\ iv' = iv  BY <3>3 DEF InnerBounds, Setup
      <4>2. IsRoot(k)
        <5>1. pc[1] = "inner" /\ pc[2] = k /\ pc # Done  BY <4>1 DEF Done
        <5> QED  BY <5>1 DEF Typed, Placed
      <4>3. Remains(k, c)  BY <4>1 DEF Counted
      <4>4. hw'.cnt[Id(k)] = c
        <5> DEFINE owner(i) == {j \in InnerOf(k) : Id(j) = i}
        <5>1. hw'.cnt = [i \in Ids |-> IF owner(i) = {} THEN hw.cnt[i] ELSE 0]
          BY <3>3 DEF InnerBounds, Setup, Typed, Registered
        <5>2. owner(Id(k)) = {} /\ Id(k) \in Ids  BY <4>2, Grouped
        <5> HIDE DEF owner
        <5> QED  BY <5>1, <5>2
      <4> QED  BY <1>4, <3>1, <4>1, <4>3, <4>4
    <3>4. CASE ~(SetupCount(l) /\ l = k) /\ ~(InnerBounds(l) /\ l = k)
      <4>1. pc' # <<"inner", k>>  BY <3>4, PointsReached
      <4>2. ~Within(prog, pc', k)
        <5> SUFFICES ASSUME Within(prog, pc', k) PROVE FALSE
          OBVIOUS
        <5>1. l = k /\ (pc = <<"inner", k>> \/ pc = <<"count", k>>)  BY <2>3, WithinStep
        <5>2. pc[1] = "inner" \/ pc[1] = "count"  BY <5>1
        <5> QED  BY <3>4, <5>1, <5>2, DoesAt
      <4> QED  BY <3>1, <4>1, <4>2
    <3> QED  BY <3>2, <3>3, <3>4
  <2> QED  BY <2>1, <2>2, <2>3
<1>6. ASSUME NEW k \in sel
      PROVE  /\ pc' = <<"inner", k>> \/ (Within(prog, pc', k) /\ pc' # <<"back", k>>) =>
                  hw'.cnt[Id(k)] >= 1 /\ iv'[k] + hw'.cnt[Id(k)] * s(k) = b(k)
             /\ pc' = <<"back", k>> =>
                  hw'.cnt[Id(k)] >= 1 /\ iv'[k] + (hw'.cnt[Id(k)] - 1) * s(k) = b(k)
  BY <1>5
<1> QED  BY <1>1, <1>6 DEF Counted, Remains

Measured == Typed /\ Owned /\ Started /\ Counted /\ Ready

LEMMA InitMeasured == Init => Measured
<1> SUFFICES ASSUME Init PROVE Measured
  OBVIOUS
<1>1. Typed /\ Owned  BY InitTyped, InitOwned
<1>2. WellFormed(prog) /\ pc = After(prog, 0)
  BY <1>1, HwloopNestAssumption DEF Init, Typed, PlanInv
<1>3. pc[1] \in {"done", "step", "pre"}
  <2>1. pc = Done \/ pc \in {"step", "pre"} \X Loops(prog)  BY <1>2, WithinAfter
  <2>2. Done[1] = "done"  BY DEF Done
  <2> QED  BY <2>1, <2>2
<1>4. ASSUME NEW k \in sel
      PROVE  /\ ~Within(prog, pc, k)
             /\ pc \notin {<<"bounds", k>>, <<"count", k>>, <<"inner", k>>, <<"back", k>>}
  <2>1. ~Within(prog, pc, k)  BY <1>2, WithinAfter
  <2>2. <<"bounds", k>>[1] = "bounds" /\ <<"count", k>>[1] = "count"
        /\ <<"inner", k>>[1] = "inner" /\ <<"back", k>>[1] = "back"
    OBVIOUS
  <2> QED  BY <1>3, <2>1, <2>2
<1> QED  BY <1>1, <1>4 DEF Measured, Started, Counted, Ready

LEMMA NextMeasured ==
  ASSUME Apart, RegularLoops
  PROVE  Measured /\ WholeSteps /\ [Next]_vars => Measured'
<1> SUFFICES ASSUME Measured, WholeSteps, [Next]_vars PROVE Measured'
  OBVIOUS
<1>1. Typed'  BY NextTyped DEF Measured
<1>2. CASE UNCHANGED vars
  BY <1>1, <1>2 DEF vars, Measured, Owned, IdsOwn, GroupsOwn, Quiet, Cleared, Live, InRegion, Id,
                    IsRoot, Group, Ids, Started, Counted, Ready, Remains
<1>3. ASSUME NEW l \in Loops(prog), Does(l) PROVE Measured'
  <2>1. Owned'  BY <1>3, BoundsOwned, CountersOwned DEF Measured, Owned
  <2>2. Started' /\ Counted' /\ Ready'
    BY <1>3, StartedKept, CountedKept, ReadyKept DEF Measured
  <2> QED  BY <1>1, <2>1, <2>2 DEF Measured
<1>4. Next => \E l \in Loops(prog) : Does(l)  BY DEF Next, Does
<1> QED  BY <1>2, <1>3, <1>4

LEMMA MeasuredInvariant ==
  Apart /\ RegularLoops => (Spec /\ []WholeSteps => []Measured)
<1> SUFFICES ASSUME Apart, RegularLoops PROVE Spec /\ []WholeSteps => []Measured
  OBVIOUS
<1>1. Measured /\ WholeSteps /\ [Next]_vars => Measured'  BY NextMeasured
<1> QED  BY <1>1, InitMeasured, PTL DEF Spec

\* At the end of every iteration the counter of a configured loop holds what the
\* original back branch would still grant: for loops that reach their bound in
\* whole steps, whichever of its ways the generator counts them in.
LEMMA DistanceInWholeSteps ==
  Apart /\ RegularLoops => (Spec /\ []WholeSteps => []CounterIsDistance)
<1> SUFFICES ASSUME Apart, RegularLoops PROVE Spec /\ []WholeSteps => []CounterIsDistance
  OBVIOUS
<1>1. Measured => CounterIsDistance
  <2> SUFFICES ASSUME Measured, NEW l \in sel, pc = <<"back", l>>
               PROVE  LET n     == hw.cnt[Id(l)] - 1
                          at(k) == Word(iv[l] + k * prog.step[l], Width)
                          bound == BoundValue(prog, l, Width)
                      IN  n >= 0 /\ at(n) = bound /\ \A k \in 0 .. n - 1 : at(k) # bound
    BY DEF CounterIsDistance
  <2> DEFINE n == hw.cnt[Id(l)] - 1
             x == iv[l]
             s == prog.step[l]
             b == BoundValue(prog, l, Width)
             t == 2^Width - 1
  <2>1. Typed /\ WellFormed(prog) /\ l \in Loops(prog) /\ Width \in Nat /\ cntWidth \in Nat
    BY HwloopNestAssumption DEF Measured, Typed, PlanInv
  <2>2. 2^Width \in Nat \ {0} /\ 2^cntWidth \in Nat \ {0}  BY <2>1, PowerPositive
  <2>3. x \in 0 .. t /\ b \in 0 .. t /\ s \in Int /\ s # 0 /\ t \in Nat
    <3>1. x \in 0 .. t  BY <2>1 DEF Typed
    <3>2. b \in 0 .. t  BY <2>1, BoundRange
    <3>3. s \in Int \ {0}  BY <2>1 DEF WellFormed
    <3> QED  BY <2>2, <3>1, <3>2, <3>3
  <2>4. n \in Nat /\ x + n * s = b
    <3>1. Id(l) \in Ids
      <4>1. PICK r : IsRoot(r) /\ l \in Group(r) /\ r \in sel  BY <2>1, GroupOf
      <4> QED  BY <2>1, <4>1, Grouped
    <3>2. hw.cnt \in [Ids -> 0 .. 2^cntWidth - 1]  BY <2>1 DEF Typed, Registered
    <3>3. hw.cnt[Id(l)] >= 1 /\ hw.cnt[Id(l)] \in Nat  BY <2>2, <3>1, <3>2 DEF Measured, Counted
    <3>4. x + n * s = b  BY DEF Measured, Counted
    <3> QED  BY <3>3, <3>4
  <2>5. b \in 0 .. 2^Width - 1 /\ Word(b, Width) = b  BY <2>1, <2>3, WordOfSmall
  <2>6. ASSUME NEW k \in 0 .. n - 1 PROVE Word(x + k * s, Width) # b
    <3>1. x + k * s \in 0 .. t /\ x + k * s # b
      <4> HIDE DEF x, s, b, t, n
      <4> QED  BY <2>3, <2>4, Between
    <3>2. Word(x + k * s, Width) = x + k * s  BY <2>1, <3>1, WordOfSmall
    <3> QED  BY <3>1, <3>2
  <2>7. n >= 0 /\ Word(x + n * s, Width) = b  BY <2>4, <2>5
  <2> QED  BY <2>6, <2>7
<1> QED  BY <1>1, MeasuredInvariant, PTL

-----------------------------------------------------------------------------
(***************************************************************************)
(* The patched program does what the original program does.                *)
(***************************************************************************)
\* The last instruction of a configured loop goes back exactly when the back
\* branch would have.
LEMMA WrapsAsBranch ==
  ASSUME Measured, NEW l \in sel, pc = <<"back", l>>
  PROVE  Wraps(hw, pc) <=> iv[l] # BoundValue(prog, l, Width)
<1> DEFINE n == hw.cnt[Id(l)] - 1
           x == iv[l]
           s == prog.step[l]
           b == BoundValue(prog, l, Width)
<1>1. Typed /\ Owned /\ WellFormed(prog) /\ l \in Loops(prog) /\ Width \in Nat /\ cntWidth \in Nat
  BY HwloopNestAssumption DEF Measured, Typed, PlanInv
<1>2. 2^Width \in Nat \ {0} /\ 2^cntWidth \in Nat \ {0}  BY <1>1, PowerPositive
<1>3. x \in Int /\ b \in Int /\ s \in Int /\ s # 0
  <2>1. x \in 0 .. 2^Width - 1  BY <1>1 DEF Typed
  <2>2. b \in 0 .. 2^Width - 1  BY <1>1, BoundRange
  <2>3. s \in Int \ {0}  BY <1>1 DEF WellFormed
  <2> QED  BY <1>2, <2>1, <2>2, <2>3
<1>4. n \in Nat /\ x + n * s = b
  <2>1. Id(l) \in Ids  BY <1>1, EndIsOwn
  <2>2. hw.cnt \in [Ids -> 0 .. 2^cntWidth - 1]  BY <1>1 DEF Typed, Registered
  <2>3. hw.cnt[Id(l)] >= 1 /\ hw.cnt[Id(l)] \in Nat  BY <1>2, <2>1, <2>2 DEF Measured, Counted
  <2>4. x + n * s = b  BY DEF Measured, Counted
  <2> QED  BY <2>3, <2>4
<1>5. Wraps(hw, pc) <=> n # 0
  <2>1. Wraps(hw, pc) <=> hw.cnt[Id(l)] > 1  BY <1>1, AtBack
  <2>2. hw.cnt[Id(l)] = n + 1
    <3>1. hw.cnt[Id(l)] \in Int
      <4>1. Id(l) \in Ids  BY <1>1, EndIsOwn
      <4>2. hw.cnt \in [Ids -> 0 .. 2^cntWidth - 1]  BY <1>1 DEF Typed, Registered
      <4> QED  BY <1>2, <4>1, <4>2
    <3> QED  BY <3>1
  <2> HIDE DEF n
  <2> QED  BY <1>4, <2>1, <2>2
<1>6. n # 0 <=> x # b
  <2> HIDE DEF n, x, s, b
  <2>1. n * s = 0 <=> n = 0  BY <1>3, <1>4, Z3
  <2>2. n * s \in Int  BY <1>3, <1>4
  <2> QED  BY <1>3, <1>4, <2>1, <2>2
<1> QED  BY <1>5, <1>6

\* LoopNest speaks of the same points as HwloopNest.
LEMMA SameShape ==
  ASSUME NEW p, NEW l, NEW v, NEW w
  PROVE  /\ Original!Loops(p) = Loops(p)
         /\ Original!After(p, l) = After(p, l)
         /\ Original!Inner(p, l) = Inner(p, l)
         /\ Original!Word(v, w) = Word(v, w)
         /\ Original!BoundValue(p, l, w) = BoundValue(p, l, w)
         /\ Original!InitValue(p, l, v, w) = InitValue(p, l, v, w)
<1>1. Original!Loops(p) = Loops(p)  BY DEF Loops, Original!Loops
<1>2. \A c : Original!Children(p, c) = Children(p, c)
  BY DEF Children, Original!Children, Loops, Original!Loops
<1>3. \A S : Original!Min(S) = Min(S)  BY DEF Min, Original!Min
<1>4. Original!After(p, l) = After(p, l)
  BY <1>2, <1>3 DEF After, Original!After, Done, Original!Done
<1>5. Original!Inner(p, l) = Inner(p, l)  BY <1>2, <1>3 DEF Inner, Original!Inner
<1>6. \A x : Original!Word(x, w) = Word(x, w)  BY DEF Word, Original!Word
<1>7. Original!BoundValue(p, l, w) = BoundValue(p, l, w)
  BY <1>6 DEF BoundValue, Original!BoundValue
<1>8. Original!InitValue(p, l, v, w) = InitValue(p, l, v, w)
  BY <1>6 DEF InitValue, Original!InitValue
<1> QED  BY <1>1, <1>4, <1>5, <1>6, <1>7, <1>8

LEMMA InitOriginal == Init => Original!Init
<1> SUFFICES ASSUME Init PROVE Original!Init
  OBVIOUS
<1>1. WellFormed(prog) /\ pc = After(prog, 0)  BY HwloopNestAssumption DEF Init
<1>2. OriginalPc = pc
  <2>1. pc = Done \/ pc \in {"step", "pre"} \X Loops(prog)  BY <1>1, WithinAfter
  <2>2. pc[1] \in {"done", "step", "pre"}
    <3>1. Done[1] = "done"  BY DEF Done
    <3> QED  BY <2>1, <3>1
  <2> QED  BY <2>2 DEF OriginalPc
<1>3. prog \in Programs /\ iv = [l \in Loops(prog) |-> 0]  BY DEF Init
<1> QED  BY <1>1, <1>2, <1>3, SameShape DEF Original!Init

\* A step of the patched program is a step of the original program, or nothing.
LEMMA StepOriginal ==
  ASSUME Measured, [Next]_vars
  PROVE  [Original!Next]_(Original!vars)
<1>1. Typed /\ WellFormed(prog)  BY HwloopNestAssumption DEF Measured, Typed, PlanInv
<1>2. CASE UNCHANGED vars
  BY <1>2 DEF vars, Original!vars, OriginalPc
<1>3. ASSUME NEW l \in Loops(prog), Does(l) PROVE [Original!Next]_(Original!vars)
  <2> DEFINE at(q) == CASE q[1] \in {"bounds", "count", "inner"} -> <<"head", q[2]>>
                        [] q[1] = "clear"                        -> After(prog, q[2])
                        [] OTHER                                 -> q
  <2>1. prog' = prog  BY <1>3, StepFixed
  <2>2. OriginalPc = at(pc)  BY DEF OriginalPc
  <2>3. OriginalPc' = at(pc')  BY <2>1 DEF OriginalPc
  <2>4. After(prog, l)[1] \in {"done", "step", "pre"} /\ Inner(prog, l)[1] \in {"step", "pre"}
    <3>1. Inner(prog, l) \in {"step", "pre"} \X Loops(prog)  BY <1>1, WithinInner
    <3>2. After(prog, l) = Done \/ After(prog, l) \in {"step", "pre"} \X Loops(prog)
      BY <1>1, WithinAfter
    <3>3. Done[1] = "done"  BY DEF Done
    <3> QED  BY <3>1, <3>2, <3>3
  <2>5. /\ at(After(prog, l)) = After(prog, l) /\ at(Inner(prog, l)) = Inner(prog, l)
        /\ at(<<"clear", l>>) = After(prog, l)
        /\ at(<<"bounds", l>>) = <<"head", l>> /\ at(<<"count", l>>) = <<"head", l>>
        /\ at(<<"inner", l>>) = <<"head", l>> /\ at(<<"head", l>>) = <<"head", l>>
        /\ at(<<"pre", l>>) = <<"pre", l>> /\ at(<<"step", l>>) = <<"step", l>>
        /\ at(<<"back", l>>) = <<"back", l>>
    BY <2>4
  <2> HIDE DEF at
  <2>6. /\ l \in Original!Loops(prog)
        /\ Original!Pre(l) \/ Original!Head(l) \/ Original!Step(l) \/ Original!Back(l)
             => Original!Next
    <3>1. l \in Original!Loops(prog)  BY SameShape
    <3> QED  BY <3>1 DEF Original!Next
  <2>7. CASE Pre(l)
    <3>1. /\ pc = <<"pre", l>> /\ pc' = Entry(l)
          /\ iv' = [iv EXCEPT ![l] = InitValue(prog, l, iv, Width)]
      BY <2>7 DEF Pre, Plain
    <3>2. at(pc') = <<"head", l>>  BY <2>5, <3>1 DEF Entry
    <3>3. Original!Pre(l)
      BY <2>1, <2>2, <2>3, <2>5, <3>1, <3>2, SameShape DEF Original!Pre, Original!Go
    <3> QED  BY <2>6, <3>3
  <2>8. CASE RootBounds(l) \/ SetupCount(l) \/ InnerBounds(l) \/ ClearInner(l)
    <3>1. /\ iv' = iv
          /\ \/ pc \in {<<"bounds", l>>, <<"count", l>>, <<"inner", l>>}
                /\ pc' \in {<<"count", l>>, <<"inner", l>>, <<"head", l>>}
             \/ pc = <<"clear", l>> /\ pc' = After(prog, l)
      BY <2>8 DEF RootBounds, SetupCount, InnerBounds, ClearInner, Setup
    <3>2. at(pc') = at(pc)  BY <2>5, <3>1
    <3> QED  BY <2>1, <2>2, <2>3, <3>1, <3>2 DEF Original!vars
  <2>9. CASE Head(l)
    <3>1. pc = <<"head", l>> /\ pc' = Inner(prog, l) /\ iv' = iv  BY <2>9 DEF Head, Plain
    <3>2. Original!Head(l)
      BY <2>1, <2>2, <2>3, <2>5, <3>1, SameShape DEF Original!Head, Original!Go
    <3> QED  BY <2>6, <3>2
  <2>10. CASE Step(l)
    <3>1. /\ pc = <<"step", l>> /\ pc' = <<"back", l>>
          /\ iv' = [iv EXCEPT ![l] = Word(@ + prog.step[l], Width)]
      BY <2>10 DEF Step, Plain
    <3>2. \A x : Original!Word(x, Width) = Word(x, Width)  BY SameShape
    <3>3. Original!Step(l)
      BY <2>1, <2>2, <2>3, <2>5, <3>1, <3>2 DEF Original!Step, Original!Go
    <3> QED  BY <2>6, <3>3
  <2>11. CASE BackHw(l)
    <3>1. /\ pc = <<"back", l>> /\ l \in sel /\ iv' = iv
          /\ pc' = IF Wraps(hw, pc) THEN <<"head", l>> ELSE Leave(l)
      BY <2>11 DEF BackHw, Plain
    <3>2. Wraps(hw, pc) <=> iv[l] # BoundValue(prog, l, Width)  BY <3>1, WrapsAsBranch
    <3>3. at(Leave(l)) = After(prog, l)  BY <2>5 DEF Leave
    <3>4. Original!Back(l)
      BY <2>1, <2>2, <2>3, <2>5, <3>1, <3>2, <3>3, SameShape DEF Original!Back, Original!Go
    <3> QED  BY <2>6, <3>4
  <2>12. CASE BackSw(l)
    <3>1. /\ pc = <<"back", l>> /\ iv' = iv
          /\ pc' = IF iv[l] # BoundValue(prog, l, Width) THEN <<"head", l>> ELSE After(prog, l)
      BY <2>12 DEF BackSw, Plain
    <3>2. Original!Back(l)
      BY <2>1, <2>2, <2>3, <2>5, <3>1, SameShape DEF Original!Back, Original!Go
    <3> QED  BY <2>6, <3>2
  <2> QED  BY <1>3, <2>7, <2>8, <2>9, <2>10, <2>11, <2>12 DEF Does
<1>4. Next => \E l \in Loops(prog) : Does(l)  BY DEF Next, Does
<1> QED  BY <1>2, <1>3, <1>4

\* The patched program implements the program the compiler wrote: with the
\* setup points left out, it runs the same bodies, in the same order and as
\* often, whatever the nests, the loops configured and the ids they share.
LEMMA ImplementsInWholeSteps ==
  Apart /\ RegularLoops => (Spec /\ []WholeSteps => ImplementsOriginal)
<1> SUFFICES ASSUME Apart, RegularLoops PROVE Spec /\ []WholeSteps => ImplementsOriginal
  OBVIOUS
<1>1. Spec /\ []WholeSteps => []Measured  BY MeasuredInvariant
<1>2. Measured /\ [Next]_vars => [Original!Next]_(Original!vars)  BY StepOriginal
<1> QED  BY <1>1, <1>2, InitOriginal, PTL DEF Spec, ImplementsOriginal, Original!Spec

-----------------------------------------------------------------------------
(***************************************************************************)
(* Programs whose loops all take whole steps.                              *)
(***************************************************************************)
\* R gives the values that the variable of a loop has while its body runs.
Starts(p, R, l) ==
  IF p.init[l].kind = "outer" THEN R[p.par[l]]
  ELSE {InitValue(p, l, [k \in Loops(p) |-> 0], Width)}

\* From each of its starts the loop reaches its bound in m steps, without
\* passing the end of the number range, and the counter is wide enough for m
\* whichever loops are configured.
WholeLoop(p, R, l) ==
  \A x \in Starts(p, R, l) : \E m \in Nat \ {0} :
    /\ x + m * p.step[l] = BoundValue(p, l, Width)
    /\ \A k \in 0 .. m - 1 : x + k * p.step[l] \in R[l]
    /\ \A h \in HwLoops : \A s \in Plans(p, h) : l \in s =>
         m < 2^CounterWidth(p, s, MarginBits, LeastWidth, DefaultWidth, Width)

Covers(p, R) == \A l \in Loops(p) : WholeLoop(p, R, l)

WholePrograms == \A p \in Programs : \E R : Covers(p, R)

Values == CHOOSE R : Covers(prog, R)

\* What generate() settled stays.
Planned ==
  \E h \in HwLoops :
    /\ sel \in Plans(prog, h)
    /\ cntWidth = CounterWidth(prog, sel, MarginBits, LeastWidth, DefaultWidth, Width)

\* n more steps, through values of the loop, take l to its bound.
Left(l, n) ==
  /\ iv[l] + n * prog.step[l] = BoundValue(prog, l, Width)
  /\ \A k \in 0 .. n - 1 : iv[l] + k * prog.step[l] \in Values[l]

\* Every loop, configured or not, is on its way to its bound.
Ranged ==
  \A l \in Loops(prog) :
    /\ pc \in {<<"bounds", l>>, <<"count", l>>} =>
         \E n \in Nat \ {0} : Left(l, n) /\ (l \in sel => n < 2^cntWidth)
    /\ pc = <<"inner", l>> \/ (Within(prog, pc, l) /\ pc # <<"back", l>>) =>
         \E n \in Nat \ {0} : Left(l, n)
    /\ pc = <<"back", l>> => \E n \in Nat : Left(l, n)

LEMMA RangedIsWhole ==
  ASSUME Typed, Ranged
  PROVE  WholeSteps
<1> SUFFICES ASSUME NEW l \in sel, pc = <<"count", l>>
             PROVE  \E m \in 1 .. 2^cntWidth - 1 :
                      iv[l] + m * prog.step[l] = BoundValue(prog, l, Width)
  BY DEF WholeSteps
<1>1. l \in Loops(prog) /\ cntWidth \in Nat  BY HwloopNestAssumption DEF Typed, PlanInv
<1>2. PICK n \in Nat \ {0} : Left(l, n) /\ n < 2^cntWidth  BY <1>1 DEF Ranged
<1>3. n \in 1 .. 2^cntWidth - 1
  <2> DEFINE t == 2^cntWidth
  <2>1. t \in Nat  BY <1>1, PowerPositive
  <2>2. n < t  BY <1>2
  <2> HIDE DEF t
  <2>3. n \in 1 .. t - 1  BY <2>1, <2>2
  <2> QED  BY <2>3 DEF t
<1> QED  BY <1>2, <1>3 DEF Left

\* A loop is entered at its label, from its setup or, unconfigured, from the
\* initialisation of its variable.
LEMMA Entered ==
  ASSUME Typed, NEW l \in Loops(prog), Does(l), NEW k \in Loops(prog),
         Within(prog, pc', k), ~Within(prog, pc, k)
  PROVE  k = l /\ pc' = <<"head", k>> /\ (Pre(k) \/ SetupCount(k) \/ InnerBounds(k))
<1>1. WellFormed(prog) /\ l # 0
  <2>1. WellFormed(prog)  BY HwloopNestAssumption DEF Typed, PlanInv
  <2> QED  BY <2>1, ParentOf
<1>2. \A kind \in {"head", "step", "back"} :
        Within(prog, <<kind, l>>, k) <=> k = l \/ k \in Ancestors(prog, l)
  BY WithinPoint
<1>3. \A kind \in {"pre", "bounds", "count", "inner", "clear"} :
        Within(prog, <<kind, l>>, k) <=> k \in Ancestors(prog, l)
  BY WithinPoint
<1>4. Within(prog, After(prog, l), k) <=> k \in Ancestors(prog, l)  BY <1>1, WithinAfter
<1>5. Within(prog, Inner(prog, l), k) <=> k = l \/ k \in Ancestors(prog, l)
  BY <1>1, WithinInner
<1>6. CASE Pre(l)
  <2>1. pc = <<"pre", l>> /\ (pc' = <<"head", l>> \/ pc' = <<"bounds", l>> \/ pc' = <<"count", l>>)
    BY <1>6 DEF Pre, Plain, Entry
  <2> QED  BY <1>2, <1>3, <1>6, <2>1
<1>7. CASE RootBounds(l)
  <2>1. pc = <<"bounds", l>> /\ pc' = <<"count", l>>  BY <1>7 DEF RootBounds, Setup
  <2> QED  BY <1>3, <2>1
<1>8. CASE SetupCount(l)
  <2>1. pc = <<"count", l>> /\ (pc' = <<"inner", l>> \/ pc' = <<"head", l>>)
    BY <1>8 DEF SetupCount, Setup
  <2> QED  BY <1>2, <1>3, <1>8, <2>1
<1>9. CASE InnerBounds(l)
  <2>1. pc = <<"inner", l>> /\ pc' = <<"head", l>>  BY <1>9 DEF InnerBounds, Setup
  <2> QED  BY <1>2, <1>3, <1>9, <2>1
<1>10. CASE Head(l) \/ Step(l) \/ BackHw(l) \/ BackSw(l)
  <2>1. /\ pc \in {<<"head", l>>, <<"step", l>>, <<"back", l>>}
        /\ pc' \in {Inner(prog, l), <<"back", l>>, <<"head", l>>, Leave(l), After(prog, l)}
    BY <1>10 DEF Head, Step, BackHw, BackSw, Plain
  <2>2. Within(prog, Leave(l), k) => k \in Ancestors(prog, l)
    <3>1. Leave(l) = <<"clear", l>> \/ Leave(l) = After(prog, l)  BY DEF Leave
    <3> QED  BY <1>3, <1>4, <3>1
  <2> QED  BY <1>2, <1>4, <1>5, <2>1, <2>2
<1>11. CASE ClearInner(l)
  <2>1. pc = <<"clear", l>> /\ pc' = After(prog, l)  BY <1>11 DEF ClearInner, Setup
  <2> QED  BY <1>3, <1>4, <2>1
<1> QED  BY <1>6, <1>7, <1>8, <1>9, <1>10, <1>11 DEF Does

\* Where a loop starts from.
LEMMA StartOf ==
  ASSUME Typed, WholePrograms, Planned, Ranged, NEW k \in Loops(prog), Pre(k)
  PROVE  \E m \in Nat \ {0} :
           /\ iv'[k] + m * prog.step[k] = BoundValue(prog, k, Width)
           /\ \A j \in 0 .. m - 1 : iv'[k] + j * prog.step[k] \in Values[k]
           /\ k \in sel => m < 2^cntWidth
<1>1. WellFormed(prog) /\ prog \in Programs /\ iv \in [Loops(prog) -> 0 .. 2^Width - 1]
  BY HwloopNestAssumption DEF Typed, PlanInv
<1>2. pc = <<"pre", k>> /\ iv'[k] = InitValue(prog, k, iv, Width)  BY <1>1 DEF Pre
<1>3. Covers(prog, Values)  BY <1>1 DEF WholePrograms, Values
<1>4. iv'[k] \in Starts(prog, Values, k)
  <2>1. CASE prog.init[k].kind = "outer"
    <3> DEFINE a == prog.par[k]
    <3>1. a \in Loops(prog) /\ a \in Ancestors(prog, k)
      <4>1. a # 0  BY <1>1, <2>1 DEF WellFormed
      <4> QED  BY <1>1, <4>1, ParentOf
    <3>2. Within(prog, pc, a) /\ pc # <<"back", a>>  BY <1>2, <3>1, WithinPoint
    <3>3. PICK n \in Nat \ {0} : Left(a, n)  BY <3>1, <3>2 DEF Ranged
    <3>4. iv[a] \in Values[a]
      <4>1. 0 \in 0 .. n - 1  OBVIOUS
      <4>2. iv[a] + 0 * prog.step[a] \in Values[a]  BY <3>3, <4>1 DEF Left
      <4>3. iv[a] \in Int /\ prog.step[a] \in Int
        <5>1. 2^Width \in Nat \ {0}  BY PowerPositive, HwloopNestAssumption
        <5>2. iv[a] \in 0 .. 2^Width - 1  BY <1>1, <3>1
        <5>3. prog.step[a] \in Int  BY <1>1, <3>1 DEF WellFormed
        <5> QED  BY <5>1, <5>2, <5>3
      <4>4. iv[a] + 0 * prog.step[a] = iv[a]
        <5> DEFINE x == iv[a]
                   s == prog.step[a]
        <5>1. x \in Int /\ s \in Int  BY <4>3
        <5> HIDE DEF x, s
        <5>2. x + 0 * s = x  BY <5>1
        <5> QED  BY <5>2 DEF x, s
      <4> QED  BY <4>2, <4>4
    <3>5. InitValue(prog, k, iv, Width) = iv[a]  BY <2>1 DEF InitValue
    <3> QED  BY <1>2, <2>1, <3>4, <3>5 DEF Starts
  <2>2. CASE prog.init[k].kind # "outer"
    <3>1. InitValue(prog, k, iv, Width) = InitValue(prog, k, [j \in Loops(prog) |-> 0], Width)
      BY <2>2 DEF InitValue
    <3> QED  BY <1>2, <2>2, <3>1 DEF Starts
  <2> QED  BY <2>1, <2>2
<1>5. PICK m \in Nat \ {0} :
        /\ iv'[k] + m * prog.step[k] = BoundValue(prog, k, Width)
        /\ \A j \in 0 .. m - 1 : iv'[k] + j * prog.step[k] \in Values[k]
        /\ \A h \in HwLoops : \A s \in Plans(prog, h) : k \in s =>
             m < 2^CounterWidth(prog, s, MarginBits, LeastWidth, DefaultWidth, Width)
  BY <1>3, <1>4 DEF Covers, WholeLoop
<1>6. k \in sel => m < 2^cntWidth  BY <1>5 DEF Planned
<1> QED  BY <1>5, <1>6

LEMMA RangedKept ==
  ASSUME Measured, Apart, WholePrograms, Planned, Ranged, NEW l \in Loops(prog), Does(l)
  PROVE  Ranged'
<1>1. Typed /\ WellFormed(prog) /\ sel' = sel /\ prog' = prog /\ cntWidth' = cntWidth
      /\ iv \in [Loops(prog) -> 0 .. 2^Width - 1] /\ Width \in Nat /\ 2^Width \in Nat \ {0}
  BY StepFixed, PowerPositive, HwloopNestAssumption DEF Measured, Typed, PlanInv
<1>2. Values' = Values  BY <1>1 DEF Values
<1> DEFINE b(k) == BoundValue(prog, k, Width)
           s(k) == prog.step[k]
           Ahead(k, n) == /\ iv'[k] + n * s(k) = b(k)
                          /\ \A j \in 0 .. n - 1 : iv'[k] + j * s(k) \in Values[k]
<1>3. ASSUME NEW k \in Loops(prog), NEW n \in Nat, Left(k, n), iv'[k] = iv[k] PROVE Ahead(k, n)
  BY <1>3 DEF Left
<1>4. ASSUME NEW k \in Loops(prog), Pre(k)
      PROVE  \E n \in Nat \ {0} : Ahead(k, n) /\ (k \in sel => n < 2^cntWidth)
  BY <1>1, <1>4, StartOf
<1>5. ASSUME NEW k \in Loops(prog), pc' \in {<<"bounds", k>>, <<"count", k>>}
      PROVE  \E n \in Nat \ {0} : Ahead(k, n) /\ (k \in sel => n < 2^cntWidth)
  <2>1. Pre(k) \/ RootBounds(k)  BY <1>1, <1>5, PointsReached
  <2>2. CASE RootBounds(k)
    <3>1. pc = <<"bounds", k>> /\ iv' = iv  BY <2>2 DEF RootBounds, Setup
    <3>2. PICK n \in Nat \ {0} : Left(k, n) /\ (k \in sel => n < 2^cntWidth)
      BY <3>1 DEF Ranged
    <3>3. Ahead(k, n)  BY <1>3, <3>1, <3>2
    <3> QED  BY <3>2, <3>3
  <2> QED  BY <1>4, <2>1, <2>2
<1>6. ASSUME NEW k \in Loops(prog), SetupCount(k) \/ InnerBounds(k)
      PROVE  \E n \in Nat \ {0} : Ahead(k, n)
  <2>1. (pc = <<"count", k>> \/ pc = <<"inner", k>>) /\ iv' = iv
    BY <1>6 DEF SetupCount, InnerBounds, Setup
  <2>2. PICK n \in Nat \ {0} : Left(k, n)  BY <2>1 DEF Ranged
  <2>3. Ahead(k, n)  BY <1>3, <2>1, <2>2
  <2> QED  BY <2>3
<1>7. ASSUME NEW k \in Loops(prog), Within(prog, pc', k), pc' # <<"back", k>>
      PROVE  \E n \in Nat \ {0} : Ahead(k, n)
  <2>1. CASE ~Within(prog, pc, k)
    <3>1. Pre(k) \/ SetupCount(k) \/ InnerBounds(k)  BY <1>1, <1>7, <2>1, Entered
    <3> QED  BY <1>4, <1>6, <3>1
  <2>2. CASE Within(prog, pc, k) /\ pc # <<"back", k>>
    <3>1. iv'[k] = iv[k]
      <4>1. CASE Pre(l)
        <5>1. pc = <<"pre", l>> /\ iv' = [iv EXCEPT ![l] = InitValue(prog, l, iv, Width)]
          BY <4>1 DEF Pre
        <5>2. k # l
          <6>1. k \in Ancestors(prog, l)  BY <1>1, <2>2, <5>1, WithinPoint
          <6> QED  BY <1>1, <6>1, ParentOf
        <5> QED  BY <1>1, <5>1, <5>2
      <4>2. CASE Step(l)
        <5>1. pc' = <<"back", l>> /\ iv' = [iv EXCEPT ![l] = Word(iv[l] + prog.step[l], Width)]
          BY <4>2 DEF Step, Plain
        <5>2. k # l  BY <1>7, <5>1
        <5> QED  BY <1>1, <5>1, <5>2
      <4>3. CASE ~Pre(l) /\ ~Step(l)
        BY <4>3 DEF Does, RootBounds, SetupCount, InnerBounds, Head, BackHw, BackSw,
                    ClearInner, Setup
      <4> QED  BY <4>1, <4>2, <4>3
    <3>2. PICK n \in Nat \ {0} : Left(k, n)  BY <2>2 DEF Ranged
    <3>3. Ahead(k, n)  BY <1>3, <3>1, <3>2
    <3> QED  BY <3>3
  <2>3. CASE pc = <<"back", k>>
    <3>1. l = k /\ ((k \in sel /\ BackHw(k)) \/ BackSw(k))
      <4>1. pc[2] = k /\ pc[1] = "back"  BY <2>3
      <4> QED  BY <2>3, <4>1, DoesAt
    <3>2. ~Within(prog, After(prog, k), k) /\ ~Within(prog, Leave(k), k)
      <4>1. k # 0 /\ k \notin Ancestors(prog, k)  BY <1>1, ParentOf
      <4>2. ~Within(prog, After(prog, k), k)  BY <1>1, <4>1, WithinAfter
      <4>3. ~Within(prog, <<"clear", k>>, k)  BY <1>1, <4>1, WithinPoint
      <4> QED  BY <4>2, <4>3 DEF Leave
    <3>3. iv' = iv /\ iv[k] # b(k)
      <4>1. CASE BackSw(k)
        <5>1. iv' = iv /\ pc' = IF iv[k] # b(k) THEN <<"head", k>> ELSE After(prog, k)
          BY <4>1 DEF BackSw, Plain
        <5> QED  BY <1>7, <3>2, <5>1
      <4>2. CASE k \in sel /\ BackHw(k)
        <5>1. iv' = iv /\ pc' = IF Wraps(hw, pc) THEN <<"head", k>> ELSE Leave(k)
          BY <4>2 DEF BackHw, Plain
        <5>2. Wraps(hw, pc)  BY <1>7, <3>2, <5>1
        <5> QED  BY <2>3, <4>2, <5>1, <5>2, WrapsAsBranch
      <4> QED  BY <3>1, <4>1, <4>2
    <3>4. PICK n \in Nat : Left(k, n)  BY <2>3 DEF Ranged
    <3>5. n # 0
      <4> SUFFICES ASSUME n = 0 PROVE FALSE
        OBVIOUS
      <4> DEFINE x == iv[k]
      <4>1. x + 0 * s(k) = b(k)  BY <3>4 DEF Left
      <4>2. x \in Int /\ s(k) \in Int
        <5>1. x \in 0 .. 2^Width - 1  BY <1>1
        <5>2. s(k) \in Int  BY <1>1 DEF WellFormed
        <5> QED  BY <1>1, <5>1, <5>2
      <4>3. x # b(k)  BY <3>3
      <4> HIDE DEF x, s, b
      <4> QED  BY <4>1, <4>2, <4>3
    <3>6. Ahead(k, n)  BY <1>3, <3>3, <3>4
    <3> QED  BY <3>5, <3>6
  <2> QED  BY <2>1, <2>2, <2>3
<1>8. ASSUME NEW k \in Loops(prog), pc' = <<"back", k>>
      PROVE  \E n \in Nat : Ahead(k, n)
  <2>1. Step(k)  BY <1>1, <1>8, PointsReached
  <2>2. pc = <<"step", k>> /\ iv' = [iv EXCEPT ![k] = Word(iv[k] + s(k), Width)]
    BY <2>1 DEF Step
  <2>3. Within(prog, pc, k) /\ pc # <<"back", k>>  BY <1>1, <2>2, WithinPoint
  <2>4. PICK n \in Nat \ {0} : Left(k, n)  BY <2>3 DEF Ranged
  <2> DEFINE t == 2^Width - 1
             x == iv[k]
  <2>5. t \in Nat /\ x \in 0 .. t /\ b(k) \in 0 .. t /\ s(k) \in Int /\ s(k) # 0
    <3>1. b(k) \in 0 .. 2^Width - 1  BY <1>1, BoundRange
    <3>2. s(k) \in Int \ {0}  BY <1>1 DEF WellFormed
    <3> QED  BY <1>1, <3>1, <3>2
  <2>6. x + n * s(k) = b(k) /\ \A j \in 0 .. n - 1 : x + j * s(k) \in Values[k]
    BY <2>4 DEF Left
  <2>7. x + s(k) \in 0 .. t /\ (x + s(k)) + (n - 1) * s(k) = b(k)
    <3> HIDE DEF t, x, s, b
    <3>1. n \in Nat /\ n >= 1  OBVIOUS
    <3> QED  BY <2>5, <2>6, <3>1, OneStep
  <2>8. iv'[k] = x + s(k)
    <3>1. iv'[k] = Word(x + s(k), Width)  BY <1>1, <2>2
    <3> QED  BY <1>1, <2>7, <3>1, WordOfSmall
  <2>9. ASSUME NEW j \in 0 .. (n - 1) - 1 PROVE iv'[k] + j * s(k) \in Values[k]
    <3> HIDE DEF t, x, s, b
    <3>1. x \in Int  BY <2>5
    <3>2. (j + 1) * s(k) = j * s(k) + s(k)  BY <2>5, Z3
    <3>3. j * s(k) \in Int  BY <2>5
    <3>4. (x + s(k)) + j * s(k) = x + (j + 1) * s(k)  BY <2>5, <3>1, <3>2, <3>3
    <3>5. j + 1 \in 0 .. n - 1  OBVIOUS
    <3> QED  BY <2>6, <2>8, <3>4, <3>5
  <2>10. Ahead(k, n - 1) /\ n - 1 \in Nat
    <3>1. iv'[k] + (n - 1) * s(k) = b(k)  BY <2>7, <2>8
    <3> QED  BY <2>9, <3>1
  <2> HIDE DEF Ahead
  <2> QED  BY <2>10
<1>9. ASSUME NEW k \in Loops(prog), pc' = <<"inner", k>> PROVE \E n \in Nat \ {0} : Ahead(k, n)
  <2>1. SetupCount(k)  BY <1>1, <1>9, PointsReached
  <2> QED  BY <1>6, <2>1
<1> QED  BY <1>1, <1>2, <1>5, <1>7, <1>8, <1>9 DEF Ranged, Left

LEMMA WholeInvariant ==
  Apart /\ RegularLoops /\ WholePrograms => (Spec => []WholeSteps)
<1> SUFFICES ASSUME Apart, RegularLoops, WholePrograms PROVE Spec => []WholeSteps
  OBVIOUS
<1> DEFINE Inv == Measured /\ Planned /\ Ranged
<1>1. Init => Inv
  <2> SUFFICES ASSUME Init PROVE Inv
    OBVIOUS
  <2>1. Measured  BY InitMeasured
  <2>2. Planned  BY DEF Init, Planned
  <2>3. WellFormed(prog) /\ pc = After(prog, 0)  BY HwloopNestAssumption DEF Init
  <2>4. pc[1] \in {"done", "step", "pre"}
    <3>1. pc = Done \/ pc \in {"step", "pre"} \X Loops(prog)  BY <2>3, WithinAfter
    <3>2. Done[1] = "done"  BY DEF Done
    <3> QED  BY <3>1, <3>2
  <2>5. ASSUME NEW k \in Loops(prog)
        PROVE  /\ ~Within(prog, pc, k)
               /\ pc \notin {<<"bounds", k>>, <<"count", k>>, <<"inner", k>>, <<"back", k>>}
    <3>1. ~Within(prog, pc, k)  BY <2>3, WithinAfter
    <3>2. <<"bounds", k>>[1] = "bounds" /\ <<"count", k>>[1] = "count"
          /\ <<"inner", k>>[1] = "inner" /\ <<"back", k>>[1] = "back"
      OBVIOUS
    <3> QED  BY <2>4, <3>1, <3>2
  <2>6. Ranged  BY <2>5 DEF Ranged
  <2> QED  BY <2>1, <2>2, <2>6
<1>2. Inv => WholeSteps  BY RangedIsWhole DEF Measured
<1>3. Inv /\ [Next]_vars => Inv'
  <2> SUFFICES ASSUME Inv, [Next]_vars PROVE Inv'
    OBVIOUS
  <2>1. Measured'  BY <1>2, NextMeasured
  <2>2. CASE UNCHANGED vars
    BY <2>1, <2>2 DEF vars, Planned, Ranged, Left, Values
  <2>3. ASSUME NEW l \in Loops(prog), Does(l) PROVE Inv'
    <3>1. Ranged'  BY <2>3, RangedKept
    <3>2. Planned'  BY <2>3, StepFixed DEF Planned
    <3> QED  BY <2>1, <3>1, <3>2
  <2>4. Next => \E l \in Loops(prog) : Does(l)  BY DEF Next, Does
  <2> QED  BY <2>2, <2>3, <2>4
<1> QED  BY <1>1, <1>2, <1>3, PTL DEF Spec

\* At the end of every iteration the counter of a configured loop holds what the
\* original back branch would still grant, whichever of its ways the generator
\* counts the iterations in.  The programs are those whose groups are apart and
\* whose loops reach their bounds in whole steps that fit the counters.
THEOREM CounterIsDistanceCorrect ==
  Apart /\ RegularLoops /\ WholePrograms => (Spec => []CounterIsDistance)
  BY WholeInvariant, DistanceInWholeSteps, PTL

\* The patched program implements the program the compiler wrote: with the
\* setup points left out, it runs the same bodies, in the same order and as
\* often, whatever the nests, the loops configured and the ids they share.
THEOREM ImplementsOriginalProgram ==
  Apart /\ RegularLoops /\ WholePrograms => (Spec => ImplementsOriginal)
  BY WholeInvariant, ImplementsInWholeSteps, PTL
=============================================================================
