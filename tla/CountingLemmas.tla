--------------------------- MODULE CountingLemmas ---------------------------
(***************************************************************************)
(* What the proofs of several modules need of numbers and finite sets: a   *)
(* least element, a minimal set, and a sum over a finite set, whose        *)
(* recursion takes the members in an order nobody knows.  A least          *)
(* counterexample stands in for an induction.                              *)
(***************************************************************************)
EXTENDS Integers, Sequences, FiniteSets, FiniteSetsExt, SequencesExt, Functions,
        FiniteSetTheorems, WellFoundedInduction, TLAPS

(* A function over the first numbers is a sequence.                        *)
LEMMA FunctionIsSequence ==
    ASSUME NEW S, NEW n \in Nat, NEW f \in [1..n -> S]
    PROVE  f \in Seq(S) /\ Len(f) = n /\ DOMAIN f = 1..n
OBVIOUS

(* A nonempty set of naturals has a least element.                         *)
LEMMA LeastNatural ==
    ASSUME NEW S \in SUBSET Nat, S # {}
    PROVE  \E x \in S : \A y \in S : x <= y
<1>1. PICK x \in S : \A y \in S : ~(<<y, x>> \in OpToRel(<, Nat))
    BY NatLessThanWellFounded, WFMin
<1>2. \A y \in S : ~(y < x)
    BY <1>1 DEF OpToRel
<1> QED
    BY <1>2

LEMMA MinIsLeast ==
    ASSUME NEW S \in SUBSET Nat, S # {}
    PROVE  Min(S) \in S /\ \A x \in S : Min(S) <= x
BY LeastNatural DEF Min

(* Of a family of finite sets one is minimal.                              *)
LEMMA SmallestSet ==
    ASSUME NEW S, IsFiniteSet(S), NEW family \in SUBSET SUBSET S, family # {}
    PROVE  \E s \in family : \A x \in s : s \ {x} \notin family
<1> DEFINE sizes == {n \in Nat : \E s \in family : n = Cardinality(s)}
<1>1. \A s \in family : IsFiniteSet(s) /\ Cardinality(s) \in Nat
  <2>1. \A s \in SUBSET S : IsFiniteSet(s)
    BY FS_Subset
  <2>2. \A s : IsFiniteSet(s) => Cardinality(s) \in Nat
    BY FS_CardinalityType
  <2> QED
    BY <2>1, <2>2
<1>2. sizes \in SUBSET Nat /\ sizes # {}
    BY <1>1
<1>3. PICK n \in sizes : \A m \in sizes : n <= m
    BY <1>2, LeastNatural
<1>4. PICK s \in family : n = Cardinality(s)
    BY <1>3
<1>5. ASSUME NEW x \in s, s \ {x} \in family PROVE FALSE
  <2>1. Cardinality(s \ {x}) = Cardinality(s) - 1
    BY <1>1, <1>4, <1>5, FS_RemoveElement
  <2>2. Cardinality(s \ {x}) \in sizes
    BY <1>1, <1>5
  <2>3. n <= Cardinality(s \ {x})
    BY <1>3, <2>2
  <2>4. n \in Nat
    BY <1>3
  <2> QED
    BY <1>4, <2>1, <2>3, <2>4
<1> QED
    BY <1>4, <1>5

(* A sum over a set counts the units of all its members.                   *)
Units(g, s) == {u \in s \X Nat : u[2] < g[u[1]]}

LEMMA UnitsOfOneMore ==
    ASSUME NEW s, NEW x \in s, NEW g, g[x] \in Nat, IsFiniteSet(Units(g, s \ {x}))
    PROVE  /\ IsFiniteSet(Units(g, s))
           /\ Cardinality(Units(g, s)) = g[x] + Cardinality(Units(g, s \ {x}))
<1> DEFINE own == {x} \X (0..(g[x] - 1))
           rest == Units(g, s \ {x})
<1>1. IsFiniteSet(own) /\ Cardinality(own) = g[x]
  <2>1. IsFiniteSet({x}) /\ Cardinality({x}) = 1
    BY FS_Singleton, Zenon
  <2>2. IsFiniteSet(0..(g[x] - 1)) /\ Cardinality(0..(g[x] - 1)) = g[x]
    <3>1. ASSUME NEW k \in Nat PROVE IsFiniteSet(0..(k - 1)) /\ Cardinality(0..(k - 1)) = k
      <4>1. 0 \in Int /\ k - 1 \in Int
        OBVIOUS
      <4>2. /\ IsFiniteSet(0..(k - 1))
            /\ Cardinality(0..(k - 1)) = IF 0 > k - 1 THEN 0 ELSE (k - 1) - 0 + 1
        BY <4>1, FS_Interval
      <4> QED
        BY <4>2
    <3> QED
      BY <3>1
  <2>3. \A S, T : IsFiniteSet(S) /\ IsFiniteSet(T) =>
            IsFiniteSet(S \X T) /\ Cardinality(S \X T) = Cardinality(S) * Cardinality(T)
    BY FS_Product, Zenon
  <2>4. IsFiniteSet(own) /\ Cardinality(own) = Cardinality({x}) * Cardinality(0..(g[x] - 1))
    BY <2>1, <2>2, <2>3, Zenon
  <2>5. Cardinality(own) = 1 * g[x]
    BY <2>1, <2>2, <2>4, Zenon
  <2> QED
    BY <2>4, <2>5
<1>2. Units(g, s) = own \cup rest
  <2>1. ASSUME NEW u \in s \X Nat
        PROVE  u[2] < g[u[1]] <=> u \in own \/ u \in rest
    <3>1. PICK a \in s, b \in Nat : u = <<a, b>>
      OBVIOUS
    <3>2. CASE a = x
      BY <3>1, <3>2 DEF Units
    <3>3. CASE a # x
      BY <3>1, <3>3 DEF Units
    <3> QED
      BY <3>2, <3>3
  <2>2. own \subseteq s \X Nat /\ rest \subseteq s \X Nat
    BY DEF Units
  <2> HIDE DEF own, rest
  <2> QED
    BY <2>1, <2>2 DEF Units
<1>3. own \cap rest = {}
  <2>1. \A u \in own : u[1] = x
    OBVIOUS
  <2>2. \A u \in rest : u[1] \in s \ {x}
    BY DEF Units
  <2> QED
    BY <2>1, <2>2
<1>4. /\ IsFiniteSet(own \cup rest)
      /\ Cardinality(own \cup rest) = Cardinality(own) + Cardinality(rest) - Cardinality(own \cap rest)
    BY <1>1, FS_Union
<1>5. Cardinality(rest) \in Nat
    BY FS_CardinalityType
<1>6. Cardinality(own \cap rest) = 0
    BY <1>3, FS_EmptySet
<1> HIDE DEF own
<1> QED
    BY <1>1, <1>2, <1>4, <1>5, <1>6

(* A sum over a finite set is a finite count.                              *)
LEMMA UnitsAreFinite ==
    ASSUME NEW S, IsFiniteSet(S), NEW g, \A x \in S : g[x] \in Nat
    PROVE  \A s \in SUBSET S : IsFiniteSet(Units(g, s)) /\ Cardinality(Units(g, s)) \in Nat
<1> DEFINE bad == {s \in SUBSET S : ~IsFiniteSet(Units(g, s))}
<1>1. bad = {}
  <2> SUFFICES ASSUME bad # {} PROVE FALSE
    OBVIOUS
  <2>1. PICK s \in bad : \A x \in s : s \ {x} \notin bad
    BY SmallestSet
  <2>2. s # {}
    <3>1. Units(g, {}) = {}
      BY DEF Units
    <3> QED
      BY <2>1, <3>1, FS_EmptySet
  <2>3. PICK x \in s : TRUE
    BY <2>2
  <2>4. IsFiniteSet(Units(g, s \ {x}))
    BY <2>1, <2>3
  <2> QED
    BY <2>1, <2>3, <2>4, UnitsOfOneMore
<1> QED
    BY <1>1, FS_CardinalityType

(* What the recursion of a sum computes, whichever member it takes next.   *)
LEMMA SumCounts ==
    ASSUME NEW S, IsFiniteSet(S), NEW g, \A x \in S : g[x] \in Nat, NEW sum,
           sum[{}] = 0,
           \A s \in SUBSET S : s # {} => \E x \in s : sum[s] = g[x] + sum[s \ {x}]
    PROVE  sum[S] = Cardinality(Units(g, S))
<1> DEFINE bad == {s \in SUBSET S : sum[s] # Cardinality(Units(g, s))}
<1> SUFFICES ASSUME bad # {} PROVE FALSE
    OBVIOUS
<1>1. PICK s \in bad : \A x \in s : s \ {x} \notin bad
    BY SmallestSet
<1>2. s # {}
  <2>1. Units(g, {}) = {}
    BY DEF Units
  <2> QED
    BY <1>1, <2>1, FS_EmptySet
<1>3. PICK x \in s : sum[s] = g[x] + sum[s \ {x}]
    BY <1>1, <1>2
<1>4. sum[s \ {x}] = Cardinality(Units(g, s \ {x}))
    BY <1>1, <1>3
<1>5. Cardinality(Units(g, s)) = g[x] + Cardinality(Units(g, s \ {x}))
  <2>1. IsFiniteSet(Units(g, s \ {x})) /\ g[x] \in Nat
    BY <1>1, <1>3, UnitsAreFinite
  <2> QED
    BY <2>1, UnitsOfOneMore
<1> QED
    BY <1>1, <1>3, <1>4, <1>5

(* The sum of a function over a finite set is the count of its units.      *)
LEMMA SumIsCount ==
    ASSUME NEW S, IsFiniteSet(S), NEW g, \A x \in S : g[x] \in Nat
    PROVE  SumFunctionOnSet(g, S) = Cardinality(Units(g, S))
<1> DEFINE pick(t) == CHOOSE y \in t : TRUE
           Def(f) == [s \in SUBSET S |-> IF s = {} THEN 0 ELSE g[pick(s)] + f[s \ {pick(s)}]]
           count == [s \in SUBSET S |-> Cardinality(Units(g, s))]
           sum == CHOOSE f : f = Def(f)
<1>1. \A s \in SUBSET S : s # {} => pick(s) \in s
    OBVIOUS
<1>2. count = Def(count)
  <2>1. ASSUME NEW s \in SUBSET S, s # {}
        PROVE  Cardinality(Units(g, s)) = g[pick(s)] + Cardinality(Units(g, s \ {pick(s)}))
    <3>1. pick(s) \in s /\ g[pick(s)] \in Nat
      BY <1>1, <2>1
    <3>2. IsFiniteSet(Units(g, s \ {pick(s)}))
      BY UnitsAreFinite
    <3> HIDE DEF pick
    <3> QED
      BY <3>1, <3>2, UnitsOfOneMore
  <2>2. Cardinality(Units(g, {})) = 0
    <3>1. Units(g, {}) = {}
      BY DEF Units
    <3> QED
      BY <3>1, FS_EmptySet
  <2> HIDE DEF pick
  <2> QED
    BY <2>1, <2>2
<1>3. sum = Def(sum)
    BY <1>2
<1> HIDE DEF sum
<1>4. sum[{}] = 0
    BY <1>3
<1>5. ASSUME NEW s \in SUBSET S, s # {} PROVE \E x \in s : sum[s] = g[x] + sum[s \ {x}]
    BY <1>1, <1>3, <1>5
<1>6. sum[S] = Cardinality(Units(g, S))
    BY <1>4, <1>5, SumCounts
<1> QED
    BY <1>6, Zenon DEF sum, SumFunctionOnSet, FoldFunctionOnSet, MapThenFoldSet

(* A sum is a natural number, nothing over no members, and more with more. *)
LEMMA SumFacts ==
    ASSUME NEW S, IsFiniteSet(S), NEW g, \A x \in S : g[x] \in Nat
    PROVE  /\ SumFunctionOnSet(g, {}) = 0
           /\ \A T \in SUBSET S : SumFunctionOnSet(g, T) \in Nat /\ SumFunctionOnSet(g, T) <= SumFunctionOnSet(g, S)
           /\ \A T \in SUBSET S : \A x \in T : SumFunctionOnSet(g, T) = g[x] + SumFunctionOnSet(g, T \ {x})
<1>1. \A T \in SUBSET S : /\ IsFiniteSet(T)
                          /\ SumFunctionOnSet(g, T) = Cardinality(Units(g, T))
                          /\ IsFiniteSet(Units(g, T)) /\ Cardinality(Units(g, T)) \in Nat
  <2> TAKE T \in SUBSET S
  <2>1. IsFiniteSet(T)
    BY FS_Subset
  <2> QED
    BY <2>1, SumIsCount, UnitsAreFinite
<1>2. SumFunctionOnSet(g, {}) = 0
  <2>1. Units(g, {}) = {}
    BY DEF Units
  <2> QED
    BY <1>1, <2>1, FS_EmptySet
<1>3. ASSUME NEW T \in SUBSET S PROVE SumFunctionOnSet(g, T) <= SumFunctionOnSet(g, S)
  <2>1. Units(g, T) \subseteq Units(g, S)
    BY DEF Units
  <2> QED
    BY <1>1, <2>1, FS_Subset
<1>4. ASSUME NEW T \in SUBSET S, NEW x \in T PROVE SumFunctionOnSet(g, T) = g[x] + SumFunctionOnSet(g, T \ {x})
  <2>1. T \ {x} \in SUBSET S /\ g[x] \in Nat
    OBVIOUS
  <2>2. IsFiniteSet(Units(g, T \ {x}))
    BY <1>1, <2>1
  <2>3. Cardinality(Units(g, T)) = g[x] + Cardinality(Units(g, T \ {x}))
    BY <2>1, <2>2, UnitsOfOneMore
  <2> QED
    BY <1>1, <2>1, <2>3
<1> QED
    BY <1>1, <1>2, <1>3, <1>4

(* Two functions that agree have one sum.                                  *)
LEMMA SumOfEquals ==
    ASSUME NEW S, IsFiniteSet(S), NEW f, NEW g,
           \A x \in S : f[x] = g[x] /\ g[x] \in Nat
    PROVE  SumFunctionOnSet(f, S) = SumFunctionOnSet(g, S)
<1>1. Units(f, S) = Units(g, S)
  <2>1. \A u \in S \X Nat : f[u[1]] = g[u[1]]
    OBVIOUS
  <2> QED
    BY <2>1 DEF Units
<1>2. \A x \in S : f[x] \in Nat /\ g[x] \in Nat
  OBVIOUS
<1> QED
  BY <1>1, <1>2, SumIsCount

(* The sum of a sum.                                                       *)
LEMMA SumOfSums ==
    ASSUME NEW S, IsFiniteSet(S), NEW f, NEW g, NEW h,
           \A x \in S : f[x] \in Nat /\ g[x] \in Nat /\ h[x] = f[x] + g[x]
    PROVE  SumFunctionOnSet(h, S) = SumFunctionOnSet(f, S) + SumFunctionOnSet(g, S)
<1> DEFINE bad == {s \in SUBSET S : SumFunctionOnSet(h, s) # SumFunctionOnSet(f, s) + SumFunctionOnSet(g, s)}
<1> SUFFICES ASSUME bad # {} PROVE FALSE
  OBVIOUS
<1>1. PICK s \in bad : \A x \in s : s \ {x} \notin bad
  BY SmallestSet
<1>2. /\ s \in SUBSET S /\ IsFiniteSet(s)
      /\ SumFunctionOnSet(h, s) # SumFunctionOnSet(f, s) + SumFunctionOnSet(g, s)
  <2>1. s \in SUBSET S /\ SumFunctionOnSet(h, s) # SumFunctionOnSet(f, s) + SumFunctionOnSet(g, s)
    BY <1>1
  <2> QED
    BY <2>1, FS_Subset
<1>3. (\A x \in s : f[x] \in Nat) /\ (\A x \in s : g[x] \in Nat) /\ (\A x \in s : h[x] \in Nat)
  BY <1>2
<1>4. s # {}
  <2>1. SumFunctionOnSet(f, {}) = 0 /\ SumFunctionOnSet(g, {}) = 0 /\ SumFunctionOnSet(h, {}) = 0
    BY <1>2, <1>3, SumFacts
  <2>2. SumFunctionOnSet(h, {}) = SumFunctionOnSet(f, {}) + SumFunctionOnSet(g, {})
    BY <2>1
  <2> HIDE DEF bad
  <2> QED
    BY <1>2, <2>2
<1>5. PICK x \in s : TRUE
  BY <1>4
<1> DEFINE rest == s \ {x}
<1>6. rest \in SUBSET s /\ s \in SUBSET s
  OBVIOUS
<1>7. SumFunctionOnSet(h, rest) = SumFunctionOnSet(f, rest) + SumFunctionOnSet(g, rest)
  BY <1>1, <1>2, <1>5
<1> HIDE DEF bad
<1>8. SumFunctionOnSet(f, s) = f[x] + SumFunctionOnSet(f, rest) /\ SumFunctionOnSet(f, rest) \in Nat
  BY <1>2, <1>3, <1>5, <1>6, SumFacts
<1>9. SumFunctionOnSet(g, s) = g[x] + SumFunctionOnSet(g, rest) /\ SumFunctionOnSet(g, rest) \in Nat
  BY <1>2, <1>3, <1>5, <1>6, SumFacts
<1>10. SumFunctionOnSet(h, s) = h[x] + SumFunctionOnSet(h, rest)
  BY <1>2, <1>3, <1>5, <1>6, SumFacts
<1>11. f[x] \in Nat /\ g[x] \in Nat /\ h[x] = f[x] + g[x]
  BY <1>2, <1>5
<1> HIDE DEF rest
<1> QED
  BY <1>2, <1>7, <1>8, <1>9, <1>10, <1>11

(* Over one member and nothing elsewhere.                                  *)
LEMMA SumOfNothing ==
    ASSUME NEW S, IsFiniteSet(S), NEW f, \A x \in S : f[x] = 0
    PROVE  SumFunctionOnSet(f, S) = 0
<1>1. Units(f, S) = {}
  <2>1. \A u \in S \X Nat : ~(u[2] < f[u[1]])
    OBVIOUS
  <2> QED
    BY <2>1 DEF Units
<1>2. \A x \in S : f[x] \in Nat
  OBVIOUS
<1> QED
  BY <1>1, <1>2, SumIsCount, FS_EmptySet

LEMMA SumOfMark ==
    ASSUME NEW S, IsFiniteSet(S), NEW y
    PROVE  SumFunctionOnSet([x \in S |-> IF x = y THEN 1 ELSE 0], S) = IF y \in S THEN 1 ELSE 0
<1> DEFINE f == [x \in S |-> IF x = y THEN 1 ELSE 0]
<1>1. \A x \in S : f[x] \in Nat
  OBVIOUS
<1>2. CASE y \in S
  <2>1. S \in SUBSET S /\ f[y] = 1
    BY <1>2
  <2>2. SumFunctionOnSet(f, S \ {y}) = 0
    <3>1. IsFiniteSet(S \ {y}) /\ \A x \in S \ {y} : f[x] = 0
      BY FS_RemoveElement
    <3> HIDE DEF f
    <3> QED
      BY <3>1, SumOfNothing
  <2> HIDE DEF f
  <2>3. SumFunctionOnSet(f, S) = f[y] + SumFunctionOnSet(f, S \ {y})
    BY <1>1, <1>2, <2>1, SumFacts
  <2> QED
    BY <1>2, <2>1, <2>2, <2>3 DEF f
<1>3. CASE y \notin S
  <2>1. \A x \in S : f[x] = 0
    BY <1>3
  <2> HIDE DEF f
  <2>2. SumFunctionOnSet(f, S) = 0
    BY <2>1, SumOfNothing
  <2> QED
    BY <1>3, <2>2 DEF f
<1> QED
  BY <1>2, <1>3

(* What a function makes of a finite set is finite.                        *)
LEMMA ImageIsFinite ==
    ASSUME NEW S, IsFiniteSet(S), NEW to
    PROVE  IsFiniteSet({to[x] : x \in S})
<1> DEFINE bad == {s \in SUBSET S : ~IsFiniteSet({to[x] : x \in s})}
<1> SUFFICES ASSUME bad # {} PROVE FALSE
  OBVIOUS
<1>1. PICK s \in bad : \A x \in s : s \ {x} \notin bad
  BY SmallestSet
<1>2. s # {}
  <2>1. {to[x] : x \in {}} = {}
    OBVIOUS
  <2> QED
    BY <1>1, <2>1, FS_EmptySet
<1>3. PICK x \in s : TRUE
  BY <1>2
<1>4. IsFiniteSet({to[y] : y \in s \ {x}})
  BY <1>1, <1>3
<1>5. {to[y] : y \in s} = {to[y] : y \in s \ {x}} \cup {to[x]}
  BY <1>3
<1>6. IsFiniteSet({to[y] : y \in s})
  <2> DEFINE rest == {to[y] : y \in s \ {x}}
             z == to[x]
  <2>1. IsFiniteSet(rest) /\ {to[y] : y \in s} = rest \cup {z}
    BY <1>4, <1>5
  <2> HIDE DEF rest, z
  <2>2. IsFiniteSet(rest \cup {z})
    BY <2>1, FS_AddElement
  <2> QED
    BY <2>1, <2>2
<1> QED
  BY <1>1, <1>6

(* A sum can be taken over what the members stand for, when no two stand   *)
(* for the same.                                                           *)
LEMMA SumOfImage ==
    ASSUME NEW S, IsFiniteSet(S), NEW to, NEW g,
           \A x \in S : g[to[x]] \in Nat,
           \A x, y \in S : to[x] = to[y] => x = y
    PROVE  SumFunctionOnSet([x \in S |-> g[to[x]]], S) = SumFunctionOnSet(g, {to[x] : x \in S})
<1> DEFINE f == [x \in S |-> g[to[x]]]
           Over(s) == {to[x] : x \in s}
           bad == {s \in SUBSET S : SumFunctionOnSet(f, s) # SumFunctionOnSet(g, Over(s))}
<1> SUFFICES ASSUME bad # {} PROVE FALSE
  OBVIOUS
<1>1. PICK s \in bad : \A x \in s : s \ {x} \notin bad
  BY SmallestSet
<1>2. s \in SUBSET S /\ SumFunctionOnSet(f, s) # SumFunctionOnSet(g, Over(s))
  BY <1>1
<1>3. IsFiniteSet(s) /\ IsFiniteSet(Over(s))
  <2>1. IsFiniteSet(s)
    BY <1>2, FS_Subset
  <2>2. Over(s) = {to[x] : x \in s}
    OBVIOUS
  <2>3. IsFiniteSet({to[x] : x \in s})
    BY <2>1, ImageIsFinite
  <2> QED
    BY <2>1, <2>3
<1>4. (\A x \in s : f[x] \in Nat /\ f[x] = g[to[x]]) /\ (\A t \in Over(s) : g[t] \in Nat)
  BY <1>2
<1>5. s # {}
  <2>1. SumFunctionOnSet(f, {}) = 0 /\ SumFunctionOnSet(g, {}) = 0
    <3> HIDE DEF f, Over
    <3> QED
      BY <1>3, <1>4, SumFacts
  <2> SUFFICES ASSUME s = {} PROVE FALSE
    OBVIOUS
  <2>2. Over(s) = {}
    OBVIOUS
  <2> HIDE DEF f, Over
  <2> QED
    BY <1>2, <2>1, <2>2
<1>6. PICK x \in s : TRUE
  BY <1>5
<1>7. Over(s \ {x}) = Over(s) \ {to[x]} /\ to[x] \in Over(s)
  BY <1>2, <1>6
<1>8. SumFunctionOnSet(f, s \ {x}) = SumFunctionOnSet(g, Over(s \ {x}))
  BY <1>1, <1>2, <1>6
<1> HIDE DEF bad, f, Over
<1>9. s \in SUBSET s /\ Over(s) \in SUBSET Over(s)
  OBVIOUS
<1>10. SumFunctionOnSet(f, s) = f[x] + SumFunctionOnSet(f, s \ {x})
  BY <1>3, <1>4, <1>6, <1>9, SumFacts
<1>11. SumFunctionOnSet(g, Over(s)) = g[to[x]] + SumFunctionOnSet(g, Over(s) \ {to[x]})
  BY <1>3, <1>4, <1>7, <1>9, SumFacts
<1> QED
  BY <1>2, <1>4, <1>6, <1>7, <1>8, <1>10, <1>11

(* Summing the rows first or the columns first.                            *)
LEMMA SumOfRows ==
    ASSUME NEW S, IsFiniteSet(S), NEW T, IsFiniteSet(T), NEW h,
           \A x \in S, y \in T : h[<<x, y>>] \in Nat
    PROVE  SumFunctionOnSet([x \in S |-> SumFunctionOnSet([y \in T |-> h[<<x, y>>]], T)], S) =
           SumFunctionOnSet([y \in T |-> SumFunctionOnSet([x \in S |-> h[<<x, y>>]], S)], T)
<1> DEFINE Row(x) == SumFunctionOnSet([y \in T |-> h[<<x, y>>]], T)
           rows == [x \in S |-> Row(x)]
           col(y) == [x \in S |-> h[<<x, y>>]]
           cols(s) == [y \in T |-> SumFunctionOnSet(col(y), s)]
           bad == {s \in SUBSET S : SumFunctionOnSet(rows, s) # SumFunctionOnSet(cols(s), T)}
<1> SUFFICES ASSUME bad # {} PROVE FALSE
  OBVIOUS
<1>1. \A x \in S : Row(x) \in Nat
  <2> TAKE x \in S
  <2> DEFINE f == [y \in T |-> h[<<x, y>>]]
  <2>1. \A y \in T : f[y] \in Nat
    OBVIOUS
  <2>2. T \in SUBSET T
    OBVIOUS
  <2> HIDE DEF f
  <2>3. SumFunctionOnSet(f, T) \in Nat
    BY <2>1, <2>2, SumFacts
  <2> QED
    BY <2>3 DEF f
<1>2. \A x \in S : rows[x] \in Nat
  BY <1>1
<1>3. PICK s \in bad : \A x \in s : s \ {x} \notin bad
  BY SmallestSet
<1>4. s \in SUBSET S /\ IsFiniteSet(s) /\ SumFunctionOnSet(rows, s) # SumFunctionOnSet(cols(s), T)
  BY <1>3, FS_Subset
<1>5. ASSUME NEW y \in T
      PROVE  /\ SumFunctionOnSet(col(y), {}) = 0
             /\ \A t \in SUBSET S : SumFunctionOnSet(col(y), t) \in Nat
             /\ \A t \in SUBSET S : \A x \in t :
                   SumFunctionOnSet(col(y), t) = h[<<x, y>>] + SumFunctionOnSet(col(y), t \ {x})
  <2>1. \A x \in S : col(y)[x] \in Nat /\ col(y)[x] = h[<<x, y>>]
    OBVIOUS
  <2> DEFINE f == col(y)
  <2> HIDE DEF f
  <2>2. \A x \in S : f[x] \in Nat
    BY <2>1 DEF f
  <2>3. /\ SumFunctionOnSet(f, {}) = 0
        /\ \A t \in SUBSET S : SumFunctionOnSet(f, t) \in Nat
        /\ \A t \in SUBSET S : \A x \in t : SumFunctionOnSet(f, t) = f[x] + SumFunctionOnSet(f, t \ {x})
    BY <2>2, SumFacts
  <2> QED
    BY <2>1, <2>3 DEF f
<1>6. s # {}
  <2> SUFFICES ASSUME s = {} PROVE FALSE
    OBVIOUS
  <2>1. SumFunctionOnSet(rows, {}) = 0
    <3> HIDE DEF rows
    <3> QED
      BY <1>2, SumFacts
  <2>2. SumFunctionOnSet(cols({}), T) = 0
    <3>1. \A y \in T : cols({})[y] = 0
      BY <1>5
    <3> DEFINE f == cols({})
    <3> HIDE DEF f
    <3>2. \A y \in T : f[y] = 0
      BY <3>1 DEF f
    <3>3. SumFunctionOnSet(f, T) = 0
      BY <3>2, SumOfNothing
    <3> QED
      BY <3>3 DEF f
  <2> HIDE DEF rows, cols
  <2> QED
    BY <1>4, <2>1, <2>2
<1>7. PICK x \in s : TRUE
  BY <1>6
<1>8. SumFunctionOnSet(rows, s \ {x}) = SumFunctionOnSet(cols(s \ {x}), T)
  BY <1>3, <1>4, <1>7
<1>9. SumFunctionOnSet(rows, s) = Row(x) + SumFunctionOnSet(rows, s \ {x}) /\ SumFunctionOnSet(rows, s \ {x}) \in Nat
  <2>1. rows[x] = Row(x) /\ s \ {x} \in SUBSET S
    BY <1>4, <1>7
  <2> HIDE DEF rows, Row, bad
  <2>2. SumFunctionOnSet(rows, s) = rows[x] + SumFunctionOnSet(rows, s \ {x}) /\ SumFunctionOnSet(rows, s \ {x}) \in Nat
    BY <1>2, <1>4, <1>7, <2>1, SumFacts
  <2> QED
    BY <2>1, <2>2
<1>10. SumFunctionOnSet(cols(s), T) = Row(x) + SumFunctionOnSet(cols(s \ {x}), T)
  <2> DEFINE f == [y \in T |-> h[<<x, y>>]]
             g == cols(s \ {x})
             both == cols(s)
  <2>1. s \ {x} \in SUBSET S /\ s \in SUBSET S /\ x \in S
    BY <1>4, <1>7
  <2>2. \A y \in T : f[y] \in Nat /\ g[y] \in Nat /\ both[y] = f[y] + g[y]
    <3> TAKE y \in T
    <3>1. f[y] = h[<<x, y>>] /\ h[<<x, y>>] \in Nat
      BY <2>1
    <3>2. g[y] = SumFunctionOnSet(col(y), s \ {x}) /\ both[y] = SumFunctionOnSet(col(y), s)
      OBVIOUS
    <3> HIDE DEF col, f, g, both
    <3> QED
      BY <1>5, <1>7, <2>1, <3>1, <3>2
  <2> HIDE DEF f, g, both
  <2>3. SumFunctionOnSet(both, T) = SumFunctionOnSet(f, T) + SumFunctionOnSet(g, T)
    BY <2>2, SumOfSums
  <2> QED
    BY <2>3 DEF f, g, both
<1> HIDE DEF rows, cols, bad
<1> QED
  BY <1>4, <1>8, <1>9, <1>10

-----------------------------------------------------------------------------
(* The concatenation of the first n of some lists is what the recursion of *)
(* FlattenSeq says of it, where there is such a function.                  *)
Flattening(seqs, f, n) ==
    f = [i \in 1..n |-> IF i = 1 THEN seqs[i] ELSE f[i - 1] \o seqs[i]]

LEMMA FlattenIs ==
    ASSUME NEW S, NEW seqs \in Seq(Seq(S)), Len(seqs) # 0, NEW f, Flattening(seqs, f, Len(seqs))
    PROVE  FlattenSeq(seqs) = f[Len(seqs)]
<1> DEFINE n == Len(seqs)
           Of(g) == [i \in 1..n |-> IF i = 1 THEN seqs[i] ELSE g[i - 1] \o seqs[i]]
           after == CHOOSE g : g = Of(g)
<1>1. n \in Nat /\ n # 0
  OBVIOUS
<1>2. f = Of(f)
  BY Zenon DEF Flattening
<1>3. after = Of(after)
  BY <1>2, Zenon
<1>4. FlattenSeq(seqs) = after[n]
  BY <1>1, Zenon DEF FlattenSeq
<1> HIDE DEF after, n
<1>5. \A i \in 1..n : /\ after[i] = IF i = 1 THEN seqs[i] ELSE after[i - 1] \o seqs[i]
                      /\ f[i] = IF i = 1 THEN seqs[i] ELSE f[i - 1] \o seqs[i]
  <2> TAKE i \in 1..n
  <2>1. Of(after)[i] = IF i = 1 THEN seqs[i] ELSE after[i - 1] \o seqs[i]
    BY Zenon
  <2>2. Of(f)[i] = IF i = 1 THEN seqs[i] ELSE f[i - 1] \o seqs[i]
    BY Zenon
  <2> HIDE DEF Of
  <2> QED
    BY <1>2, <1>3, <2>1, <2>2
<1> DEFINE wrong == {i \in 1..n : after[i] # f[i]}
<1>6. wrong = {}
  <2> SUFFICES ASSUME wrong # {} PROVE FALSE
    OBVIOUS
  <2>1. wrong \in SUBSET Nat
    BY <1>1
  <2>2. PICK i \in wrong : \A j \in wrong : i <= j
    BY <2>1, LeastNatural
  <2>3. i \in 1..n /\ after[i] # f[i]
    OBVIOUS
  <2>4. CASE i = 1
    BY <1>5, <2>3, <2>4
  <2>5. CASE i # 1
    <3>1. i - 1 \in 1..n /\ ~(i <= i - 1)
      BY <1>1, <2>3, <2>5
    <3>2. after[i - 1] = f[i - 1]
      BY <2>2, <3>1
    <3> QED
      BY <1>5, <2>3, <2>5, <3>2
  <2> QED
    BY <2>4, <2>5
<1> QED
  BY <1>1, <1>4, <1>6 DEF n

LEMMA FlattenThereIs ==
    ASSUME NEW S, NEW seqs \in Seq(Seq(S))
    PROVE  \A n \in 0..Len(seqs) : \E f \in [1..n -> Seq(S)] : Flattening(seqs, f, n)
<1> DEFINE bad == {n \in 0..Len(seqs) : ~\E f \in [1..n -> Seq(S)] : Flattening(seqs, f, n)}
<1> SUFFICES ASSUME bad # {} PROVE FALSE
  OBVIOUS
<1>1. bad \in SUBSET Nat /\ Len(seqs) \in Nat
  OBVIOUS
<1>2. PICK n \in bad : \A m \in bad : n <= m
  BY <1>1, LeastNatural
<1>3. n \in 0..Len(seqs) /\ ~\E f \in [1..n -> Seq(S)] : Flattening(seqs, f, n)
  OBVIOUS
<1>4. CASE n = 0
  <2> DEFINE f == [i \in 1..0 |-> <<>>]
  <2>1. f \in [1..n -> Seq(S)]
    BY <1>4
  <2>2. Flattening(seqs, f, n)
    BY <1>4 DEF Flattening
  <2> QED
    BY <1>3, <2>1, <2>2
<1>5. CASE n # 0
  <2>1. n - 1 \in 0..Len(seqs) /\ ~(n <= n - 1) /\ n \in 1..Len(seqs) /\ n \in Nat
    BY <1>1, <1>3, <1>5
  <2>2. PICK f \in [1..(n - 1) -> Seq(S)] : Flattening(seqs, f, n - 1)
    BY <1>2, <2>1
  <2>3. \A i \in 1..(n - 1) : f[i] = IF i = 1 THEN seqs[i] ELSE f[i - 1] \o seqs[i]
    <3> DEFINE o == [i \in 1..(n - 1) |-> IF i = 1 THEN seqs[i] ELSE f[i - 1] \o seqs[i]]
    <3>1. f = o
      BY <2>2, Zenon DEF Flattening
    <3>2. \A i \in 1..(n - 1) : o[i] = IF i = 1 THEN seqs[i] ELSE f[i - 1] \o seqs[i]
      BY Zenon
    <3> HIDE DEF o
    <3> QED
      BY <3>1, <3>2
  <2> DEFINE g == [i \in 1..n |-> IF i # n THEN f[i]
                                  ELSE IF n = 1 THEN seqs[n] ELSE f[n - 1] \o seqs[n]]
  <2>4. seqs[n] \in Seq(S) /\ \A i \in 1..(n - 1) : f[i] \in Seq(S)
    BY <2>1
  <2>5. g \in [1..n -> Seq(S)]
    <3>1. ASSUME NEW i \in 1..n PROVE g[i] \in Seq(S)
      <4>1. CASE i # n
        BY <2>1, <2>4, <4>1
      <4>2. CASE i = n /\ n = 1
        BY <2>4, <4>2
      <4>3. CASE i = n /\ n # 1
        <5>1. n - 1 \in 1..(n - 1)
          BY <2>1, <4>3
        <5> QED
          BY <2>4, <4>3, <5>1
      <4> QED
        BY <4>1, <4>2, <4>3
    <3> QED
      BY <3>1
  <2>6. \A i \in 1..n : g[i] = IF i = 1 THEN seqs[i] ELSE g[i - 1] \o seqs[i]
    <3> TAKE i \in 1..n
    <3>1. i # 1 => i - 1 \in 1..n /\ i - 1 # n
      BY <2>1
    <3>2. CASE i # n
      <4>1. i \in 1..(n - 1)
        BY <2>1, <3>2
      <4>2. g[i] = f[i] /\ (i # 1 => g[i - 1] = f[i - 1])
        BY <3>1, <3>2
      <4> HIDE DEF g
      <4> QED
        BY <2>3, <4>1, <4>2
    <3>3. CASE i = n
      BY <2>1, <3>1, <3>3
    <3> QED
      BY <3>2, <3>3
  <2>7. Flattening(seqs, g, n)
    <3> HIDE DEF g
    <3> QED
      BY <2>5, <2>6 DEF Flattening
  <2> QED
    BY <1>3, <2>5, <2>7
<1> QED
  BY <1>4, <1>5

LEMMA FlattenSeqs ==
    ASSUME NEW S, NEW seqs \in Seq(Seq(S))
    PROVE  FlattenSeq(seqs) \in Seq(S)
<1>1. CASE Len(seqs) = 0
  <2>1. seqs = <<>>
    BY <1>1
  <2> QED
    BY <1>1, <2>1 DEF FlattenSeq
<1>2. CASE Len(seqs) # 0
  <2>1. Len(seqs) \in Nat /\ Len(seqs) \in 0..Len(seqs) /\ Len(seqs) \in 1..Len(seqs)
    BY <1>2
  <2>2. PICK f \in [1..Len(seqs) -> Seq(S)] : Flattening(seqs, f, Len(seqs))
    BY <2>1, FlattenThereIs
  <2> QED
    BY <1>2, <2>1, <2>2, FlattenIs
<1> QED
  BY <1>1, <1>2

LEMMA FlattenAppend ==
    ASSUME NEW S, NEW seqs \in Seq(Seq(S)), NEW cells \in Seq(S)
    PROVE  FlattenSeq(Append(seqs, cells)) = FlattenSeq(seqs) \o cells
<1> DEFINE n == Len(seqs)
           more == Append(seqs, cells)
<1>1. /\ more \in Seq(Seq(S)) /\ Len(more) = n + 1 /\ n \in Nat
      /\ \A i \in 1..n : more[i] = seqs[i]
      /\ more[n + 1] = cells
  OBVIOUS
<1>2. PICK f \in [1..(n + 1) -> Seq(S)] : Flattening(more, f, n + 1)
  <2>1. n + 1 \in 0..Len(more)
    BY <1>1
  <2> QED
    BY <1>1, <2>1, FlattenThereIs
<1> HIDE DEF more
<1>3. \A i \in 1..(n + 1) : f[i] = IF i = 1 THEN more[i] ELSE f[i - 1] \o more[i]
  <2> DEFINE o == [i \in 1..(n + 1) |-> IF i = 1 THEN more[i] ELSE f[i - 1] \o more[i]]
  <2>1. f = o
    BY <1>2, Zenon DEF Flattening
  <2>2. \A i \in 1..(n + 1) : o[i] = IF i = 1 THEN more[i] ELSE f[i - 1] \o more[i]
    BY Zenon
  <2> HIDE DEF o
  <2> QED
    BY <2>1, <2>2
<1>4. FlattenSeq(more) = f[n + 1]
  BY <1>1, <1>2, FlattenIs
<1>5. CASE n = 0
  <2>1. seqs = <<>> /\ FlattenSeq(seqs) = seqs
    BY <1>5 DEF FlattenSeq
  <2>2. f[1] = cells /\ <<>> \o cells = cells
    BY <1>1, <1>3, <1>5
  <2> QED
    BY <1>4, <1>5, <2>1, <2>2 DEF more
<1>6. CASE n # 0
  <2> DEFINE g == [i \in 1..n |-> f[i]]
  <2>1. \A i \in 1..n : g[i] = IF i = 1 THEN seqs[i] ELSE g[i - 1] \o seqs[i]
    <3> TAKE i \in 1..n
    <3>1. i \in 1..(n + 1) /\ (i # 1 => i - 1 \in 1..n)
      BY <1>1
    <3> QED
      BY <1>1, <1>3, <3>1
  <2>2. Flattening(seqs, g, n) /\ n \in 1..n /\ g[n] = f[n]
    <3>1. DOMAIN g = 1..n /\ g = [i \in 1..n |-> g[i]] /\ n \in 1..n /\ g[n] = f[n]
      BY <1>1, <1>6
    <3> HIDE DEF g
    <3> QED
      BY <2>1, <3>1 DEF Flattening
  <2> HIDE DEF g
  <2>3. FlattenSeq(seqs) = f[n]
    BY <1>6, <2>2, FlattenIs
  <2>4. f[n + 1] = f[n] \o cells
    <3>1. n + 1 \in 1..(n + 1) /\ n + 1 # 1 /\ (n + 1) - 1 = n
      BY <1>1, <1>6
    <3> QED
      BY <1>1, <1>3, <3>1
  <2> QED
    BY <1>4, <2>3, <2>4 DEF more
<1> QED
  BY <1>5, <1>6

(* Of lists all empty but one, that one.                                   *)
LEMMA FlattenOne ==
    ASSUME NEW S, NEW seqs \in Seq(Seq(S)), NEW k \in DOMAIN seqs,
           \A i \in DOMAIN seqs : i # k => seqs[i] = <<>>
    PROVE  FlattenSeq(seqs) = seqs[k]
<1> DEFINE n == Len(seqs)
           f == [i \in 1..n |-> IF i < k THEN <<>> ELSE seqs[k]]
<1>1. n \in Nat /\ n # 0 /\ DOMAIN seqs = 1..n /\ k \in 1..n /\ k \in Nat
  OBVIOUS
<1>2. \A i \in 1..n : f[i] = IF i = 1 THEN seqs[i] ELSE f[i - 1] \o seqs[i]
  <2> TAKE i \in 1..n
  <2>1. i # 1 => i - 1 \in 1..n
    BY <1>1
  <2>2. seqs[k] \in Seq(S) /\ seqs[i] \in Seq(S)
    BY <1>1
  <2>3. seqs[k] \o <<>> = seqs[k] /\ <<>> \o seqs[k] = seqs[k] /\ <<>> \o <<>> = <<>>
    BY <2>2
  <2>4. CASE i = k
    <3>1. f[i] = seqs[k] /\ (i # 1 => f[i - 1] = <<>>)
      BY <1>1, <2>1, <2>4
    <3>2. seqs[i] = seqs[k]
      BY <2>4
    <3>3. i # 1 => f[i - 1] \o seqs[i] = seqs[k]
      BY <2>3, <3>1, <3>2
    <3> HIDE DEF f
    <3> QED
      BY <3>1, <3>2, <3>3
  <2>5. CASE i < k
    <3>1. seqs[i] = <<>> /\ f[i] = <<>>
      BY <1>1, <2>5
    <3>2. ASSUME i # 1 PROVE f[i - 1] = <<>>
      <4>1. i - 1 \in 1..n /\ i - 1 < k
        BY <1>1, <2>1, <2>5, <3>2
      <4> QED
        BY <4>1
    <3>3. i # 1 => f[i - 1] \o seqs[i] = <<>>
      BY <2>3, <3>1, <3>2
    <3> HIDE DEF f
    <3> QED
      BY <3>1, <3>3
  <2>6. CASE i > k
    <3>1. i # k /\ i # 1 /\ ~(i < k) /\ ~(i - 1 < k) /\ i \in DOMAIN seqs
      BY <1>1, <2>6
    <3>2. f[i] = seqs[k] /\ f[i - 1] = seqs[k]
      BY <2>1, <3>1
    <3>3. seqs[i] = <<>>
      BY <3>1
    <3> HIDE DEF f
    <3> QED
      BY <2>3, <3>1, <3>2, <3>3
  <2> QED
    BY <1>1, <2>4, <2>5, <2>6
<1>3. Flattening(seqs, f, n) /\ f[n] = seqs[k]
  <2>1. f = [i \in 1..n |-> f[i]] /\ f[n] = seqs[k]
    BY <1>1
  <2> HIDE DEF f
  <2> QED
    BY <1>2, <2>1 DEF Flattening
<1> HIDE DEF f
<1> QED
  BY <1>1, <1>3, FlattenIs

LEMMA FlattenNone ==
    ASSUME NEW S, NEW seqs \in Seq(Seq(S)), \A i \in DOMAIN seqs : seqs[i] = <<>>
    PROVE  FlattenSeq(seqs) = <<>>
<1>1. CASE Len(seqs) = 0
  <2>1. seqs = <<>>
    BY <1>1
  <2> QED
    BY <1>1, <2>1 DEF FlattenSeq
<1>2. CASE Len(seqs) # 0
  <2>1. 1 \in DOMAIN seqs
    BY <1>2
  <2> QED
    BY <2>1, FlattenOne
<1> QED
  BY <1>1, <1>2
=============================================================================
