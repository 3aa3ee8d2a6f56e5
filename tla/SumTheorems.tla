---------------------------- MODULE SumTheorems ----------------------------
(***************************************************************************)
(* Sums over finite sets, SumFunctionOnSet(f, S) and SumFunction(f).  The  *)
(* library defines them by a recursive function that takes the elements in *)
(* an order nobody knows; here is shown that the function exists and that  *)
(* the order does not matter.  Induction is on the size of sets, as the    *)
(* least element of the set of sizes for which a claim is false.           *)
(***************************************************************************)
EXTENDS Functions, FiniteSetTheorems, WellFoundedInduction, TLAPS

-----------------------------------------------------------------------------
(* Induction.                                                              *)

\* A set of numbers with 0 and with the successors of its elements is Nat.
LEMMA NatInductionOnSet ==
  ASSUME NEW N \in SUBSET Nat, 0 \in N, \A n \in N : n + 1 \in N
  PROVE  N = Nat
<1>1. SUFFICES ASSUME Nat \ N # {} PROVE FALSE
  OBVIOUS
<1>2. IsWellFoundedOn(OpToRel(<, Nat), Nat)
  BY NatLessThanWellFounded
<1>3. PICK m \in Nat \ N : \A n \in Nat \ N : ~(<<n, m>> \in OpToRel(<, Nat))
  BY <1>1, <1>2, WFMin
<1>4. m \in Nat /\ m \notin N /\ m # 0
  OBVIOUS
<1>5. m - 1 \in Nat /\ m - 1 < m /\ (m - 1) + 1 = m
  BY <1>4
<1>6. m - 1 \in N
  BY <1>3, <1>4, <1>5 DEF OpToRel
<1> QED
  BY <1>4, <1>5, <1>6

-----------------------------------------------------------------------------
(* The recursion.                                                          *)

\* One turn of the recursion on s, given the sums g of smaller sets.
Turn(f, g, s) ==
  IF s = {} THEN 0
  ELSE LET x == CHOOSE x \in s : TRUE IN f[x] + g[s \ {x}]

\* The function the recursion defines, on every subset of S.
Sums(f, S) == CHOOSE g : g = [s \in SUBSET S |-> Turn(f, g, s)]

\* A sum is the last value of the recursion over the set's subsets.
LEMMA SumIsLastTurn ==
  ASSUME NEW f, NEW S
  PROVE  SumFunctionOnSet(f, S) = Sums(f, S)[S]
BY DEF SumFunctionOnSet, FoldFunctionOnSet, MapThenFoldSet, Sums, Turn

\* A set without one of its elements is smaller by one.
LEMMA RemoveChosen ==
  ASSUME NEW S, IsFiniteSet(S), NEW s \in SUBSET S, s # {}, NEW x \in s
  PROVE  /\ s \ {x} \in SUBSET S
         /\ IsFiniteSet(s) /\ IsFiniteSet(s \ {x})
         /\ Cardinality(s) \in Nat \ {0}
         /\ Cardinality(s \ {x}) = Cardinality(s) - 1
<1>1. IsFiniteSet(s)
  BY FS_Subset
<1> QED
  BY <1>1, FS_RemoveElement, FS_CardinalityType, FS_EmptySet

\* A function that satisfies the recursion exists for every finite set.
LEMMA SumsExist ==
  ASSUME NEW f, NEW S, IsFiniteSet(S)
  PROVE  \E g : g = [s \in SUBSET S |-> Turn(f, g, s)]
<1> DEFINE UpTo(g, n) ==
      /\ g = [s \in SUBSET S |-> g[s]]
      /\ \A s \in SUBSET S : Cardinality(s) <= n => g[s] = Turn(f, g, s)
<1> DEFINE N == { n \in Nat : \E g : UpTo(g, n) }
<1>1. 0 \in N
  <2> DEFINE g == [s \in SUBSET S |-> 0]
  <2>1. ASSUME NEW s \in SUBSET S, Cardinality(s) <= 0
        PROVE  g[s] = Turn(f, g, s)
    <3>1. s = {}
      BY <2>1, FS_Subset, FS_CardinalityType, FS_EmptySet
    <3> QED
      BY <3>1 DEF Turn
  <2>2. UpTo(g, 0)
    BY <2>1
  <2> QED
    BY <2>2
<1>2. ASSUME NEW n \in N PROVE n + 1 \in N
  <2>0. n \in Nat
    BY <1>2
  <2>1. PICK g : UpTo(g, n)
    BY <1>2
  <2> DEFINE h == [s \in SUBSET S |-> Turn(f, g, s)]
  <2>2. ASSUME NEW s \in SUBSET S, Cardinality(s) <= n
        PROVE  h[s] = g[s]
    BY <2>1, <2>2
  <2>3. ASSUME NEW s \in SUBSET S, Cardinality(s) <= n + 1
        PROVE  h[s] = Turn(f, h, s)
    <3>1. CASE s = {}
      BY <3>1 DEF Turn
    <3>2. CASE s # {}
      <4> DEFINE x == CHOOSE x \in s : TRUE
      <4>1. x \in s
        BY <3>2
      <4>2. /\ s \ {x} \in SUBSET S
            /\ Cardinality(s) \in Nat
            /\ Cardinality(s \ {x}) = Cardinality(s) - 1
        BY <3>2, <4>1, RemoveChosen
      <4>3. h[s \ {x}] = g[s \ {x}]
        <5>1. Cardinality(s \ {x}) <= n
          BY <2>0, <2>3, <4>2
        <5> QED
          BY <2>2, <4>2, <5>1
      <4>4. Turn(f, h, s) = f[x] + h[s \ {x}]
        BY <3>2 DEF Turn
      <4>5. Turn(f, g, s) = f[x] + g[s \ {x}]
        BY <3>2 DEF Turn
      <4>6. h[s] = Turn(f, g, s)
        OBVIOUS
      <4> QED
        BY <4>3, <4>4, <4>5, <4>6
    <3> QED
      BY <3>1, <3>2
  <2>4. UpTo(h, n + 1)
    BY <2>3
  <2> HIDE DEF UpTo, h
  <2> QED
    BY <2>0, <2>4
<1>3. N = Nat
  <2> HIDE DEF N
  <2>1. N \in SUBSET Nat
    BY DEF N
  <2> QED
    BY <1>1, <1>2, <2>1, NatInductionOnSet
<1>4. Cardinality(S) \in N
  BY <1>3, FS_CardinalityType
<1>5. PICK g : UpTo(g, Cardinality(S))
  BY <1>4
<1>6. \A s \in SUBSET S : g[s] = Turn(f, g, s)
  BY <1>5, FS_Subset
<1>7. g = [s \in SUBSET S |-> Turn(f, g, s)]
  BY <1>5, <1>6
<1> QED
  BY <1>7

\* The function of the recursion takes the turns it is defined by.
LEMMA SumsRecur ==
  ASSUME NEW f, NEW S, IsFiniteSet(S), NEW s \in SUBSET S
  PROVE  Sums(f, S)[s] = Turn(f, Sums(f, S), s)
<1> DEFINE g == Sums(f, S)
<1>1. g = [t \in SUBSET S |-> Turn(f, g, t)]
  BY SumsExist DEF Sums
<1> HIDE DEF g
<1>2. g[s] = Turn(f, g, s)
  BY <1>1
<1> QED
  BY <1>2 DEF g

\* The empty sum, and a sum by the element the recursion takes.
LEMMA SumsEquations ==
  ASSUME NEW f, NEW S, IsFiniteSet(S), NEW s \in SUBSET S
  PROVE  /\ s = {} => Sums(f, S)[s] = 0
         /\ s # {} => \E x \in s : Sums(f, S)[s] = f[x] + Sums(f, S)[s \ {x}]
<1>1. CASE s = {}
  BY <1>1, SumsRecur DEF Turn
<1>2. CASE s # {}
  <2> DEFINE c == CHOOSE x \in s : TRUE
  <2>1. c \in s
    BY <1>2
  <2>2. Sums(f, S)[s] = f[c] + Sums(f, S)[s \ {c}]
    BY <1>2, SumsRecur DEF Turn
  <2> HIDE DEF c
  <2> QED
    BY <1>2, <2>1, <2>2
<1> QED
  BY <1>1, <1>2

\* Induction over the subsets of a finite set: a family of subsets that has
\* the empty set, and a set if it has all sets with one element less, has all.
LEMMA SubsetInduction ==
  ASSUME NEW S, IsFiniteSet(S), NEW F,
         {} \in F,
         \A s \in SUBSET S : s # {} /\ (\A x \in s : s \ {x} \in F) => s \in F
  PROVE  SUBSET S \subseteq F
<1> DEFINE N == { n \in Nat : \A s \in SUBSET S : Cardinality(s) = n => s \in F }
<1>1. 0 \in N
  BY FS_Subset, FS_EmptySet
<1>2. ASSUME NEW n \in N PROVE n + 1 \in N
  <2>1. n \in Nat
    BY <1>2
  <2>2. ASSUME NEW s \in SUBSET S, Cardinality(s) = n + 1
        PROVE  s \in F
    <3>1. s # {}
      BY <2>1, <2>2, FS_EmptySet
    <3>2. ASSUME NEW x \in s PROVE s \ {x} \in F
      <4>1. s \ {x} \in SUBSET S /\ Cardinality(s \ {x}) = Cardinality(s) - 1
        BY <3>1, RemoveChosen
      <4>2. Cardinality(s \ {x}) = n
        BY <2>1, <2>2, <4>1
      <4> QED
        BY <1>2, <4>1, <4>2
    <3> QED
      BY <3>1, <3>2
  <2> QED
    BY <2>1, <2>2
<1>3. N = Nat
  <2>1. N \in SUBSET Nat
    OBVIOUS
  <2> HIDE DEF N
  <2> QED
    BY <1>1, <1>2, <2>1, NatInductionOnSet
<1>4. ASSUME NEW s \in SUBSET S PROVE s \in F
  <2>1. Cardinality(s) \in N
    BY <1>3, FS_Subset, FS_CardinalityType
  <2> QED
    BY <2>1
<1> QED
  BY <1>4

\* Numbers sum up to a number, whatever subset is summed.
LEMMA SumsNat ==
  ASSUME NEW f, NEW S, IsFiniteSet(S), \A x \in S : f[x] \in Nat,
         NEW s \in SUBSET S
  PROVE  Sums(f, S)[s] \in Nat
<1> DEFINE F == { t \in SUBSET S : Sums(f, S)[t] \in Nat }
<1>1. {} \in F
  BY SumsEquations
<1>2. ASSUME NEW t \in SUBSET S, t # {}, \A x \in t : t \ {x} \in F
      PROVE  t \in F
  <2>1. PICK c \in t : Sums(f, S)[t] = f[c] + Sums(f, S)[t \ {c}]
    BY <1>2, SumsEquations
  <2>2. f[c] \in Nat /\ Sums(f, S)[t \ {c}] \in Nat
    BY <1>2
  <2> QED
    BY <2>1, <2>2
<1>3. SUBSET S \subseteq F
  <2> HIDE DEF F
  <2> QED
    BY <1>1, <1>2, SubsetInduction
<1> QED
  BY <1>3

\* Any element may be taken first.
LEMMA SumsByAny ==
  ASSUME NEW f, NEW S, IsFiniteSet(S), \A x \in S : f[x] \in Nat,
         NEW s \in SUBSET S, NEW y \in s
  PROVE  Sums(f, S)[s] = f[y] + Sums(f, S)[s \ {y}]
<1> DEFINE g == Sums(f, S)
<1> DEFINE F == { t \in SUBSET S : \A x \in t : g[t] = f[x] + g[t \ {x}] }
<1>1. {} \in F
  OBVIOUS
<1>2. ASSUME NEW t \in SUBSET S, t # {}, \A x \in t : t \ {x} \in F
      PROVE  t \in F
  <2>1. PICK c \in t : g[t] = f[c] + g[t \ {c}]
    BY <1>2, SumsEquations
  <2>2. ASSUME NEW x \in t, x # c
        PROVE  g[t] = f[x] + g[t \ {x}]
    <3>1. g[t \ {c}] = f[x] + g[(t \ {c}) \ {x}]
      BY <1>2, <2>2
    <3>2. g[t \ {x}] = f[c] + g[(t \ {c}) \ {x}]
      <4>1. g[t \ {x}] = f[c] + g[(t \ {x}) \ {c}]
        BY <1>2, <2>2
      <4>2. (t \ {x}) \ {c} = (t \ {c}) \ {x}
        OBVIOUS
      <4> QED
        BY <4>1, <4>2
    <3>3. f[x] \in Nat /\ f[c] \in Nat /\ g[(t \ {c}) \ {x}] \in Nat
      <4>1. (t \ {c}) \ {x} \in SUBSET S
        OBVIOUS
      <4> QED
        BY <4>1, SumsNat
    <3>4. \A a, b, r \in Nat : a + (b + r) = b + (a + r)
      OBVIOUS
    <3> HIDE DEF g, F
    <3> QED
      BY <2>1, <3>1, <3>2, <3>3, <3>4
  <2> QED
    BY <2>1, <2>2
<1>3. SUBSET S \subseteq F
  <2> HIDE DEF F
  <2> QED
    BY <1>1, <1>2, SubsetInduction
<1> QED
  BY <1>3

\* Only the values on the set summed over matter.
LEMMA SumsCongruent ==
  ASSUME NEW f, NEW h, NEW S, NEW T, IsFiniteSet(S), IsFiniteSet(T),
         NEW s \in SUBSET (S \cap T),
         \A x \in S : f[x] \in Nat, \A x \in T : h[x] \in Nat,
         \A x \in S \cap T : f[x] = h[x]
  PROVE  Sums(f, S)[s] = Sums(h, T)[s]
<1> DEFINE R == S \cap T
<1> DEFINE F == { t \in SUBSET R : Sums(f, S)[t] = Sums(h, T)[t] }
<1>1. {} \in F
  BY SumsEquations
<1>2. ASSUME NEW t \in SUBSET R, t # {}, \A x \in t : t \ {x} \in F
      PROVE  t \in F
  <2>1. PICK c \in t : TRUE
    BY <1>2
  <2>2. Sums(f, S)[t] = f[c] + Sums(f, S)[t \ {c}]
    BY SumsByAny
  <2>3. Sums(h, T)[t] = h[c] + Sums(h, T)[t \ {c}]
    BY SumsByAny
  <2>4. Sums(f, S)[t \ {c}] = Sums(h, T)[t \ {c}] /\ f[c] = h[c]
    BY <1>2
  <2> QED
    BY <2>2, <2>3, <2>4
<1>3. SUBSET R \subseteq F
  <2>1. IsFiniteSet(R)
    BY FS_Subset
  <2> HIDE DEF F, R
  <2> QED
    BY <1>1, <1>2, <2>1, SubsetInduction
<1> QED
  BY <1>3

-----------------------------------------------------------------------------
(* Sums over finite sets, as the models write them.                        *)

\* Nothing sums up to 0.
THEOREM SumEmpty ==
  ASSUME NEW f
  PROVE  SumFunctionOnSet(f, {}) = 0
BY SumIsLastTurn, SumsEquations, FS_EmptySet

\* Numbers sum up to a number.
THEOREM SumNat ==
  ASSUME NEW f, NEW S, IsFiniteSet(S), \A x \in S : f[x] \in Nat
  PROVE  SumFunctionOnSet(f, S) \in Nat
BY SumIsLastTurn, SumsNat

\* A sum depends on the values summed and on nothing else.
THEOREM SumCongruent ==
  ASSUME NEW f, NEW h, NEW S, IsFiniteSet(S), \A x \in S : f[x] \in Nat,
         \A x \in S : f[x] = h[x]
  PROVE  SumFunctionOnSet(f, S) = SumFunctionOnSet(h, S)
<1>1. Sums(f, S)[S] = Sums(h, S)[S]
  BY SumsCongruent
<1> QED
  BY <1>1, SumIsLastTurn

\* An element's value can be taken out of a sum, whichever element it is.
THEOREM SumRemove ==
  ASSUME NEW f, NEW S, IsFiniteSet(S), \A x \in S : f[x] \in Nat, NEW y \in S
  PROVE  SumFunctionOnSet(f, S) = f[y] + SumFunctionOnSet(f, S \ {y})
<1>1. Sums(f, S)[S] = f[y] + Sums(f, S)[S \ {y}]
  <2>1. S \in SUBSET S
    OBVIOUS
  <2> QED
    BY <2>1, SumsByAny, SMTT(30)
<1>2. Sums(f, S)[S \ {y}] = Sums(f, S \ {y})[S \ {y}]
  <2>1. IsFiniteSet(S \ {y}) /\ S \ {y} \in SUBSET (S \cap (S \ {y}))
    BY FS_RemoveElement
  <2> QED
    BY <2>1, SumsCongruent
<1> QED
  BY <1>1, <1>2, SumIsLastTurn

\* One more element.
THEOREM SumAdd ==
  ASSUME NEW f, NEW S, IsFiniteSet(S), NEW y, y \notin S,
         \A x \in S \cup {y} : f[x] \in Nat
  PROVE  SumFunctionOnSet(f, S \cup {y}) = f[y] + SumFunctionOnSet(f, S)
<1>1. IsFiniteSet(S \cup {y}) /\ y \in S \cup {y}
  BY FS_AddElement
<1>2. (S \cup {y}) \ {y} = S
  OBVIOUS
<1>3. SumFunctionOnSet(f, S \cup {y})
        = f[y] + SumFunctionOnSet(f, (S \cup {y}) \ {y})
  BY <1>1, SumRemove
<1> QED
  BY <1>2, <1>3

\* One value changes.
THEOREM SumChange ==
  ASSUME NEW f, NEW h, NEW S, IsFiniteSet(S), NEW y \in S,
         \A x \in S : f[x] \in Nat /\ h[x] \in Nat,
         \A x \in S \ {y} : f[x] = h[x]
  PROVE  SumFunctionOnSet(h, S) + f[y] = SumFunctionOnSet(f, S) + h[y]
<1> DEFINE R == S \ {y}
<1>1. IsFiniteSet(R)
  BY FS_RemoveElement
<1>2. SumFunctionOnSet(f, S) = f[y] + SumFunctionOnSet(f, R)
  BY SumRemove
<1>3. SumFunctionOnSet(h, S) = h[y] + SumFunctionOnSet(h, R)
  BY SumRemove
<1>4. SumFunctionOnSet(f, R) = SumFunctionOnSet(h, R)
  BY <1>1, SumCongruent
<1>5. SumFunctionOnSet(f, R) \in Nat
  BY <1>1, SumNat
<1> HIDE DEF R
<1> QED
  BY <1>2, <1>3, <1>4, <1>5

\* No less for larger values over more elements.
THEOREM SumMonotonic ==
  ASSUME NEW f, NEW h, NEW S, NEW T, IsFiniteSet(T), S \subseteq T,
         \A x \in S : f[x] \in Nat, \A x \in T : h[x] \in Nat,
         \A x \in S : f[x] <= h[x]
  PROVE  SumFunctionOnSet(f, S) <= SumFunctionOnSet(h, T)
<1> DEFINE F == { t \in SUBSET T :
                    SumFunctionOnSet(f, t \cap S) <= SumFunctionOnSet(h, t) }
<1>1. {} \in F
  <2>1. {} \cap S = {}
    OBVIOUS
  <2> QED
    BY <2>1, SumEmpty
<1>2. ASSUME NEW t \in SUBSET T, t # {}, \A x \in t : t \ {x} \in F
      PROVE  t \in F
  <2>1. PICK c \in t : TRUE
    BY <1>2
  <2> DEFINE u == t \ {c}
  <2>2. /\ IsFiniteSet(t) /\ IsFiniteSet(u)
        /\ IsFiniteSet(t \cap S) /\ IsFiniteSet(u \cap S)
    BY FS_Subset
  <2>3. SumFunctionOnSet(f, u \cap S) <= SumFunctionOnSet(h, u)
    BY <1>2
  <2>4. SumFunctionOnSet(h, t) = h[c] + SumFunctionOnSet(h, u)
    BY <2>2, SumRemove
  <2>5. /\ SumFunctionOnSet(f, u \cap S) \in Nat
        /\ SumFunctionOnSet(h, u) \in Nat
        /\ h[c] \in Nat
    BY <2>2, SumNat
  <2>6. CASE c \in S
    <3>1. (t \cap S) \ {c} = u \cap S /\ c \in t \cap S
      BY <2>6
    <3>2. SumFunctionOnSet(f, t \cap S) = f[c] + SumFunctionOnSet(f, u \cap S)
      BY <2>2, <3>1, SumRemove
    <3>3. f[c] \in Nat /\ f[c] <= h[c]
      BY <2>6
    <3>4. SumFunctionOnSet(f, t \cap S) <= SumFunctionOnSet(h, t)
      <4> HIDE DEF u, F
      <4> QED
        BY <2>3, <2>4, <2>5, <3>2, <3>3
    <3> QED
      BY <3>4
  <2>7. CASE c \notin S
    <3>1. t \cap S = u \cap S
      BY <2>7
    <3>2. SumFunctionOnSet(f, t \cap S) <= SumFunctionOnSet(h, t)
      <4>1. \A p, q, r \in Nat : p <= q => p <= r + q
        OBVIOUS
      <4> HIDE DEF u, F
      <4> QED
        BY <2>3, <2>4, <2>5, <3>1, <4>1
    <3> QED
      BY <3>2
  <2> QED
    BY <2>6, <2>7
<1>3. SUBSET T \subseteq F
  <2> HIDE DEF F
  <2> QED
    BY <1>1, <1>2, SubsetInduction
<1>4. T \in F /\ T \cap S = S
  BY <1>3
<1> QED
  BY <1>4

\* The sum over two sets that share nothing.
THEOREM SumUnion ==
  ASSUME NEW f, NEW S, NEW T, IsFiniteSet(S), IsFiniteSet(T), S \cap T = {},
         \A x \in S \cup T : f[x] \in Nat
  PROVE  SumFunctionOnSet(f, S \cup T)
           = SumFunctionOnSet(f, S) + SumFunctionOnSet(f, T)
<1> DEFINE F == { t \in SUBSET T :
                    SumFunctionOnSet(f, S \cup t)
                      = SumFunctionOnSet(f, S) + SumFunctionOnSet(f, t) }
<1>1. SumFunctionOnSet(f, S) \in Nat
  BY SumNat
<1>2. {} \in F
  <2>1. S \cup {} = S
    OBVIOUS
  <2>2. SumFunctionOnSet(f, {}) = 0
    BY SumEmpty
  <2> QED
    BY <1>1, <2>1, <2>2
<1>3. ASSUME NEW t \in SUBSET T, t # {}, \A x \in t : t \ {x} \in F
      PROVE  t \in F
  <2>1. PICK c \in t : TRUE
    BY <1>3
  <2> DEFINE u == t \ {c}
  <2>2. IsFiniteSet(t) /\ IsFiniteSet(u) /\ IsFiniteSet(S \cup t)
    BY FS_Subset, FS_Union
  <2>3. SumFunctionOnSet(f, S \cup u)
          = SumFunctionOnSet(f, S) + SumFunctionOnSet(f, u)
    BY <1>3
  <2>4. SumFunctionOnSet(f, t) = f[c] + SumFunctionOnSet(f, u)
    BY <2>2, SumRemove
  <2>5. SumFunctionOnSet(f, S \cup t) = f[c] + SumFunctionOnSet(f, S \cup u)
    <3>1. (S \cup t) \ {c} = S \cup u /\ c \in S \cup t
      OBVIOUS
    <3>2. \A x \in S \cup t : f[x] \in Nat
      OBVIOUS
    <3> HIDE DEF u
    <3> QED
      BY <2>2, <3>1, <3>2, SumRemove
  <2>6. SumFunctionOnSet(f, u) \in Nat /\ f[c] \in Nat
    BY <2>2, SumNat
  <2>7. SumFunctionOnSet(f, S \cup t)
          = SumFunctionOnSet(f, S) + SumFunctionOnSet(f, t)
    <3> HIDE DEF u, F
    <3> QED
      BY <1>1, <2>3, <2>4, <2>5, <2>6
  <2> QED
    BY <2>7
<1>4. SUBSET T \subseteq F
  <2> HIDE DEF F
  <2> QED
    BY <1>2, <1>3, SubsetInduction
<1>5. T \in F
  BY <1>4
<1> QED
  BY <1>5

\* Terms sorted into classes: when each class sums up to no more than its bound,
\* all terms sum up to no more than all bounds.
THEOREM SumByClass ==
  ASSUME NEW f, NEW S, IsFiniteSet(S), \A x \in S : f[x] \in Nat,
         NEW C, IsFiniteSet(C), NEW class \in [S -> C],
         NEW h, \A c \in C : h[c] \in Nat,
         \A c \in C : SumFunctionOnSet(f, { x \in S : class[x] = c }) <= h[c]
  PROVE  SumFunctionOnSet(f, S) <= SumFunctionOnSet(h, C)
<1> DEFINE In(t) == { x \in S : class[x] \in t }
           F == { t \in SUBSET C :
                    SumFunctionOnSet(f, In(t)) <= SumFunctionOnSet(h, t) }
<1>1. {} \in F
  <2>1. In({}) = {}
    OBVIOUS
  <2>2. SumFunctionOnSet(f, {}) = 0 /\ SumFunctionOnSet(h, {}) = 0
    BY SumEmpty
  <2> QED
    BY <2>1, <2>2
<1>2. ASSUME NEW t \in SUBSET C, t # {}, \A x \in t : t \ {x} \in F
      PROVE  t \in F
  <2>1. PICK c \in t : TRUE
    BY <1>2
  <2> DEFINE u == t \ {c}
             A == In(u)
             B == { x \in S : class[x] = c }
  <2>2. IsFiniteSet(t) /\ IsFiniteSet(u) /\ IsFiniteSet(A) /\ IsFiniteSet(B)
    <3>1. A \subseteq S /\ B \subseteq S
      OBVIOUS
    <3> HIDE DEF A, B
    <3> QED
      BY <3>1, FS_Subset
  <2>3. In(t) = A \cup B /\ A \cap B = {}
    OBVIOUS
  <2>4. (\A x \in A \cup B : f[x] \in Nat) /\ (\A x \in t : h[x] \in Nat)
    OBVIOUS
  <2>5. SumFunctionOnSet(f, A) <= SumFunctionOnSet(h, u)
    BY <1>2
  <2>6. SumFunctionOnSet(f, B) <= h[c]
    OBVIOUS
  <2>7. c \in t /\ u = t \ {c} /\ (\A x \in u : h[x] \in Nat)
    OBVIOUS
  <2> HIDE DEF A, B, u
  <2>8. SumFunctionOnSet(f, A \cup B)
          = SumFunctionOnSet(f, A) + SumFunctionOnSet(f, B)
    BY <2>2, <2>3, <2>4, SumUnion
  <2>9. SumFunctionOnSet(h, t) = h[c] + SumFunctionOnSet(h, u)
    BY <2>2, <2>4, <2>7, SumRemove
  <2>10. /\ SumFunctionOnSet(f, A) \in Nat /\ SumFunctionOnSet(f, B) \in Nat
         /\ SumFunctionOnSet(h, u) \in Nat /\ h[c] \in Nat
    BY <2>2, <2>4, <2>7, SumNat
  <2>11. SumFunctionOnSet(f, A \cup B) <= SumFunctionOnSet(h, t)
    <3> HIDE DEF F
    <3> QED
      BY <2>5, <2>6, <2>8, <2>9, <2>10
  <2>12. SumFunctionOnSet(f, In(t)) <= SumFunctionOnSet(h, t)
    <3> HIDE DEF In, F
    <3> QED
      BY <2>3, <2>11
  <2> QED
    BY <2>12
<1>3. SUBSET C \subseteq F
  <2> HIDE DEF F
  <2> QED
    BY <1>1, <1>2, SubsetInduction
<1>4. C \in F /\ In(C) = S
  BY <1>3
<1> QED
  BY <1>4

\* A sum does not depend on the names of the elements.
THEOREM SumReindex ==
  ASSUME NEW f, NEW S, NEW T, IsFiniteSet(T), NEW b \in [T -> S],
         \A x \in S : f[x] \in Nat,
         \A x, y \in T : b[x] = b[y] => x = y,
         S = { b[x] : x \in T }
  PROVE  SumFunctionOnSet(f, S) = SumFunctionOnSet([x \in T |-> f[b[x]]], T)
<1> DEFINE h == [x \in T |-> f[b[x]]]
           Img(t) == { b[x] : x \in t }
           F == { t \in SUBSET T :
                    /\ IsFiniteSet(Img(t))
                    /\ SumFunctionOnSet(f, Img(t)) = SumFunctionOnSet(h, t) }
<1>1. {} \in F
  <2>1. Img({}) = {}
    OBVIOUS
  <2> QED
    BY <2>1, SumEmpty, FS_EmptySet
<1>2. ASSUME NEW t \in SUBSET T, t # {}, \A x \in t : t \ {x} \in F
      PROVE  t \in F
  <2>1. PICK c \in t : TRUE
    BY <1>2
  <2> DEFINE u == t \ {c}
  <2>2. IsFiniteSet(Img(u)) /\ SumFunctionOnSet(f, Img(u)) = SumFunctionOnSet(h, u)
    BY <1>2
  <2>3. Img(t) = Img(u) \cup {b[c]} /\ b[c] \notin Img(u)
    OBVIOUS
  <2>4. \A x \in Img(u) \cup {b[c]} : f[x] \in Nat
    OBVIOUS
  <2>5. IsFiniteSet(Img(t))
    <3> HIDE DEF Img, u, h, F
    <3> QED
      BY <2>2, <2>3, FS_AddElement
  <2>6. SumFunctionOnSet(f, Img(t)) = f[b[c]] + SumFunctionOnSet(f, Img(u))
    <3> HIDE DEF Img, u
    <3> QED
      BY <2>2, <2>3, <2>4, SumAdd
  <2>7. SumFunctionOnSet(h, t) = h[c] + SumFunctionOnSet(h, u)
    <3>1. IsFiniteSet(t) /\ \A x \in t : h[x] \in Nat
      BY FS_Subset
    <3> HIDE DEF h
    <3> QED
      BY <3>1, SumRemove
  <2>8. h[c] = f[b[c]]
    OBVIOUS
  <2> HIDE DEF Img, u, h
  <2> QED
    BY <2>2, <2>5, <2>6, <2>7, <2>8
<1>3. SUBSET T \subseteq F
  <2> HIDE DEF F
  <2> QED
    BY <1>1, <1>2, SubsetInduction
<1>4. T \in F /\ Img(T) = S
  <2>1. T \in SUBSET T
    OBVIOUS
  <2> HIDE DEF F
  <2> QED
    BY <1>3, <2>1
<1> QED
  BY <1>4

-----------------------------------------------------------------------------
(* The same of SumFunction(f), the sum of all values of f.                 *)

\* Numbers sum up to a number.
THEOREM SumFunctionNat ==
  ASSUME NEW f, IsFiniteSet(DOMAIN f), \A x \in DOMAIN f : f[x] \in Nat
  PROVE  SumFunction(f) \in Nat
BY SumNat DEF SumFunction

\* A function of nothing sums up to 0.
THEOREM SumFunctionEmpty ==
  ASSUME NEW f, DOMAIN f = {}
  PROVE  SumFunction(f) = 0
BY SumEmpty DEF SumFunction

\* The function gets one more argument.
THEOREM SumFunctionExtend ==
  ASSUME NEW f, NEW h, NEW y, IsFiniteSet(DOMAIN f), y \notin DOMAIN f,
         \A x \in DOMAIN f : f[x] \in Nat /\ h[x] = f[x],
         DOMAIN h = DOMAIN f \cup {y}, h[y] \in Nat
  PROVE  SumFunction(h) = SumFunction(f) + h[y]
<1>1. SumFunctionOnSet(h, DOMAIN f \cup {y})
        = h[y] + SumFunctionOnSet(h, DOMAIN f)
  BY SumAdd
<1>2. SumFunctionOnSet(f, DOMAIN f) = SumFunctionOnSet(h, DOMAIN f)
  BY SumCongruent
<1>3. SumFunctionOnSet(f, DOMAIN f) \in Nat
  BY SumNat
<1> QED
  BY <1>1, <1>2, <1>3 DEF SumFunction

\* The function changes at one argument.
THEOREM SumFunctionChange ==
  ASSUME NEW f, NEW h, NEW y \in DOMAIN f, IsFiniteSet(DOMAIN f),
         DOMAIN h = DOMAIN f,
         \A x \in DOMAIN f : f[x] \in Nat /\ h[x] \in Nat,
         \A x \in DOMAIN f \ {y} : h[x] = f[x]
  PROVE  SumFunction(h) + f[y] = SumFunction(f) + h[y]
BY SumChange DEF SumFunction

\* One value grows by a at most, from nothing if the argument is new.
THEOREM SumFunctionGrow ==
  ASSUME NEW f, NEW h, NEW y, NEW a \in Nat, IsFiniteSet(DOMAIN f),
         DOMAIN h = DOMAIN f \cup {y},
         \A x \in DOMAIN f : f[x] \in Nat,
         \A x \in DOMAIN f \ {y} : h[x] = f[x],
         h[y] \in Nat,
         y \in DOMAIN f => h[y] <= f[y] + a,
         y \notin DOMAIN f => h[y] <= a
  PROVE  SumFunction(h) <= SumFunction(f) + a
<1>1. SumFunction(f) \in Nat
  BY SumFunctionNat
<1>2. SumFunction(h) \in Nat
  <2>1. IsFiniteSet(DOMAIN h)
    BY FS_AddElement
  <2>2. \A x \in DOMAIN h : h[x] \in Nat
    OBVIOUS
  <2> QED
    BY <2>1, <2>2, SumFunctionNat
<1>3. CASE y \in DOMAIN f
  <2>1. DOMAIN h = DOMAIN f
    BY <1>3
  <2>2. \A x \in DOMAIN f : f[x] \in Nat /\ h[x] \in Nat
    OBVIOUS
  <2>3. SumFunction(h) + f[y] = SumFunction(f) + h[y]
    BY <1>3, <2>1, <2>2, SumFunctionChange
  <2>4. f[y] \in Nat /\ h[y] \in Nat /\ h[y] <= f[y] + a
    BY <1>3
  <2> QED
    BY <1>1, <1>2, <2>3, <2>4
<1>4. CASE y \notin DOMAIN f
  <2>1. \A x \in DOMAIN f : f[x] \in Nat /\ h[x] = f[x]
    BY <1>4
  <2>2. SumFunction(h) = SumFunction(f) + h[y]
    BY <1>4, <2>1, SumFunctionExtend
  <2>3. h[y] \in Nat /\ h[y] <= a
    BY <1>4
  <2> QED
    BY <1>1, <1>2, <2>2, <2>3
<1> QED
  BY <1>3, <1>4

\* No less for larger values and more arguments.
THEOREM SumFunctionMonotonic ==
  ASSUME NEW f, NEW h, IsFiniteSet(DOMAIN h), DOMAIN f \subseteq DOMAIN h,
         \A x \in DOMAIN h : h[x] \in Nat,
         \A x \in DOMAIN f : f[x] \in Nat /\ f[x] <= h[x]
  PROVE  SumFunction(f) <= SumFunction(h)
BY SumMonotonic DEF SumFunction

\* The arguments are renamed, one to one, by b, into arguments of h whose
\* values are no less.
THEOREM SumFunctionInto ==
  ASSUME NEW f, NEW h, NEW b, IsFiniteSet(DOMAIN f), IsFiniteSet(DOMAIN h),
         b \in [DOMAIN f -> DOMAIN h],
         \A x, y \in DOMAIN f : b[x] = b[y] => x = y,
         \A x \in DOMAIN h : h[x] \in Nat,
         \A x \in DOMAIN f : f[x] \in Nat /\ f[x] <= h[b[x]]
  PROVE  SumFunction(f) <= SumFunction(h)
<1> DEFINE T == DOMAIN f
           S == { b[x] : x \in T }
           g == [x \in T |-> h[b[x]]]
<1>1. S \subseteq DOMAIN h /\ b \in [T -> S]
  OBVIOUS
<1>2. SumFunctionOnSet(h, S) = SumFunctionOnSet(g, T)
  <2>1. \A x \in S : h[x] \in Nat
    BY <1>1
  <2>2. \A x, y \in T : b[x] = b[y] => x = y
    OBVIOUS
  <2>3. IsFiniteSet(T) /\ S = { b[x] : x \in T }
    OBVIOUS
  <2> HIDE DEF S, T
  <2> QED
    BY <1>1, <2>1, <2>2, <2>3, SumReindex
<1>3. SumFunctionOnSet(f, T) <= SumFunctionOnSet(g, T)
  <2>1. \A x \in T : f[x] \in Nat /\ g[x] \in Nat /\ f[x] <= g[x]
    BY <1>1
  <2>2. IsFiniteSet(T) /\ T \subseteq T
    OBVIOUS
  <2> HIDE DEF g, T
  <2> QED
    BY <2>1, <2>2, SumMonotonic
<1>4. SumFunctionOnSet(h, S) <= SumFunctionOnSet(h, DOMAIN h)
  <2>1. \A x \in S : h[x] \in Nat /\ h[x] <= h[x]
    BY <1>1
  <2> HIDE DEF S
  <2> QED
    BY <1>1, <2>1, SumMonotonic
<1>5. /\ SumFunctionOnSet(f, T) \in Nat
      /\ SumFunctionOnSet(h, S) \in Nat
      /\ SumFunctionOnSet(h, DOMAIN h) \in Nat
  <2>1. IsFiniteSet(S) /\ \A x \in S : h[x] \in Nat
    BY <1>1, FS_Subset
  <2> HIDE DEF S
  <2> QED
    BY <2>1, SumNat
<1> HIDE DEF S, g
<1> QED
  BY <1>2, <1>3, <1>4, <1>5 DEF SumFunction

\* One argument is taken out and the others are renamed, one to one, by b: an
\* element of a sequence is removed.
THEOREM SumFunctionRemove ==
  ASSUME NEW f, NEW h, NEW y \in DOMAIN f, NEW b,
         IsFiniteSet(DOMAIN f), IsFiniteSet(DOMAIN h),
         b \in [DOMAIN h -> DOMAIN f \ {y}],
         \A x, z \in DOMAIN h : b[x] = b[z] => x = z,
         \A x \in DOMAIN f \ {y} : \E z \in DOMAIN h : b[z] = x,
         \A x \in DOMAIN f : f[x] \in Nat,
         \A x \in DOMAIN h : h[x] = f[b[x]]
  PROVE  SumFunction(f) = f[y] + SumFunction(h)
<1> DEFINE T == DOMAIN h
           S == DOMAIN f \ {y}
<1>1. SumFunctionOnSet(f, DOMAIN f) = f[y] + SumFunctionOnSet(f, S)
  BY SumRemove
<1>2. SumFunctionOnSet(f, S) = SumFunctionOnSet([x \in T |-> f[b[x]]], T)
  <2>1. S = { b[x] : x \in T } /\ b \in [T -> S]
    OBVIOUS
  <2>2. \A x \in S : f[x] \in Nat
    OBVIOUS
  <2>3. IsFiniteSet(T) /\ \A x, z \in T : b[x] = b[z] => x = z
    OBVIOUS
  <2> HIDE DEF S, T
  <2> QED
    BY <2>1, <2>2, <2>3, SumReindex
<1>3. SumFunctionOnSet([x \in T |-> f[b[x]]], T) = SumFunctionOnSet(h, T)
  <2> DEFINE g == [x \in T |-> f[b[x]]]
  <2>1. \A x \in T : g[x] \in Nat /\ g[x] = h[x]
    OBVIOUS
  <2> HIDE DEF g
  <2>2. SumFunctionOnSet(g, T) = SumFunctionOnSet(h, T)
    BY <2>1, SumCongruent
  <2> QED
    BY <2>2 DEF g
<1> HIDE DEF S
<1> QED
  BY <1>1, <1>2, <1>3 DEF SumFunction
=============================================================================
