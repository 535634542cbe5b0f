------------------------- MODULE CreditLedgerProofs -------------------------
(***************************************************************************)
(* Proofs about CreditLedger.  The first part is about finite sums, the    *)
(* second about the arithmetic that shares credits, the third about the    *)
(* ledger.                                                                 *)
(***************************************************************************)
EXTENDS CreditLedger, FiniteSetTheorems, TLAPS

----------------------------------------------------------------------------
(* Finite sums.                                                            *)

(* What holds of no set and survives an element more holds of a finite     *)
(* set.                                                                    *)
LEMMA SetsByInduction ==
  ASSUME NEW S, IsFiniteSet(S), NEW P, {} \in P,
         \A T \in SUBSET S : \A x \in S : T \in P /\ x \notin T => T \cup {x} \in P
  PROVE  S \in P
<1> DEFINE Rest == {T \in SUBSET S : T \notin P}
           R == StrictSubsetOrdering(S)
<1> SUFFICES ASSUME Rest # {} PROVE FALSE
  OBVIOUS
<1>1. Rest \subseteq FiniteSubsetsOf(S)
  BY FS_FiniteSubsetsOfFinite
<1>2. IsWellFoundedOn(R, FiniteSubsetsOf(S))
  BY FS_StrictSubsetOrderingWellFounded
<1>3. PICK T \in Rest : \A U \in Rest : ~(<<U, T>> \in R)
  <2> HIDE DEF Rest, R
  <2>1. QED
    BY <1>1, <1>2, WFMin
<1>4. PICK x \in T : TRUE
  OBVIOUS
<1>5. T \ {x} \in SUBSET S /\ T \ {x} # T /\ T = (T \ {x}) \cup {x} /\ x \in S
  BY <1>4
<1>6. T \ {x} \in P
  <2> SUFFICES ASSUME T \ {x} \in Rest PROVE FALSE
    BY <1>5
  <2>1. <<T \ {x}, T>> \in R
    BY <1>5 DEF StrictSubsetOrdering
  <2>2. QED
    BY <1>3, <2>1
<1>7. QED
  BY <1>3, <1>5, <1>6

(* A sum is found by taking an element away at a time. *)
Picked(s) == CHOOSE x \in s : TRUE
Summed(f, g, s) == IF s = {} THEN 0 ELSE f[Picked(s)] + g[s \ {Picked(s)}]
Partial(f) == CHOOSE g : g = [s \in SUBSET DOMAIN f |-> Summed(f, g, s)]

LEMMA TotalIsPartial ==
  ASSUME NEW f
  PROVE  Total(f) = Partial(f)[DOMAIN f]
BY Zenon DEF Total, SumFunction, SumFunctionOnSet, FoldFunctionOnSet, MapThenFoldSet, Partial, Summed, Picked

LEMMA PickedIn ==
  ASSUME NEW s, s # {}
  PROVE  Picked(s) \in s
BY DEF Picked

LEMMA LeastNatural ==
  ASSUME NEW T, T \subseteq Nat, T # {}
  PROVE  \E m \in T : \A n \in T : m <= n
<1> DEFINE Below(n) == {k \in Nat : k < n}
           U == {Below(n) : n \in T}
           R == StrictSubsetOrdering(Nat)
<1>1. \A n \in T : IsFiniteSet(Below(n))
  <2> SUFFICES ASSUME NEW n \in T PROVE IsFiniteSet(Below(n))
    OBVIOUS
  <2>1. n \in Nat /\ Below(n) \in SUBSET Nat /\ \A s \in Below(n) : s <= n
    OBVIOUS
  <2> HIDE DEF Below
  <2>2. QED
    BY <2>1, FS_BoundedSetOfNaturals
<1>2. U \subseteq FiniteSubsetsOf(Nat) /\ U # {}
  BY <1>1 DEF FiniteSubsetsOf
<1>3. IsWellFoundedOn(R, FiniteSubsetsOf(Nat))
  BY FS_StrictSubsetOrderingWellFounded
<1>4. PICK X \in U : \A Y \in U : ~(<<Y, X>> \in R)
  <2> HIDE DEF U, R
  <2>1. QED
    BY <1>2, <1>3, WFMin
<1>5. PICK m \in T : X = Below(m)
  OBVIOUS
<1>6. ASSUME NEW n \in T, n < m PROVE FALSE
  <2>1. Below(n) \subseteq Below(m) /\ n \in Below(m) /\ n \notin Below(n)
    BY <1>6
  <2>2. <<Below(n), Below(m)>> \in R
    <3>1. Below(n) \in SUBSET Nat /\ Below(m) \in SUBSET Nat /\ Below(n) # Below(m)
      BY <2>1
    <3> HIDE DEF Below
    <3>2. QED
      BY <2>1, <3>1 DEF StrictSubsetOrdering
  <2>3. QED
    BY <1>4, <1>5, <2>2
<1>7. QED
  BY <1>6

LEMMA NaturalsByInduction ==
  ASSUME NEW P, P \subseteq Nat, 0 \in P, \A n \in P : n + 1 \in P
  PROVE  P = Nat
<1> SUFFICES ASSUME Nat \ P # {} PROVE FALSE
  OBVIOUS
<1>1. PICK m \in Nat \ P : \A n \in Nat \ P : m <= n
  BY LeastNatural
<1>2. m # 0 /\ m - 1 \in Nat /\ m = (m - 1) + 1
  BY <1>1
<1>3. m - 1 \in P
  BY <1>1, <1>2
<1>4. QED
  BY <1>2, <1>3

LEMMA SumExists ==
  ASSUME NEW f, IsFiniteSet(DOMAIN f), \A x \in DOMAIN f : f[x] \in Int
  PROVE  \E g : g = [s \in SUBSET DOMAIN f |-> Summed(f, g, s)]
<1> DEFINE S == DOMAIN f
           Solves(n, g) == /\ g \in [SUBSET S -> Int]
                           /\ \A s \in SUBSET S : Cardinality(s) <= n => g[s] = Summed(f, g, s)
           Reached == {n \in Nat : \E g : Solves(n, g)}
<1>1. \A s \in SUBSET S : IsFiniteSet(s) /\ Cardinality(s) \in Nat /\ Cardinality(s) <= Cardinality(S)
  BY FS_Subset, FS_CardinalityType
<1>2. \A s \in SUBSET S : s # {} =>
        Picked(s) \in s /\ s \ {Picked(s)} \in SUBSET S /\ Cardinality(s \ {Picked(s)}) = Cardinality(s) - 1
  <2> SUFFICES ASSUME NEW s \in SUBSET S, s # {}
               PROVE  Picked(s) \in s /\ s \ {Picked(s)} \in SUBSET S /\ Cardinality(s \ {Picked(s)}) = Cardinality(s) - 1
    OBVIOUS
  <2>1. Picked(s) \in s
    BY PickedIn
  <2>2. QED
    BY <1>1, <2>1, FS_RemoveElement
<1>3. 0 \in Reached
  <2>1. Solves(0, [s \in SUBSET S |-> 0])
    <3> SUFFICES ASSUME NEW s \in SUBSET S, Cardinality(s) <= 0
                 PROVE  s = {}
      BY DEF Summed
    <3>1. Cardinality(s) = 0
      BY <1>1
    <3>2. QED
      BY <1>1, <3>1, FS_EmptySet
  <2> HIDE DEF Solves
  <2>2. QED
    BY <2>1
<1>4. \A n \in Reached : n + 1 \in Reached
  <2> SUFFICES ASSUME NEW n \in Reached PROVE n + 1 \in Reached
    OBVIOUS
  <2>1. PICK g : Solves(n, g)
    OBVIOUS
  <2> DEFINE h == [s \in SUBSET S |-> Summed(f, g, s)]
  <2>2. h \in [SUBSET S -> Int]
    <3> SUFFICES ASSUME NEW s \in SUBSET S PROVE Summed(f, g, s) \in Int
      OBVIOUS
    <3>1. CASE s = {}
      BY <3>1 DEF Summed
    <3>2. CASE s # {}
      <4>1. f[Picked(s)] \in Int /\ g[s \ {Picked(s)}] \in Int
        BY <1>2, <2>1, <3>2
      <4>2. QED
        BY <3>2, <4>1 DEF Summed
    <3>3. QED
      BY <3>1, <3>2
  <2>3. ASSUME NEW s \in SUBSET S, Cardinality(s) <= n + 1
        PROVE  h[s] = Summed(f, h, s)
    <3>1. CASE s = {}
      BY <3>1 DEF Summed
    <3>2. CASE s # {}
      <4>1. s \ {Picked(s)} \in SUBSET S /\ Cardinality(s \ {Picked(s)}) <= n
        BY <1>1, <1>2, <2>3, <3>2
      <4>2. g[s \ {Picked(s)}] = h[s \ {Picked(s)}]
        BY <2>1, <4>1
      <4>3. QED
        BY <3>2, <4>2 DEF Summed
    <3>3. QED
      BY <3>1, <3>2
  <2>4. Solves(n + 1, h)
    BY <2>2, <2>3
  <2> HIDE DEF Solves, h
  <2>5. QED
    BY <2>4
<1>5. Cardinality(S) \in Reached
  <2> HIDE DEF Reached, S
  <2>1. Reached \subseteq Nat
    BY DEF Reached
  <2>2. Reached = Nat
    BY <1>3, <1>4, <2>1, NaturalsByInduction
  <2>3. QED
    BY <2>2, FS_CardinalityType DEF S
<1>6. PICK g : Solves(Cardinality(S), g)
  BY <1>5
<1>7. g = [s \in SUBSET S |-> Summed(f, g, s)]
  BY <1>1, <1>6
<1>8. QED
  BY <1>7

LEMMA PartialSolves ==
  ASSUME NEW f, IsFiniteSet(DOMAIN f), \A x \in DOMAIN f : f[x] \in Int
  PROVE  /\ \A s \in SUBSET DOMAIN f : Partial(f)[s] = Summed(f, Partial(f), s)
         /\ \A s \in SUBSET DOMAIN f : Partial(f)[s] \in Int
<1>1. Partial(f) = [s \in SUBSET DOMAIN f |-> Summed(f, Partial(f), s)]
  BY SumExists DEF Partial
<1> DEFINE g == Partial(f)
<1> HIDE DEF g
<1>2. \A s \in SUBSET DOMAIN f : g[s] = Summed(f, g, s)
  BY <1>1 DEF g
<1>3. ASSUME NEW s \in SUBSET DOMAIN f PROVE g[s] \in Int
  <2> DEFINE Short == {n \in Nat : \A t \in SUBSET DOMAIN f : Cardinality(t) = n => g[t] \in Int}
  <2>1. 0 \in Short
    <3> SUFFICES ASSUME NEW t \in SUBSET DOMAIN f, Cardinality(t) = 0 PROVE g[t] \in Int
      OBVIOUS
    <3>1. t = {}
      BY FS_Subset, FS_EmptySet
    <3>2. g[t] = Summed(f, g, t) /\ Summed(f, g, t) = 0
      BY <1>2, <3>1 DEF Summed
    <3>3. QED
      BY <3>2
  <2>2. \A n \in Short : n + 1 \in Short
    <3> SUFFICES ASSUME NEW n \in Short, NEW t \in SUBSET DOMAIN f, Cardinality(t) = n + 1 PROVE g[t] \in Int
      OBVIOUS
    <3>1. t # {} /\ IsFiniteSet(t)
      BY FS_Subset, FS_EmptySet
    <3>2. Picked(t) \in t
      BY <3>1, PickedIn
    <3>3. Cardinality(t \ {Picked(t)}) = n
      <4>1. n \in Nat
        OBVIOUS
      <4>2. Cardinality(t \ {Picked(t)}) = Cardinality(t) - 1
        BY <3>1, <3>2, FS_RemoveElement
      <4> HIDE DEF Short
      <4>3. QED
        BY <4>1, <4>2
    <3>4. g[t \ {Picked(t)}] \in Int
      BY <3>3
    <3>5. QED
      BY <1>2, <3>1, <3>2, <3>4 DEF Summed
  <2> HIDE DEF Short
  <2>3. Short = Nat
    <3>1. Short \subseteq Nat
      BY DEF Short
    <3>2. QED
      BY <2>1, <2>2, <3>1, NaturalsByInduction
  <2>4. Cardinality(s) \in Nat
    BY FS_Subset, FS_CardinalityType
  <2>5. QED
    BY <2>3, <2>4 DEF Short
<1>4. QED
  BY <1>2, <1>3 DEF g

LEMMA PartialWithout ==
  ASSUME NEW f, IsFiniteSet(DOMAIN f), \A x \in DOMAIN f : f[x] \in Int,
         NEW s \in SUBSET DOMAIN f, NEW x \in s
  PROVE  Partial(f)[s] = f[x] + Partial(f)[s \ {x}]
<1> DEFINE g == Partial(f)
           D == DOMAIN f
           Free == {n \in Nat : \A t \in SUBSET D : Cardinality(t) = n => \A z \in t : g[t] = f[z] + g[t \ {z}]}
<1>1. /\ \A t \in SUBSET D : g[t] = Summed(f, g, t)
      /\ \A t \in SUBSET D : g[t] \in Int
  BY PartialSolves
<1>2. \A t \in SUBSET D : IsFiniteSet(t)
  BY FS_Subset
<1> HIDE DEF g
<1>3. 0 \in Free
  BY <1>2, FS_EmptySet
<1>4. \A n \in Free : n + 1 \in Free
  <2> SUFFICES ASSUME NEW n \in Free, NEW t \in SUBSET D, Cardinality(t) = n + 1, NEW z \in t
               PROVE  g[t] = f[z] + g[t \ {z}]
    OBVIOUS
  <2> DEFINE y == Picked(t)
  <2>1. y \in t /\ g[t] = f[y] + g[t \ {y}]
    BY <1>1, PickedIn DEF Summed
  <2> HIDE DEF y
  <2>2. CASE z = y
    BY <2>1, <2>2
  <2>3. CASE z # y
    <3>1. n \in Nat
      OBVIOUS
    <3>2. Cardinality(t \ {y}) = Cardinality(t) - 1 /\ Cardinality(t \ {z}) = Cardinality(t) - 1
      BY <1>2, <2>1, FS_RemoveElement
    <3>3. Cardinality(t \ {y}) = n /\ Cardinality(t \ {z}) = n
      <4> HIDE DEF Free
      <4>1. QED
        BY <3>1, <3>2
    <3>4. g[t \ {y}] = f[z] + g[(t \ {y}) \ {z}]
      BY <2>3, <3>3
    <3>5. g[t \ {z}] = f[y] + g[(t \ {z}) \ {y}]
      BY <2>1, <2>3, <3>3
    <3>6. (t \ {y}) \ {z} = (t \ {z}) \ {y}
      OBVIOUS
    <3>7. g[(t \ {y}) \ {z}] \in Int /\ f[y] \in Int /\ f[z] \in Int
      BY <1>1, <2>1
    <3> DEFINE a == g[(t \ {y}) \ {z}]
    <3>8. g[t] = f[y] + (f[z] + a)
      BY <2>1, <3>4
    <3>9. g[t \ {z}] = f[y] + a
      BY <3>5, <3>6
    <3> HIDE DEF Free, a
    <3>10. f[y] + (f[z] + a) = f[z] + (f[y] + a)
      BY <3>7 DEF a
    <3>11. QED
      BY <3>8, <3>9, <3>10
  <2>4. QED
    BY <2>2, <2>3
<1> HIDE DEF Free
<1>5. Free = Nat
  <2>1. Free \subseteq Nat
    BY DEF Free
  <2>2. QED
    BY <1>3, <1>4, <2>1, NaturalsByInduction
<1>6. Cardinality(s) \in Nat
  BY <1>2, FS_CardinalityType
<1>7. QED
  BY <1>5, <1>6 DEF Free, g

LEMMA PartialAgrees ==
  ASSUME NEW f, IsFiniteSet(DOMAIN f), \A x \in DOMAIN f : f[x] \in Int,
         NEW g, IsFiniteSet(DOMAIN g), \A x \in DOMAIN g : g[x] \in Int,
         NEW s, s \subseteq DOMAIN f, s \subseteq DOMAIN g, \A x \in s : f[x] = g[x]
  PROVE  Partial(f)[s] = Partial(g)[s]
<1> DEFINE P == {T \in SUBSET s : Partial(f)[T] = Partial(g)[T]}
<1>1. {} \in P
  <2>1. Partial(f)[{}] = Summed(f, Partial(f), {}) /\ Partial(g)[{}] = Summed(g, Partial(g), {})
    BY PartialSolves
  <2>2. QED
    BY <2>1 DEF Summed
<1>2. ASSUME NEW T \in SUBSET s, NEW x \in s, T \in P, x \notin T
      PROVE  T \cup {x} \in P
  <2>1. (T \cup {x}) \ {x} = T /\ T \cup {x} \in SUBSET DOMAIN f /\ T \cup {x} \in SUBSET DOMAIN g /\ x \in T \cup {x}
    BY <1>2
  <2>2. Partial(f)[T \cup {x}] = f[x] + Partial(f)[(T \cup {x}) \ {x}]
    BY <2>1, PartialWithout
  <2>3. Partial(g)[T \cup {x}] = g[x] + Partial(g)[(T \cup {x}) \ {x}]
    BY <2>1, PartialWithout
  <2>4. QED
    BY <1>2, <2>1, <2>2, <2>3
<1>3. IsFiniteSet(s)
  BY FS_Subset
<1> HIDE DEF P
<1>4. s \in P
  BY <1>1, <1>2, <1>3, SetsByInduction
<1>5. QED
  BY <1>4 DEF P

(* What the rest of the module uses of sums. *)
LEMMA TotalInt ==
  ASSUME NEW S, IsFiniteSet(S), NEW f \in [S -> Int]
  PROVE  Total(f) \in Int
BY TotalIsPartial, PartialSolves

LEMMA TotalEmpty ==
  ASSUME NEW f, DOMAIN f = {}
  PROVE  Total(f) = 0
<1>1. IsFiniteSet(DOMAIN f)
  BY FS_EmptySet
<1>2. Partial(f)[{}] = Summed(f, Partial(f), {})
  BY <1>1, PartialSolves
<1>3. QED
  BY <1>2, TotalIsPartial DEF Summed

LEMMA TotalRemove ==
  ASSUME NEW S, IsFiniteSet(S), NEW x \in S, NEW f \in [S -> Int]
  PROVE  Total(f) = f[x] + Total([y \in S \ {x} |-> f[y]])
<1> DEFINE g == [y \in S \ {x} |-> f[y]]
<1>1. IsFiniteSet(S \ {x})
  BY FS_RemoveElement
<1>2. Partial(f)[S] = f[x] + Partial(f)[S \ {x}]
  BY PartialWithout
<1>3. DOMAIN g = S \ {x} /\ \A y \in S \ {x} : g[y] = f[y]
  OBVIOUS
<1> HIDE DEF g
<1>4. Partial(f)[S \ {x}] = Partial(g)[S \ {x}]
  BY <1>1, <1>3, PartialAgrees
<1>5. QED
  BY <1>2, <1>3, <1>4, TotalIsPartial DEF g

(* A function cut to a part of its domain. *)
Cut(f, T) == [y \in T |-> f[y]]

LEMMA CutAdd ==
  ASSUME NEW S, IsFiniteSet(S), NEW f \in [S -> Int], NEW T \in SUBSET S, NEW x \in S, x \notin T
  PROVE  Total(Cut(f, T \cup {x})) = f[x] + Total(Cut(f, T))
<1> DEFINE U == T \cup {x}
           g == Cut(f, U)
<1>1. IsFiniteSet(U) /\ x \in U /\ U \ {x} = T
  BY FS_Subset
<1>2. g \in [U -> Int] /\ g[x] = f[x] /\ [y \in U \ {x} |-> g[y]] = Cut(f, T)
  BY <1>1 DEF Cut
<1> HIDE DEF g, U
<1>3. Total(g) = g[x] + Total([y \in U \ {x} |-> g[y]])
  BY <1>1, <1>2, TotalRemove
<1>4. QED
  BY <1>2, <1>3 DEF g, U

LEMMA CutTotals ==
  ASSUME NEW S, IsFiniteSet(S), NEW f \in [S -> Int]
  PROVE  /\ Total(Cut(f, {})) = 0
         /\ \A T \in SUBSET S : Total(Cut(f, T)) \in Int /\ IsFiniteSet(T)
         /\ Cut(f, S) = f
<1>1. Total(Cut(f, {})) = 0
  BY TotalEmpty DEF Cut
<1>2. ASSUME NEW T \in SUBSET S PROVE Total(Cut(f, T)) \in Int /\ IsFiniteSet(T)
  <2>1. IsFiniteSet(T) /\ Cut(f, T) \in [T -> Int]
    BY FS_Subset DEF Cut
  <2>2. QED
    BY <2>1, TotalInt
<1>3. QED
  BY <1>1, <1>2 DEF Cut

LEMMA TotalOfSum ==
  ASSUME NEW S, IsFiniteSet(S), NEW f \in [S -> Int], NEW g \in [S -> Int], NEW h \in [S -> Int],
         \A x \in S : h[x] = f[x] + g[x]
  PROVE  Total(h) = Total(f) + Total(g)
<1> DEFINE P == {T \in SUBSET S : Total(Cut(h, T)) = Total(Cut(f, T)) + Total(Cut(g, T))}
<1>1. {} \in P
  BY CutTotals
<1>2. ASSUME NEW T \in SUBSET S, NEW x \in S, T \in P, x \notin T
      PROVE  T \cup {x} \in P
  <2>1. /\ Total(Cut(h, T \cup {x})) = h[x] + Total(Cut(h, T))
        /\ Total(Cut(f, T \cup {x})) = f[x] + Total(Cut(f, T))
        /\ Total(Cut(g, T \cup {x})) = g[x] + Total(Cut(g, T))
    BY <1>2, CutAdd
  <2>2. Total(Cut(f, T)) \in Int /\ Total(Cut(g, T)) \in Int /\ f[x] \in Int /\ g[x] \in Int
    BY CutTotals
  <2>3. h[x] = f[x] + g[x] /\ Total(Cut(h, T)) = Total(Cut(f, T)) + Total(Cut(g, T))
    BY <1>2
  <2>4. Total(Cut(h, T \cup {x})) = Total(Cut(f, T \cup {x})) + Total(Cut(g, T \cup {x}))
    BY <2>1, <2>2, <2>3
  <2>5. QED
    BY <2>4
<1> HIDE DEF P
<1>3. S \in P
  BY <1>1, <1>2, SetsByInduction
<1>4. QED
  BY <1>3, CutTotals DEF P

LEMMA TotalScaled ==
  ASSUME NEW S, IsFiniteSet(S), NEW f \in [S -> Int], NEW g \in [S -> Int], NEW c \in Int,
         \A x \in S : g[x] = c * f[x]
  PROVE  Total(g) = c * Total(f)
<1> DEFINE P == {T \in SUBSET S : Total(Cut(g, T)) = c * Total(Cut(f, T))}
<1>1. {} \in P
  BY CutTotals
<1>2. ASSUME NEW T \in SUBSET S, NEW x \in S, T \in P, x \notin T
      PROVE  T \cup {x} \in P
  <2>1. /\ Total(Cut(f, T \cup {x})) = f[x] + Total(Cut(f, T))
        /\ Total(Cut(g, T \cup {x})) = g[x] + Total(Cut(g, T))
    BY <1>2, CutAdd
  <2>2. Total(Cut(f, T)) \in Int /\ f[x] \in Int
    BY CutTotals
  <2>3. g[x] = c * f[x] /\ Total(Cut(g, T)) = c * Total(Cut(f, T))
    BY <1>2
  <2> DEFINE a == f[x]
             b == Total(Cut(f, T))
  <2>4. a \in Int /\ b \in Int
    BY <2>2
  <2>5. Total(Cut(g, T \cup {x})) = c * a + c * b /\ Total(Cut(f, T \cup {x})) = a + b
    BY <2>1, <2>3
  <2> HIDE DEF a, b
  <2>6. c * a + c * b = c * (a + b)
    BY <2>4
  <2>7. QED
    BY <2>5, <2>6
<1> HIDE DEF P
<1>3. S \in P
  BY <1>1, <1>2, SetsByInduction
<1>4. QED
  BY <1>3, CutTotals DEF P

LEMMA TotalMonotone ==
  ASSUME NEW S, IsFiniteSet(S), NEW f \in [S -> Int], NEW g \in [S -> Int], \A x \in S : f[x] <= g[x]
  PROVE  Total(f) <= Total(g)
<1> DEFINE P == {T \in SUBSET S : Total(Cut(f, T)) <= Total(Cut(g, T))}
<1>1. {} \in P
  BY CutTotals
<1>2. ASSUME NEW T \in SUBSET S, NEW x \in S, T \in P, x \notin T
      PROVE  T \cup {x} \in P
  <2>1. /\ Total(Cut(f, T \cup {x})) = f[x] + Total(Cut(f, T))
        /\ Total(Cut(g, T \cup {x})) = g[x] + Total(Cut(g, T))
    BY <1>2, CutAdd
  <2>2. /\ Total(Cut(f, T)) \in Int /\ Total(Cut(g, T)) \in Int /\ f[x] \in Int /\ g[x] \in Int
        /\ f[x] <= g[x] /\ Total(Cut(f, T)) <= Total(Cut(g, T))
    BY <1>2, CutTotals
  <2>3. Total(Cut(f, T \cup {x})) <= Total(Cut(g, T \cup {x}))
    BY <2>1, <2>2
  <2>4. QED
    BY <2>3
<1> HIDE DEF P
<1>3. S \in P
  BY <1>1, <1>2, SetsByInduction
<1>4. QED
  BY <1>3, CutTotals DEF P

LEMMA TotalOfZeros ==
  ASSUME NEW S, IsFiniteSet(S), NEW f \in [S -> Int], \A x \in S : f[x] = 0
  PROVE  Total(f) = 0
<1>1. \A x \in S : f[x] = 0 * f[x]
  OBVIOUS
<1>2. Total(f) = 0 * Total(f)
  BY <1>1, TotalScaled
<1>3. QED
  BY <1>2, TotalInt

LEMMA TotalNat ==
  ASSUME NEW S, IsFiniteSet(S), NEW f \in [S -> Nat]
  PROVE  Total(f) \in Nat
<1> DEFINE z == [x \in S |-> 0]
<1>1. z \in [S -> Int] /\ f \in [S -> Int] /\ (\A x \in S : z[x] = 0) /\ \A x \in S : z[x] <= f[x]
  OBVIOUS
<1> HIDE DEF z
<1>2. Total(z) = 0 /\ Total(z) <= Total(f) /\ Total(f) \in Int
  BY <1>1, TotalOfZeros, TotalMonotone, TotalInt
<1>3. QED
  BY <1>2

LEMMA TotalIncluding ==
  ASSUME NEW S, IsFiniteSet(S), NEW f \in [S -> Nat], NEW x \in S
  PROVE  f[x] <= Total(f)
<1> DEFINE g == [y \in S \ {x} |-> f[y]]
<1>1. f \in [S -> Int] /\ f[x] \in Nat /\ IsFiniteSet(S \ {x}) /\ g \in [S \ {x} -> Nat]
  BY FS_RemoveElement
<1>2. Total(f) = f[x] + Total(g)
  BY <1>1, TotalRemove
<1> HIDE DEF g
<1>3. Total(g) \in Nat
  BY <1>1, TotalNat
<1>4. QED
  BY <1>1, <1>2, <1>3

LEMMA TotalChanged ==
  ASSUME NEW S, IsFiniteSet(S), NEW f \in [S -> Int], NEW g \in [S -> Int], NEW x \in S,
         \A y \in S \ {x} : g[y] = f[y]
  PROVE  Total(g) = Total(f) - f[x] + g[x]
<1>1. \A k \in [S -> Int] : Total(k) = k[x] + Total([y \in S \ {x} |-> k[y]])
  BY TotalRemove
<1> DEFINE h == [y \in S \ {x} |-> f[y]]
<1>2. IsFiniteSet(S \ {x}) /\ h \in [S \ {x} -> Int] /\ h = [y \in S \ {x} |-> g[y]]
  BY FS_RemoveElement
<1>3. Total(f) = f[x] + Total(h) /\ Total(g) = g[x] + Total(h)
  BY <1>1, <1>2
<1> HIDE DEF h
<1>4. Total(h) \in Int /\ f[x] \in Int /\ g[x] \in Int
  BY <1>2, TotalInt
<1>5. QED
  BY <1>3, <1>4

LEMMA TotalTight ==
  ASSUME NEW S, IsFiniteSet(S), NEW f \in [S -> Nat], NEW g \in [S -> Nat], \A x \in S : f[x] <= g[x],
         Total(f) = Total(g)
  PROVE  \A x \in S : f[x] = g[x]
<1> DEFINE h == [x \in S |-> g[x] - f[x]]
<1>1. h \in [S -> Nat] /\ \A x \in S : g[x] = f[x] + h[x]
  <2>1. \A x \in S : f[x] \in Nat /\ g[x] \in Nat /\ f[x] <= g[x]
    OBVIOUS
  <2>2. \A x \in S : g[x] - f[x] \in Nat /\ g[x] = f[x] + (g[x] - f[x])
    BY <2>1
  <2>3. QED
    BY <2>2
<1> HIDE DEF h
<1>2. f \in [S -> Int] /\ g \in [S -> Int] /\ h \in [S -> Int]
  BY <1>1
<1>3. Total(g) = Total(f) + Total(h)
  BY <1>1, <1>2, TotalOfSum
<1>4. Total(h) \in Nat /\ Total(f) \in Nat
  BY <1>1, TotalNat
<1>5. Total(h) = 0
  BY <1>3, <1>4
<1>6. \A x \in S : h[x] <= Total(h) /\ h[x] \in Nat
  BY <1>1, TotalIncluding
<1>7. \A x \in S : h[x] = 0
  BY <1>5, <1>6
<1>8. QED
  BY <1>1, <1>7

LEMMA TotalSplit ==
  ASSUME NEW S, IsFiniteSet(S), NEW f \in [S -> Int], NEW T \in SUBSET S
  PROVE  Total(f) = Total(Cut(f, T)) + Total(Cut(f, S \ T))
<1> DEFINE R == S \ T
           P == {U \in SUBSET R : Total(Cut(f, T \cup U)) = Total(Cut(f, T)) + Total(Cut(f, U))}
<1>1. /\ Total(Cut(f, {})) = 0
      /\ \A U \in SUBSET S : Total(Cut(f, U)) \in Int /\ IsFiniteSet(U)
      /\ Cut(f, S) = f
  BY CutTotals
<1>2. {} \in P
  <2>1. T \cup {} = T /\ Total(Cut(f, T)) \in Int
    BY <1>1
  <2>2. QED
    BY <1>1, <2>1
<1>3. ASSUME NEW U \in SUBSET R, NEW x \in R, U \in P, x \notin U
      PROVE  U \cup {x} \in P
  <2>1. T \cup U \in SUBSET S /\ x \in S /\ x \notin T \cup U /\ T \cup (U \cup {x}) = (T \cup U) \cup {x} /\ U \in SUBSET S
    BY <1>3
  <2>2. Total(Cut(f, (T \cup U) \cup {x})) = f[x] + Total(Cut(f, T \cup U))
    BY <2>1, CutAdd
  <2>3. Total(Cut(f, U \cup {x})) = f[x] + Total(Cut(f, U))
    BY <1>3, <2>1, CutAdd
  <2>4. Total(Cut(f, T \cup U)) = Total(Cut(f, T)) + Total(Cut(f, U))
    BY <1>3
  <2>5. f[x] \in Int /\ Total(Cut(f, T)) \in Int /\ Total(Cut(f, U)) \in Int
    BY <1>1, <2>1
  <2> DEFINE a == Total(Cut(f, T))
             b == Total(Cut(f, U))
  <2>8. Total(Cut(f, T \cup (U \cup {x}))) = f[x] + (a + b) /\ Total(Cut(f, U \cup {x})) = f[x] + b
    BY <2>1, <2>2, <2>3, <2>4
  <2>9. f[x] + (a + b) = a + (f[x] + b)
    <3> HIDE DEF a, b
    <3>1. a \in Int /\ b \in Int /\ f[x] \in Int
      BY <2>5 DEF a, b
    <3>2. QED
      BY <3>1
  <2>6. Total(Cut(f, T \cup (U \cup {x}))) = Total(Cut(f, T)) + Total(Cut(f, U \cup {x}))
    BY <2>8, <2>9
  <2>7. QED
    BY <1>3, <2>6
<1>4. IsFiniteSet(R)
  BY <1>1
<1> HIDE DEF P
<1>5. R \in P
  <2> HIDE DEF R
  <2>1. QED
    BY <1>2, <1>3, <1>4, SetsByInduction
<1>6. T \cup R = S
  OBVIOUS
<1>7. QED
  BY <1>1, <1>5, <1>6 DEF P

LEMMA TotalOfPart ==
  ASSUME NEW S, IsFiniteSet(S), NEW f \in [S -> Int], NEW T \in SUBSET S, \A x \in S \ T : f[x] = 0
  PROVE  Total(f) = Total(Cut(f, T))
<1>1. Total(f) = Total(Cut(f, T)) + Total(Cut(f, S \ T))
  BY TotalSplit
<1>2. IsFiniteSet(S \ T) /\ Cut(f, S \ T) \in [S \ T -> Int] /\ \A x \in S \ T : Cut(f, S \ T)[x] = 0
  BY FS_Subset DEF Cut
<1>3. Total(Cut(f, S \ T)) = 0
  BY <1>2, TotalOfZeros
<1>4. Total(Cut(f, T)) \in Int
  BY CutTotals
<1>5. QED
  BY <1>1, <1>3, <1>4

LEMMA TotalOfOnes ==
  ASSUME NEW S, IsFiniteSet(S), NEW f \in [S -> Int], NEW T \in SUBSET S,
         \A x \in S : f[x] = IF x \in T THEN 1 ELSE 0
  PROVE  Total(f) = Cardinality(T)
<1> DEFINE P == {U \in SUBSET T : Total(Cut(f, U)) = Cardinality(U)}
<1>1. IsFiniteSet(T) /\ \A U \in SUBSET T : IsFiniteSet(U) /\ Cardinality(U) \in Nat
  BY FS_Subset, FS_CardinalityType
<1>2. {} \in P
  BY CutTotals, FS_EmptySet
<1>3. ASSUME NEW U \in SUBSET T, NEW x \in T, U \in P, x \notin U
      PROVE  U \cup {x} \in P
  <2>1. x \in S /\ U \in SUBSET S /\ f[x] = 1
    BY <1>3
  <2>2. Total(Cut(f, U \cup {x})) = f[x] + Total(Cut(f, U))
    BY <1>3, <2>1, CutAdd
  <2>3. Cardinality(U \cup {x}) = Cardinality(U) + 1
    BY <1>1, <1>3, FS_AddElement
  <2>4. Total(Cut(f, U)) = Cardinality(U) /\ Cardinality(U) \in Nat
    BY <1>1, <1>3
  <2>5. Total(Cut(f, U \cup {x})) = Cardinality(U \cup {x})
    BY <2>1, <2>2, <2>3, <2>4
  <2>6. QED
    BY <1>3, <2>5
<1> HIDE DEF P
<1>4. T \in P
  BY <1>1, <1>2, <1>3, SetsByInduction
<1>5. Total(f) = Total(Cut(f, T))
  <2>1. \A x \in S \ T : f[x] = 0
    OBVIOUS
  <2>2. QED
    BY <2>1, TotalOfPart
<1>6. QED
  BY <1>4, <1>5 DEF P

(* A sum over pairs, taken row by row. *)
LEMMA TotalOfPairs ==
  ASSUME NEW A, IsFiniteSet(A), NEW B, IsFiniteSet(B), NEW f \in [A \X B -> Int]
  PROVE  Total(f) = Total([a \in A |-> Total([b \in B |-> f[<<a, b>>]])])
<1> DEFINE row(a) == [b \in B |-> f[<<a, b>>]]
           rows == [a \in A |-> Total(row(a))]
           P == {T \in SUBSET A : Total(Cut(f, T \X B)) = Total(Cut(rows, T))}
<1>1. IsFiniteSet(A \X B)
  BY FS_Product
<1>2. \A a \in A : row(a) \in [B -> Int] /\ Total(row(a)) \in Int
  BY TotalInt
<1>3. rows \in [A -> Int] /\ \A a \in A : rows[a] = Total(row(a))
  BY <1>2
<1> HIDE DEF rows, row
<1>4. {} \in P
  <2>1. {} \X B = {}
    OBVIOUS
  <2>2. QED
    BY <1>1, <1>3, <2>1, CutTotals
<1>5. ASSUME NEW T \in SUBSET A, NEW a \in A, T \in P, a \notin T
      PROVE  T \cup {a} \in P
  <2> DEFINE g == Cut(f, (T \cup {a}) \X B)
             X == (T \cup {a}) \X B
  <2>1. X \subseteq A \X B /\ g \in [X -> Int] /\ T \X B \in SUBSET X /\ Cut(g, T \X B) = Cut(f, T \X B)
    BY <1>5 DEF Cut
  <2>2. IsFiniteSet(X)
    BY <1>1, <2>1, FS_Subset
  <2>3. X \ (T \X B) = {a} \X B
    BY <1>5
  <2>4. Cut(g, {a} \X B) = Cut(f, {a} \X B)
    BY DEF Cut
  <2>5. Total(Cut(f, {a} \X B)) = Total(row(a))
    <3> DEFINE e == Cut(f, {a} \X B)
               Q == {U \in SUBSET B : Total(Cut(e, {a} \X U)) = Total(Cut(row(a), U))}
               Y == {a} \X B
    <3>1. e \in [Y -> Int] /\ Y \subseteq A \X B /\ row(a) \in [B -> Int]
      BY <1>2 DEF Cut
    <3>2. IsFiniteSet(Y)
      BY <1>1, <3>1, FS_Subset
    <3>3. \A b \in B : e[<<a, b>>] = row(a)[b]
      BY DEF Cut, row
    <3> HIDE DEF e
    <3>4. {} \in Q
      <4>1. {a} \X {} = {}
        OBVIOUS
      <4>2. QED
        BY <3>1, <3>2, <4>1, CutTotals
    <3>5. ASSUME NEW U \in SUBSET B, NEW b \in B, U \in Q, b \notin U
          PROVE  U \cup {b} \in Q
      <4>1. /\ {a} \X (U \cup {b}) = ({a} \X U) \cup {<<a, b>>}
            /\ {a} \X U \in SUBSET Y /\ <<a, b>> \in Y /\ <<a, b>> \notin {a} \X U
        BY <3>5
      <4>2. Total(Cut(e, ({a} \X U) \cup {<<a, b>>})) = e[<<a, b>>] + Total(Cut(e, {a} \X U))
        <5> DEFINE V == {a} \X U
                   z == <<a, b>>
        <5>1. V \in SUBSET Y /\ z \in Y /\ z \notin V
          BY <4>1
        <5> HIDE DEF Y, V, z
        <5>2. Total(Cut(e, V \cup {z})) = e[z] + Total(Cut(e, V))
          BY <3>1, <3>2, <5>1, CutAdd
        <5>3. QED
          BY <5>2 DEF V, z
      <4>3. Total(Cut(row(a), U \cup {b})) = row(a)[b] + Total(Cut(row(a), U))
        BY <3>1, <3>5, CutAdd
      <4>4. Total(Cut(e, {a} \X U)) = Total(Cut(row(a), U))
        BY <3>5
      <4>5. Total(Cut(e, {a} \X (U \cup {b}))) = Total(Cut(row(a), U \cup {b}))
        BY <3>3, <4>1, <4>2, <4>3, <4>4
      <4>6. QED
        BY <3>5, <4>5
    <3> HIDE DEF Q
    <3>6. B \in Q
      BY <3>4, <3>5, SetsByInduction
    <3>7. Total(Cut(e, Y)) = Total(Cut(row(a), B))
      BY <3>6 DEF Q
    <3> HIDE DEF Y
    <3>8. Total(e) = Total(row(a))
      BY <3>1, <3>2, <3>7, CutTotals
    <3>9. QED
      BY <3>8 DEF e
  <2> HIDE DEF g, X
  <2>6. Total(g) = Total(Cut(g, T \X B)) + Total(Cut(g, X \ (T \X B)))
    BY <2>1, <2>2, TotalSplit
  <2>7. Total(Cut(rows, T \cup {a})) = rows[a] + Total(Cut(rows, T))
    BY <1>3, <1>5, CutAdd
  <2>8. Total(Cut(f, T \X B)) = Total(Cut(rows, T))
    BY <1>5
  <2>9. Total(row(a)) \in Int /\ Total(Cut(rows, T)) \in Int
    BY <1>2, <1>3, CutTotals
  <2>12. Total(g) = Total(Cut(rows, T)) + Total(row(a))
    BY <2>1, <2>3, <2>4, <2>5, <2>6, <2>8
  <2>13. Total(Cut(rows, T \cup {a})) = Total(row(a)) + Total(Cut(rows, T))
    BY <1>3, <2>7
  <2>10. Total(g) = Total(Cut(rows, T \cup {a}))
    BY <2>9, <2>12, <2>13
  <2>11. QED
    BY <1>5, <2>10 DEF g
<1> HIDE DEF P
<1>6. A \in P
  BY <1>4, <1>5, SetsByInduction
<1>7. Total(Cut(f, A \X B)) = Total(Cut(rows, A))
  BY <1>6 DEF P
<1>8. Total(f) = Total(rows)
  BY <1>1, <1>3, <1>7, CutTotals
<1>9. QED
  BY <1>8 DEF rows, row

----------------------------------------------------------------------------
(* Sharing credits among buckets.                                          *)

LEMMA Quotient ==
  ASSUME NEW a \in Nat, NEW n \in Nat \ {0}
  PROVE  /\ a \div n \in Nat /\ a % n \in 0 .. n - 1
         /\ a = n * (a \div n) + (a % n)
OBVIOUS

LEMMA ProductMonotone ==
  ASSUME NEW a \in Nat, NEW b \in Nat, NEW c \in Nat, a <= b
  PROVE  c * a <= c * b
<1>1. PICK d \in Nat : b = a + d
  <2>1. b - a \in Nat /\ b = a + (b - a)
    OBVIOUS
  <2>2. QED
    BY <2>1
<1>2. c * b = c * a + c * d /\ c * d \in Nat /\ c * a \in Nat
  BY <1>1
<1>3. QED
  BY <1>2

LEMMA ProductReflects ==
  ASSUME NEW a \in Nat, NEW b \in Nat, NEW c \in Nat \ {0}, c * a <= c * b
  PROVE  a <= b
<1> SUFFICES ASSUME b + 1 <= a PROVE FALSE
  OBVIOUS
<1>1. c * (b + 1) <= c * a
  BY ProductMonotone
<1>2. c * (b + 1) = c * b + c
  OBVIOUS
<1>3. QED
  BY <1>1, <1>2

LEMMA BucketsAreFinite == IsFiniteSet(Bucket) /\ IsFiniteSet(Service) /\ IsFiniteSet(User)
BY CreditLedgerAssumption, FS_Product DEF Bucket

(* The order that decides where a credit goes that rounding left over. *)
LEMMA BucketsAreOrdered ==
  /\ \A b \in Bucket : ~Earlier(b, b)
  /\ \A b, c \in Bucket : b # c => Earlier(b, c) \/ Earlier(c, b)
  /\ \A b, c, d \in Bucket : Earlier(b, c) /\ Earlier(c, d) => Earlier(b, d)
<1>1. \A b \in Bucket : b[1] \in Nat /\ b[2] \in Nat /\ b = <<b[1], b[2]>>
  <2>1. Service \subseteq Nat /\ User \subseteq Nat
    BY CreditLedgerAssumption
  <2>2. ASSUME NEW b \in Bucket PROVE b[1] \in Nat /\ b[2] \in Nat /\ b = <<b[1], b[2]>>
    <3>1. PICK s \in Service, u \in User : b = <<s, u>>
      BY DEF Bucket
    <3>2. QED
      BY <2>1, <3>1
  <2>3. QED
    BY <2>2
<1>2. \A b \in Bucket : ~Earlier(b, b)
  BY <1>1 DEF Earlier
<1>3. \A b, c \in Bucket : b # c => Earlier(b, c) \/ Earlier(c, b)
  BY <1>1 DEF Earlier
<1>4. \A b, c, d \in Bucket : Earlier(b, c) /\ Earlier(c, d) => Earlier(b, d)
  BY <1>1 DEF Earlier
<1>5. QED
  BY <1>2, <1>3, <1>4

(* A finite set of which every element has another number below its size   *)
(* has as many elements with a number below n as there are numbers.        *)
LEMMA NumberedBelow ==
  ASSUME NEW S, IsFiniteSet(S), NEW f \in [S -> 0 .. Cardinality(S) - 1],
         \A x, y \in S : f[x] = f[y] => x = y,
         NEW n \in Nat, n <= Cardinality(S)
  PROVE  Cardinality({x \in S : f[x] < n}) = n
<1> DEFINE m == Cardinality(S)
           T == {x \in S : f[x] < n}
           g == [x \in T |-> f[x]]
<1>1. m \in Nat
  BY FS_CardinalityType
<1>2. IsFiniteSet(0 .. m - 1) /\ Cardinality(0 .. m - 1) = m
  <2> HIDE DEF m
  <2>1. QED
    BY <1>1, FS_Interval
<1>3. f \in Injection(S, 0 .. m - 1)
  BY DEF Injection, IsInjective
<1>4. f \in Surjection(S, 0 .. m - 1)
  <2> HIDE DEF m
  <2>1. Cardinality(S) = Cardinality(0 .. m - 1)
    BY <1>2 DEF m
  <2>2. QED
    BY <1>2, <1>3, <2>1, FS_Injection
<1>5. \A k \in 0 .. m - 1 : \E x \in S : f[x] = k
  BY <1>4 DEF Surjection
<1>6. g \in [T -> 0 .. n - 1]
  BY <1>1
<1>7. \A k \in 0 .. n - 1 : \E x \in T : g[x] = k
  <2> SUFFICES ASSUME NEW k \in 0 .. n - 1 PROVE \E x \in T : g[x] = k
    OBVIOUS
  <2>1. k \in 0 .. m - 1 /\ k < n
    BY <1>1
  <2>2. PICK x \in S : f[x] = k
    BY <1>5, <2>1
  <2>3. QED
    BY <2>1, <2>2
<1>8. \A x, y \in T : g[x] = g[y] => x = y
  OBVIOUS
<1>9. IsFiniteSet(T)
  BY FS_Subset
<1> HIDE DEF g, T
<1>10. g \in Bijection(T, 0 .. n - 1)
  BY <1>6, <1>7, <1>8 DEF Bijection, Injection, Surjection, IsInjective
<1>11. Cardinality(0 .. n - 1) = Cardinality(T)
  BY <1>9, <1>10, FS_Bijection DEF ExistsBijection
<1>12. Cardinality(0 .. n - 1) = n
  BY FS_Interval
<1>13. QED
  BY <1>11, <1>12 DEF T

(* The largest remainders get exactly what rounding left over: the check    *)
(* that ends allocateAdditionalCredits (outstanding !== 0n) never throws.   *)
THEOREM SharesAddUp ==
  ASSUME NEW room \in [Bucket -> Nat], NEW available \in Nat
  PROVE  /\ Shares(room, available) \in [Bucket -> Nat]
         /\ \A b \in Bucket : Shares(room, available)[b] <= room[b]
         /\ Total(Shares(room, available)) = Lesser(available, Total(room))
<1> DEFINE C == Total(room)
           K == Lesser(available, C)
           floor == [b \in Bucket |-> IF C = 0 THEN 0 ELSE (room[b] * K) \div C]
           rest == [b \in Bucket |-> IF C = 0 THEN 0 ELSE (room[b] * K) % C]
           Before(b, c) == rest[b] > rest[c] \/ (rest[b] = rest[c] /\ Earlier(b, c))
           Rank(b) == Cardinality({c \in Bucket : floor[c] < room[c] /\ Before(c, b)})
           over == K - Total(floor)
           share == [b \in Bucket |-> floor[b] + IF floor[b] < room[b] /\ Rank(b) < over THEN 1 ELSE 0]
           Cand == {b \in Bucket : floor[b] < room[b]}
<1>1. Shares(room, available) = share
  BY DEF Shares
<1>2. C \in Nat /\ room \in [Bucket -> Int] /\ \A b \in Bucket : room[b] <= C
  BY BucketsAreFinite, TotalNat, TotalIncluding
<1> HIDE DEF C
<1>3. K \in Nat /\ K <= C /\ (C = 0 => K = 0)
  BY <1>2 DEF Lesser
<1> HIDE DEF K
<1>4. ASSUME NEW b \in Bucket
      PROVE  /\ floor[b] \in Nat /\ rest[b] \in Nat
             /\ C * floor[b] + rest[b] = K * room[b]
             /\ floor[b] <= room[b]
             /\ rest[b] > 0 => floor[b] < room[b]
             /\ rest[b] <= C
  <2>1. CASE C = 0
    <3>1. room[b] = 0 /\ K = 0 /\ floor[b] = 0 /\ rest[b] = 0
      BY <1>2, <1>3, <2>1
    <3> HIDE DEF floor, rest
    <3>2. QED
      BY <2>1, <3>1
  <2>2. CASE C # 0
    <3> DEFINE a == room[b] * K
    <3>1. a \in Nat /\ a = K * room[b] /\ room[b] \in Nat
      BY <1>3
    <3>2. floor[b] = a \div C /\ rest[b] = a % C
      BY <2>2
    <3> HIDE DEF a, floor, rest
    <3>3. floor[b] \in Nat /\ rest[b] \in 0 .. C - 1 /\ a = C * floor[b] + rest[b]
      <4>1. C \in Nat \ {0}
        BY <1>2, <2>2
      <4>2. a \div C \in Nat /\ a % C \in 0 .. C - 1 /\ a = C * (a \div C) + (a % C)
        BY ONLY <3>1, <4>1, Quotient
      <4>3. QED
        BY <3>2, <4>2
    <3>4. K * room[b] <= C * room[b]
      <4>1. room[b] * K <= room[b] * C
        BY <1>2, <1>3, <3>1, ProductMonotone
      <4>2. room[b] * K = K * room[b] /\ room[b] * C = C * room[b]
        BY <1>2, <1>3, <3>1
      <4>3. QED
        BY <4>1, <4>2
    <3>5. C * floor[b] \in Nat /\ C * room[b] \in Nat
      BY <1>2, <3>1, <3>3
    <3>6. C * floor[b] <= C * room[b]
      BY <3>1, <3>3, <3>4, <3>5
    <3>7. floor[b] <= room[b]
      BY <1>2, <2>2, <3>1, <3>3, <3>6, ProductReflects
    <3>8. rest[b] > 0 => floor[b] # room[b]
      BY <3>1, <3>3, <3>4, <3>5
    <3>9. QED
      BY <1>2, <3>1, <3>3, <3>7, <3>8
  <2>3. QED
    BY <2>1, <2>2
<1>5. floor \in [Bucket -> Nat] /\ rest \in [Bucket -> Nat] /\ floor \in [Bucket -> Int] /\ rest \in [Bucket -> Int]
  <2>1. \A b \in Bucket : floor[b] \in Nat /\ rest[b] \in Nat
    BY <1>4
  <2>2. QED
    BY <2>1
<1> HIDE DEF floor, rest
<1>6. Total(floor) \in Nat /\ Total(rest) \in Nat
  BY <1>5, BucketsAreFinite, TotalNat
<1>7. C * Total(floor) + Total(rest) = K * C
  <2> DEFINE s == [b \in Bucket |-> C * floor[b]]
             k == [b \in Bucket |-> K * room[b]]
  <2>1. s \in [Bucket -> Int] /\ k \in [Bucket -> Int] /\ \A b \in Bucket : k[b] = s[b] + rest[b] /\ s[b] = C * floor[b] /\ k[b] = K * room[b]
    BY <1>2, <1>3, <1>4, <1>5
  <2> HIDE DEF s, k
  <2>2. Total(k) = Total(s) + Total(rest)
    BY <1>5, <2>1, BucketsAreFinite, TotalOfSum
  <2>3. Total(s) = C * Total(floor)
    BY <1>2, <1>5, <2>1, BucketsAreFinite, TotalScaled
  <2>4. Total(k) = K * Total(room)
    BY <1>2, <1>3, <2>1, BucketsAreFinite, TotalScaled
  <2>5. QED
    BY <2>2, <2>3, <2>4 DEF C
<1>8. over \in Nat /\ Total(rest) = C * over
  <2> DEFINE F == Total(floor)
             R == Total(rest)
  <2>1. F \in Nat /\ R \in Nat /\ C * F + R = K * C
    BY <1>6, <1>7
  <2> HIDE DEF F, R
  <2>2. CASE C = 0
    <3>1. F = 0 /\ R = 0
      <4>1. \A b \in Bucket : floor[b] = 0
        <5>1. \A b \in Bucket : floor[b] <= room[b] /\ room[b] <= 0 /\ floor[b] \in Nat /\ room[b] \in Nat
          BY <1>2, <1>4, <2>2
        <5>2. QED
          BY <5>1
      <4>2. Total(floor) = 0
        BY <1>5, <4>1, BucketsAreFinite, TotalOfZeros
      <4>3. QED
        BY <2>1, <2>2, <4>2, <1>3 DEF F
    <3>2. QED
      BY <1>3, <2>2, <3>1 DEF F, R
  <2>3. CASE C # 0
    <3>1. C * F <= C * K
      <4>1. K * C = C * K /\ C * F \in Nat
        BY <1>2, <1>3, <2>1
      <4>2. QED
        BY <2>1, <4>1
    <3>2. F <= K
      BY <1>2, <1>3, <2>1, <2>3, <3>1, ProductReflects
    <3>3. R = C * (K - F)
      <4>1. C * (K - F) = C * K - C * F /\ K * C = C * K
        BY <1>2, <1>3, <2>1
      <4>2. C * K \in Int /\ C * F \in Int
        BY <1>2, <1>3, <2>1
      <4>3. QED
        BY <2>1, <4>1, <4>2
    <3>4. QED
      BY <1>3, <2>1, <3>2, <3>3 DEF F, R
  <2>4. QED
    BY <2>2, <2>3
<1>9. IsFiniteSet(Cand) /\ Cardinality(Cand) \in Nat
  BY BucketsAreFinite, FS_Subset, FS_CardinalityType
<1>10. over <= Cardinality(Cand)
  <2>1. CASE C = 0
    <3>1. over = 0
      <4>1. K = 0 /\ Total(floor) \in Nat
        BY <1>3, <1>6, <2>1
      <4>2. QED
        BY <1>8, <4>1
    <3>2. QED
      BY <1>9, <3>1
  <2>2. CASE C # 0
    <3> DEFINE one == [b \in Bucket |-> IF b \in Cand THEN 1 ELSE 0]
               most == [b \in Bucket |-> C * one[b]]
    <3>1. /\ one \in [Bucket -> Int] /\ most \in [Bucket -> Int]
          /\ \A b \in Bucket : one[b] = (IF b \in Cand THEN 1 ELSE 0) /\ most[b] = C * one[b] /\ rest[b] <= most[b]
      <4>1. \A b \in Bucket : rest[b] <= IF b \in Cand THEN C ELSE 0
        <5>1. \A b \in Bucket : b \notin Cand => rest[b] = 0
          BY <1>4
        <5>2. \A b \in Bucket : rest[b] <= C
          BY <1>4
        <5>3. QED
          BY <5>1, <5>2
      <4> HIDE DEF Cand
      <4>2. \A b \in Bucket : one[b] \in {0, 1}
        OBVIOUS
      <4>3. C * 1 = C /\ C * 0 = 0
        BY <1>2
      <4>4. QED
        BY <1>2, <4>1, <4>2, <4>3
    <3> HIDE DEF one, most
    <3>2. Total(one) = Cardinality(Cand)
      <4>1. Cand \in SUBSET Bucket
        OBVIOUS
      <4> HIDE DEF Cand
      <4>2. QED
        BY <3>1, <4>1, BucketsAreFinite, TotalOfOnes
    <3>3. Total(most) = C * Cardinality(Cand)
      BY <1>2, <3>1, <3>2, BucketsAreFinite, TotalScaled
    <3>4. Total(rest) <= Total(most)
      BY <1>5, <3>1, BucketsAreFinite, TotalMonotone
    <3> HIDE DEF over, Cand
    <3>5. C * over <= C * Cardinality(Cand)
      BY <1>8, <3>3, <3>4
    <3>6. QED
      BY <1>2, <1>8, <1>9, <2>2, <3>5, ProductReflects
  <2>3. QED
    BY <2>1, <2>2
<1>11. /\ \A b \in Cand : Rank(b) \in 0 .. Cardinality(Cand) - 1
       /\ \A b, c \in Cand : Rank(b) = Rank(c) => b = c
  <2> DEFINE Ahead(b) == {c \in Bucket : floor[c] < room[c] /\ Before(c, b)}
  <2>1. \A b \in Bucket : rest[b] \in Nat
    BY <1>4
  <2>2. \A b \in Bucket : ~Before(b, b)
    BY <2>1, BucketsAreOrdered
  <2>3. \A b, c \in Bucket : b # c => Before(b, c) \/ Before(c, b)
    BY <2>1, BucketsAreOrdered
  <2>4. \A b, c, d \in Bucket : Before(b, c) /\ Before(c, d) => Before(b, d)
    <3> SUFFICES ASSUME NEW b \in Bucket, NEW c \in Bucket, NEW d \in Bucket, Before(b, c), Before(c, d)
                 PROVE  Before(b, d)
      OBVIOUS
    <3>1. Earlier(b, c) /\ Earlier(c, d) => Earlier(b, d)
      BY BucketsAreOrdered
    <3>2. QED
      BY <2>1, <3>1
  <2> HIDE DEF Before
  <2>5. ASSUME NEW b \in Cand
        PROVE  Ahead(b) \in SUBSET (Cand \ {b}) /\ IsFiniteSet(Ahead(b)) /\ Cardinality(Ahead(b)) \in 0 .. Cardinality(Cand) - 1
    <3>1. Ahead(b) \in SUBSET (Cand \ {b})
      BY <2>2
    <3>2. IsFiniteSet(Cand \ {b}) /\ Cardinality(Cand \ {b}) = Cardinality(Cand) - 1
      <4> HIDE DEF Cand
      <4>1. QED
        BY <1>9, <2>5, FS_RemoveElement
    <3> HIDE DEF Ahead, Cand
    <3>3. IsFiniteSet(Ahead(b)) /\ Cardinality(Ahead(b)) <= Cardinality(Cand) - 1
      BY <3>1, <3>2, FS_Subset
    <3>4. Cardinality(Ahead(b)) \in Nat
      BY <3>3, FS_CardinalityType
    <3>5. QED
      BY <1>9, <3>1, <3>3, <3>4
  <2>6. ASSUME NEW b \in Cand, NEW c \in Cand, Before(b, c)
        PROVE  Cardinality(Ahead(b)) # Cardinality(Ahead(c))
    <3>1. Ahead(b) \in SUBSET Ahead(c) /\ b \in Ahead(c) /\ b \notin Ahead(b)
      BY <2>2, <2>4, <2>6
    <3>2. IsFiniteSet(Ahead(c))
      BY <2>5
    <3> HIDE DEF Ahead
    <3>3. QED
      BY <3>1, <3>2, FS_Subset
  <2>7. \A b \in Cand : Rank(b) = Cardinality(Ahead(b))
    OBVIOUS
  <2> HIDE DEF Ahead, Rank
  <2>8. ASSUME NEW b \in Cand, NEW c \in Cand, Rank(b) = Rank(c) PROVE b = c
    BY <2>3, <2>6, <2>7, <2>8
  <2>9. QED
    BY <2>5, <2>7, <2>8
<1> DEFINE More == {b \in Cand : Rank(b) < over}
           one == [b \in Bucket |-> IF b \in More THEN 1 ELSE 0]
<1>12. Cardinality(More) = over
  <2> DEFINE f == [b \in Cand |-> Rank(b)]
  <2>1. f \in [Cand -> 0 .. Cardinality(Cand) - 1] /\ (\A x, y \in Cand : f[x] = f[y] => x = y) /\ More = {x \in Cand : f[x] < over}
    <3> HIDE DEF Cand, Rank, over
    <3>1. QED
      BY <1>11
  <2> HIDE DEF f, Cand, Rank, over, More
  <2>2. QED
    BY <1>8, <1>9, <1>10, <2>1, NumberedBelow
<1>13. /\ one \in [Bucket -> Int] /\ share \in [Bucket -> Nat] /\ share \in [Bucket -> Int]
       /\ \A b \in Bucket : share[b] = floor[b] + one[b] /\ share[b] <= room[b]
  <2>1. ASSUME NEW b \in Bucket
        PROVE  one[b] \in {0, 1} /\ share[b] = floor[b] + one[b] /\ share[b] <= room[b] /\ share[b] \in Nat
    <3> HIDE DEF Rank, over
    <3>1. floor[b] \in Nat /\ room[b] \in Nat /\ floor[b] <= room[b]
      BY <1>4
    <3>2. QED
      BY <3>1
  <2> HIDE DEF More, Rank, over
  <2>2. \A b \in Bucket : share[b] \in Nat
    BY <2>1
  <2>3. DOMAIN share = Bucket /\ DOMAIN one = Bucket /\ share = [b \in Bucket |-> share[b]] /\ one = [b \in Bucket |-> one[b]]
    OBVIOUS
  <2> HIDE DEF share, one
  <2>4. QED
    BY <2>1, <2>2, <2>3
<1>14. Total(one) = over
  <2>1. More \in SUBSET Bucket /\ \A b \in Bucket : one[b] = IF b \in More THEN 1 ELSE 0
    OBVIOUS
  <2> HIDE DEF More, one, over
  <2>2. QED
    BY <1>12, <1>13, <2>1, BucketsAreFinite, TotalOfOnes
<1> HIDE DEF share, one
<1>15. Total(share) = Total(floor) + Total(one)
  BY <1>5, <1>13, BucketsAreFinite, TotalOfSum
<1>16. Total(share) = K
  BY <1>3, <1>6, <1>14, <1>15
<1>17. QED
  BY <1>1, <1>13, <1>16 DEF K, C

----------------------------------------------------------------------------
(* Refunds and disputes.                                                   *)

LEMMA PaymentConstants ==
  /\ IsFiniteSet(Payment) /\ Price \in [Payment -> Nat \ {0}]
  /\ IsFiniteSet(Object) /\ Charge \in [Object -> Payment] /\ Principal \in [Object -> Nat \ {0}]
  /\ None \notin Replica
  /\ IsFiniteSet(Row)
  /\ \A p \in Payment : IsFiniteSet(ObjectsOf(p)) /\ ObjectsOf(p) \subseteq Object
  /\ \A sc \in Scopes : sc.snapshots \in 0 .. MaxSnapshots /\ sc.copies \in 1 .. 2 /\ sc.objects \subseteq Object
  /\ MaxSnapshots \in Nat
<1>1. IsFiniteSet(Object)
  BY CreditLedgerAssumption
<1>2. IsFiniteSet(BOOLEAN)
  <2>1. IsFiniteSet({TRUE} \cup {FALSE})
    BY FS_Singleton, FS_AddElement
  <2>2. BOOLEAN = {TRUE} \cup {FALSE}
    OBVIOUS
  <2>3. QED
    BY <2>1, <2>2
<1>3. IsFiniteSet(Row)
  BY <1>1, <1>2, FS_Product DEF Row
<1>4. \A p \in Payment : IsFiniteSet(ObjectsOf(p)) /\ ObjectsOf(p) \subseteq Object
  BY <1>1, FS_Subset DEF ObjectsOf
<1>5. QED
  BY <1>1, <1>3, <1>4, CreditLedgerAssumption

(* What is held back of a payment for one object, and for all, by rows.    *)
Remaining(rows, o) == Positive(Active(rows, o) - Restored(rows, o))
Withheld(p, rows) == Total([o \in ObjectsOf(p) |-> Remaining(rows, o)])

LEMMA RemainingIs ==
  ASSUME NEW rows, NEW o \in Object
  PROVE  /\ Active(rows, o) \in Nat /\ Restored(rows, o) \in Nat
         /\ Remaining(rows, o) =
              IF <<o, FALSE>> \in rows /\ <<o, TRUE>> \notin rows THEN Principal[o] ELSE 0
         /\ Remaining(rows, o) \in Nat
<1>1. Principal[o] \in Nat
  BY PaymentConstants
<1>2. QED
  BY <1>1 DEF Remaining, Active, Restored, Positive

LEMMA WithheldIs ==
  ASSUME NEW p \in Payment, NEW rows
  PROVE  /\ [o \in ObjectsOf(p) |-> Remaining(rows, o)] \in [ObjectsOf(p) -> Nat]
         /\ Withheld(p, rows) \in Nat
         /\ DesiredApplied(p, rows) = Lesser(Price[p], Withheld(p, rows))
         /\ DesiredApplied(p, rows) \in Nat
<1>1. [o \in ObjectsOf(p) |-> Remaining(rows, o)] \in [ObjectsOf(p) -> Nat]
  BY RemainingIs, PaymentConstants
<1>2. Withheld(p, rows) \in Nat
  BY <1>1, PaymentConstants, TotalNat DEF Withheld
<1>3. DesiredApplied(p, rows) = Lesser(Price[p], Withheld(p, rows))
  BY DEF DesiredApplied, Withheld, Remaining
<1>4. Price[p] \in Nat
  BY PaymentConstants
<1>5. QED
  BY <1>1, <1>2, <1>3, <1>4 DEF Lesser

(* The rows that count are the ones of the payment's own objects.          *)
LEMMA WithheldDependsOnRows ==
  ASSUME NEW p \in Payment, NEW rows, NEW more,
         \A o \in ObjectsOf(p) : \A b \in BOOLEAN : <<o, b>> \in rows <=> <<o, b>> \in more
  PROVE  Withheld(p, rows) = Withheld(p, more)
<1>1. \A o \in ObjectsOf(p) : Remaining(rows, o) = Remaining(more, o)
  BY RemainingIs, PaymentConstants
<1>2. QED
  BY <1>1 DEF Withheld

(* A row more changes what is held back for its own object only.           *)
LEMMA WithheldWithRow ==
  ASSUME NEW p \in Payment, NEW rows, NEW o \in ObjectsOf(p), NEW b \in BOOLEAN
  PROVE  Withheld(p, rows \cup {<<o, b>>}) =
           Withheld(p, rows) - Remaining(rows, o) + Remaining(rows \cup {<<o, b>>}, o)
<1> DEFINE more == rows \cup {<<o, b>>}
           f == [x \in ObjectsOf(p) |-> Remaining(rows, x)]
           g == [x \in ObjectsOf(p) |-> Remaining(more, x)]
<1>1. f \in [ObjectsOf(p) -> Int] /\ g \in [ObjectsOf(p) -> Int] /\ f[o] = Remaining(rows, o) /\ g[o] = Remaining(more, o)
  <2>1. \A x \in ObjectsOf(p) : x \in Object
    BY PaymentConstants
  <2> HIDE DEF more
  <2>2. ASSUME NEW x \in ObjectsOf(p) PROVE Remaining(rows, x) \in Int /\ Remaining(more, x) \in Int
    <3>1. x \in Object
      BY <2>1
    <3>2. Remaining(rows, x) \in Nat
      BY <3>1, RemainingIs
    <3>3. Remaining(more, x) \in Nat
      BY <3>1, RemainingIs
    <3>4. QED
      BY <3>2, <3>3
  <2>3. QED
    BY <2>2
<1>2. \A x \in ObjectsOf(p) \ {o} : g[x] = f[x]
  <2> SUFFICES ASSUME NEW x \in ObjectsOf(p) \ {o} PROVE Remaining(more, x) = Remaining(rows, x)
    OBVIOUS
  <2>1. x \in Object
    BY PaymentConstants
  <2>2. \A c \in BOOLEAN : <<x, c>> \in more <=> <<x, c>> \in rows
    OBVIOUS
  <2> HIDE DEF more
  <2>3. QED
    BY <2>1, <2>2, RemainingIs
<1> HIDE DEF f, g
<1>3. Total(g) = Total(f) - f[o] + g[o]
  BY <1>1, <1>2, PaymentConstants, TotalChanged
<1>4. QED
  BY <1>1, <1>3 DEF Withheld, f, g

(* billing_credit_payment_adjustment_coherence sums over the rows that took *)
(* credits; the handler sums over the objects.  They agree, before an       *)
(* event and after it.                                                      *)
LEMMA ActiveBeforeIs ==
  ASSUME NEW p \in Payment, TypeOK
  PROVE  ActiveBefore(p) = Withheld(p, RowsOf(p))
<1> DEFINE rows == RowsOf(p)
           T == {o \in ObjectsOf(p) : <<o, FALSE>> \in rows}
           f == [o \in ObjectsOf(p) |-> Remaining(rows, o)]
           g == [x \in T \X {FALSE} |-> Positive(Principal[x[1]] - Restored(rows, x[1]))]
<1>1. TakenOf(p) = T \X {FALSE}
  <2>1. ASSUME NEW x \in TakenOf(p) PROVE x \in T \X {FALSE}
    <3>1. x \in Row /\ Charge[x[1]] = p /\ ~x[2] /\ x \in rows
      BY <2>1 DEF TakenOf, RowsOf
    <3>2. PICK o \in Object, b \in BOOLEAN : x = <<o, b>>
      BY <3>1 DEF Row
    <3>3. b = FALSE
      BY <3>1, <3>2
    <3>4. x = <<o, FALSE>> /\ o \in ObjectsOf(p)
      BY <3>1, <3>2, <3>3 DEF ObjectsOf
    <3> HIDE DEF rows
    <3>5. QED
      BY <3>1, <3>4
  <2>2. ASSUME NEW x \in T \X {FALSE} PROVE x \in TakenOf(p)
    <3>1. PICK o \in T : x = <<o, FALSE>>
      <4> HIDE DEF T
      <4> DEFINE B == {FALSE}
      <4>3. x \in T \X B
        OBVIOUS
      <4> HIDE DEF B
      <4>1. PICK o \in T, b \in B : x = <<o, b>>
        BY <4>3
      <4>4. b = FALSE
        BY DEF B
      <4>2. QED
        BY <4>1, <4>4
    <3>2. x \in RowsOf(p) /\ ~x[2]
      BY <3>1
    <3>3. QED
      BY <3>2 DEF TakenOf
  <2>3. QED
    BY <2>1, <2>2
<1> HIDE DEF rows
<1>2. ASSUME NEW o \in ObjectsOf(p) PROVE o \in Object /\ Remaining(rows, o) \in Int
  <2>1. o \in Object
    BY PaymentConstants
  <2>2. Remaining(rows, o) \in Nat
    BY <2>1, RemainingIs
  <2>3. QED
    BY <2>1, <2>2
<1>3. \A o \in T : Positive(Principal[o] - Restored(rows, o)) = Remaining(rows, o)
  BY DEF Remaining, Active
<1>4. f \in [ObjectsOf(p) -> Int] /\ T \in SUBSET ObjectsOf(p) /\ IsFiniteSet(ObjectsOf(p)) /\ IsFiniteSet(T)
  BY <1>2, PaymentConstants, FS_Subset
<1>5. \A o \in ObjectsOf(p) \ T : f[o] = 0
  BY <1>2, RemainingIs
<1>6. Total(f) = Total(Cut(f, T))
  <2> HIDE DEF f, T
  <2>1. QED
    BY <1>4, <1>5, TotalOfPart
<1>7. Cut(f, T) = [o \in T |-> g[<<o, FALSE>>]]
  <2>1. \A o \in T : f[o] = g[<<o, FALSE>>]
    BY <1>3
  <2> HIDE DEF f, g
  <2>2. QED
    BY <2>1 DEF Cut
<1>8. g \in [T \X {FALSE} -> Int]
  <2>1. \A x \in T \X {FALSE} : x[1] \in T
    OBVIOUS
  <2>2. \A x \in T \X {FALSE} : Positive(Principal[x[1]] - Restored(rows, x[1])) \in Int
    BY <1>2, <1>3, <1>4, <2>1
  <2> HIDE DEF T
  <2>3. QED
    BY <2>2
<1>9. Total(g) = Total([o \in T |-> g[<<o, FALSE>>]])
  <2> DEFINE one(o) == [b \in {FALSE} |-> g[<<o, b>>]]
  <2>1. IsFiniteSet({FALSE})
    BY FS_Singleton
  <2> HIDE DEF g, T
  <2>2. Total(g) = Total([o \in T |-> Total([b \in {FALSE} |-> g[<<o, b>>]])])
    <3> DEFINE B == {FALSE}
    <3>1. g \in [T \X B -> Int] /\ IsFiniteSet(B)
      BY <1>8, <2>1
    <3> HIDE DEF B
    <3>2. Total(g) = Total([o \in T |-> Total([b \in B |-> g[<<o, b>>]])])
      <4>1. IsFiniteSet(T)
        BY <1>4
      <4>2. QED
        BY ONLY <3>1, <4>1, TotalOfPairs
    <3>3. QED
      BY <3>2 DEF B
  <2>3. ASSUME NEW o \in T PROVE Total(one(o)) = g[<<o, FALSE>>]
    <3>1. one(o) \in [{FALSE} -> Int] /\ one(o)[FALSE] = g[<<o, FALSE>>] /\ g[<<o, FALSE>>] \in Int
      BY <1>8
    <3> HIDE DEF one
    <3>2. Total(one(o)) = one(o)[FALSE] + Total([y \in {FALSE} \ {FALSE} |-> one(o)[y]])
      BY <2>1, <3>1, TotalRemove
    <3>3. Total([y \in {FALSE} \ {FALSE} |-> one(o)[y]]) = 0
      BY TotalEmpty
    <3>4. QED
      BY <3>1, <3>2, <3>3
  <2>4. QED
    BY <2>2, <2>3
<1>10. ActiveBefore(p) = Total(g)
  BY <1>1 DEF ActiveBefore, rows
<1>11. QED
  BY <1>6, <1>7, <1>9, <1>10 DEF Withheld, rows

LEMMA ActiveAfterIs ==
  ASSUME NEW e \in Event, TypeOK, ~Existing(e)
  PROVE  ActiveAfter(e) = Withheld(Charge[e.obj], RowsOf(Charge[e.obj]) \cup {RowOf(e)})
<1> DEFINE o == e.obj
           p == Charge[o]
           rows == RowsOf(p)
           more == rows \cup {<<o, e.rev>>}
<1>1. o \in Object /\ p \in Payment /\ o \in ObjectsOf(p) /\ e.rev \in BOOLEAN
  BY PaymentConstants DEF Event, ObjectsOf
<1>2. <<o, e.rev>> \notin rows /\ RowOf(e) = <<o, e.rev>>
  BY DEF Existing, RowsOf, RowOf
<1>3. ActiveBefore(p) = Withheld(p, rows)
  BY <1>1, ActiveBeforeIs
<1>4. ActiveAfter(e) =
        IF e.rev THEN ActiveBefore(p) - Lesser(Positive(Active(rows, o) - Restored(rows, o)), Principal[o])
        ELSE ActiveBefore(p) + Positive(Principal[o] - Restored(rows, o))
  BY DEF ActiveAfter
<1>5. Principal[o] \in Nat /\ Principal[o] > 0
  BY <1>1, PaymentConstants
<1> HIDE DEF o, p, rows
<1>6. Withheld(p, more) = Withheld(p, rows) - Remaining(rows, o) + Remaining(more, o)
  BY <1>1, WithheldWithRow
<1>7. Withheld(p, rows) \in Nat
  BY <1>1, WithheldIs
<1>8. /\ Active(rows, o) = IF <<o, FALSE>> \in rows THEN Principal[o] ELSE 0
      /\ Restored(rows, o) = IF <<o, TRUE>> \in rows THEN Principal[o] ELSE 0
      /\ Remaining(rows, o) = IF <<o, FALSE>> \in rows /\ <<o, TRUE>> \notin rows THEN Principal[o] ELSE 0
      /\ Remaining(more, o) = IF <<o, FALSE>> \in more /\ <<o, TRUE>> \notin more THEN Principal[o] ELSE 0
  <2> HIDE DEF more
  <2>1. QED
    BY <1>1, RemainingIs DEF Active, Restored
<1>9. CASE e.rev
  <2>1. e.rev = TRUE
    BY <1>1, <1>9
  <2>2. <<o, TRUE>> \in more /\ <<o, TRUE>> \notin rows
    BY <1>2, <2>1
  <2> HIDE DEF more
  <2>3. Remaining(more, o) = 0 /\ Restored(rows, o) = 0 /\ Remaining(rows, o) = Active(rows, o)
    BY <1>8, <2>2
  <2>4. Lesser(Positive(Active(rows, o) - Restored(rows, o)), Principal[o]) = Active(rows, o)
    BY <1>5, <1>8, <2>3 DEF Lesser, Positive
  <2>5. Active(rows, o) \in Int
    BY <1>5, <1>8
  <2>6. ActiveAfter(e) = Withheld(p, more)
    BY <1>3, <1>4, <1>6, <1>7, <1>9, <2>3, <2>4, <2>5
  <2>7. QED
    BY <1>2, <2>6 DEF more, rows, p, o
<1>10. CASE ~e.rev
  <2>1. e.rev = FALSE
    BY <1>1, <1>10
  <2>2. <<o, FALSE>> \in more /\ <<o, FALSE>> \notin rows /\ (<<o, TRUE>> \in more <=> <<o, TRUE>> \in rows)
    BY <1>2, <2>1
  <2> HIDE DEF more
  <2>3. Remaining(rows, o) = 0
    BY <1>8, <2>2
  <2>4. Remaining(more, o) = Positive(Principal[o] - Restored(rows, o)) /\ Remaining(more, o) \in Int
    BY <1>5, <1>8, <2>2 DEF Positive
  <2>6. ActiveAfter(e) = Withheld(p, more)
    BY <1>3, <1>4, <1>6, <1>7, <1>10, <2>3, <2>4
  <2>7. QED
    BY <1>2, <2>6 DEF more, rows, p, o
<1>11. QED
  BY <1>9, <1>10

----------------------------------------------------------------------------
(* Rating a portfolio.                                                     *)

Amounts == [rated : Nat, consumed : Nat]

LEMMA UsageIs ==
  ASSUME TypeOK, NEW i \in 1 .. Len(ledger)
  PROVE  /\ ledger[i].team \in Team /\ Named(i) \subseteq Service
         /\ \A b \in Bucket : RatedUsage(i, b) \in Nat /\ (b[1] \notin Named(i) => RatedUsage(i, b) = 0)
<1>1. ledger[i].team \in Team /\ ledger[i].usage \in Usages[ledger[i].team]
  BY DEF TypeOK
<1> DEFINE u == ledger[i].usage
<1>2. DOMAIN u \subseteq Bucket /\ \A b \in DOMAIN u : u[b] \in Nat
  BY <1>1, CreditLedgerAssumption
<1>3. Named(i) \subseteq Service
  <2> SUFFICES ASSUME NEW b \in DOMAIN u PROVE b[1] \in Service
    BY DEF Named
  <2>1. b \in Service \X User
    BY <1>2 DEF Bucket
  <2>2. QED
    BY <2>1
<1>4. ASSUME NEW b \in Bucket PROVE RatedUsage(i, b) \in Nat /\ (b[1] \notin Named(i) => RatedUsage(i, b) = 0)
  <2>1. CASE b \in DOMAIN u
    BY <1>2, <2>1 DEF RatedUsage, Named
  <2>2. CASE b \notin DOMAIN u
    BY <2>2 DEF RatedUsage
  <2>3. QED
    BY <2>1, <2>2
<1>5. QED
  BY <1>1, <1>3, <1>4

LEMMA RatingIs ==
  ASSUME TypeOK, NEW i \in 1 .. Len(ledger)
  PROVE  /\ Room(i) \in [Bucket -> Nat] /\ Available(i) \in Nat
         /\ \A b \in Bucket :
              /\ Capacity(i, b) \in Nat /\ Kept(i, b) \in Nat /\ Kept(i, b) <= alloc[b].consumed
              /\ Capacity(i, b) * Unit <= RatedUsage(i, b)
              /\ Room(i)[b] = Capacity(i, b) - Kept(i, b)
              /\ alloc[b] \in Amounts
         /\ Available(i) = Positive(balance + Total([b \in Bucket |-> alloc[b].consumed - Kept(i, b)]))
         /\ Total([b \in Bucket |-> alloc[b].consumed - Kept(i, b)]) \in Nat
<1>1. ASSUME NEW b \in Bucket
      PROVE  /\ Capacity(i, b) \in Nat /\ Kept(i, b) \in Nat /\ Kept(i, b) <= alloc[b].consumed
             /\ Kept(i, b) <= Capacity(i, b)
             /\ Capacity(i, b) * Unit <= RatedUsage(i, b)
             /\ alloc[b] \in Amounts
  <2>1. alloc[b] \in Amounts /\ alloc[b].consumed \in Nat
    BY DEF TypeOK, Amounts
  <2>2. RatedUsage(i, b) \in Nat /\ Unit \in Nat \ {0}
    BY UsageIs, CreditLedgerAssumption
  <2>3. Capacity(i, b) \in Nat /\ Capacity(i, b) * Unit <= RatedUsage(i, b)
    <3> DEFINE a == RatedUsage(i, b)
               q == a \div Unit
    <3>1. q \in Nat /\ a % Unit \in 0 .. Unit - 1 /\ a = Unit * q + (a % Unit)
      <4> HIDE DEF a
      <4>1. a \in Nat
        BY <2>2 DEF a
      <4>2. QED
        BY <2>2, <4>1, Quotient
    <3> HIDE DEF q
    <3>2. Unit * q = q * Unit /\ q * Unit \in Int
      BY <2>2, <3>1
    <3>3. q * Unit <= a
      BY <2>2, <3>1, <3>2
    <3>4. QED
      BY <3>1, <3>3 DEF Capacity, q
  <2>4. QED
    BY <2>1, <2>3 DEF Kept, Lesser
<1>2. Room(i) \in [Bucket -> Nat] /\ \A b \in Bucket : Room(i)[b] = Capacity(i, b) - Kept(i, b)
  <2>1. \A b \in Bucket : Capacity(i, b) - Kept(i, b) \in Nat
    BY <1>1
  <2>2. QED
    BY <2>1 DEF Room
<1>3. Total([b \in Bucket |-> alloc[b].consumed - Kept(i, b)]) \in Nat
  <2>1. \A b \in Bucket : alloc[b].consumed - Kept(i, b) \in Nat
    BY <1>1 DEF Amounts
  <2>2. [b \in Bucket |-> alloc[b].consumed - Kept(i, b)] \in [Bucket -> Nat]
    BY <2>1
  <2>3. QED
    BY <2>2, BucketsAreFinite, TotalNat
<1>4. Available(i) = Positive(balance + Total([b \in Bucket |-> alloc[b].consumed - Kept(i, b)]))
  BY DEF Available
<1>5. Available(i) \in Nat
  BY <1>3, <1>4 DEF Positive, TypeOK
<1>6. QED
  BY <1>1, <1>2, <1>3, <1>4, <1>5

LEMMA RatedIs ==
  ASSUME TypeOK, NEW i \in 1 .. Len(ledger)
  PROVE  /\ RateCreditPortfolio(i) \in [Bucket -> Amounts]
         /\ \A b \in Bucket :
              /\ RateCreditPortfolio(i)[b].rated = RatedUsage(i, b)
              /\ RateCreditPortfolio(i)[b].consumed = Kept(i, b) + Shares(Room(i), Available(i))[b]
              /\ Shares(Room(i), Available(i))[b] \in Nat
              /\ Shares(Room(i), Available(i))[b] <= Room(i)[b]
              /\ RateCreditPortfolio(i)[b].consumed <= Capacity(i, b)
         /\ Shares(Room(i), Available(i)) \in [Bucket -> Nat]
         /\ Total(Shares(Room(i), Available(i))) = Lesser(Available(i), Total(Room(i)))
<1> DEFINE share == Shares(Room(i), Available(i))
<1>1. Room(i) \in [Bucket -> Nat] /\ Available(i) \in Nat
  BY RatingIs
<1>2. /\ share \in [Bucket -> Nat] /\ Total(share) = Lesser(Available(i), Total(Room(i)))
      /\ \A b \in Bucket : share[b] <= Room(i)[b]
  BY <1>1, SharesAddUp
<1>3. RateCreditPortfolio(i) = [b \in Bucket |-> [rated |-> RatedUsage(i, b), consumed |-> Kept(i, b) + share[b]]]
  BY DEF RateCreditPortfolio
<1> HIDE DEF share
<1>4. ASSUME NEW b \in Bucket
      PROVE  /\ share[b] \in Nat /\ share[b] <= Room(i)[b] /\ RatedUsage(i, b) \in Nat
             /\ Kept(i, b) + share[b] \in Nat /\ Kept(i, b) + share[b] <= Capacity(i, b)
  <2>1. share[b] \in Nat /\ share[b] <= Room(i)[b]
    BY <1>2
  <2>2. Kept(i, b) \in Nat /\ Capacity(i, b) \in Nat /\ Room(i)[b] = Capacity(i, b) - Kept(i, b)
    BY RatingIs
  <2>3. QED
    BY <2>1, <2>2, UsageIs
<1>5. RateCreditPortfolio(i) \in [Bucket -> Amounts]
  BY <1>3, <1>4 DEF Amounts
<1>6. QED
  BY <1>2, <1>3, <1>4, <1>5 DEF share

LEMMA OfServiceIs ==
  ASSUME NEW rated \in [Bucket -> Amounts], NEW s \in Service
  PROVE  /\ OfService(rated, s) \in Amounts
         /\ [u \in User |-> rated[<<s, u>>].consumed] \in [User -> Nat]
         /\ [u \in User |-> rated[<<s, u>>].rated] \in [User -> Nat]
         /\ OfService(rated, s).consumed = Total([u \in User |-> rated[<<s, u>>].consumed])
         /\ OfService(rated, s).rated = Total([u \in User |-> rated[<<s, u>>].rated])
<1>1. \A u \in User : rated[<<s, u>>] \in Amounts
  BY DEF Bucket
<1>2. /\ [u \in User |-> rated[<<s, u>>].consumed] \in [User -> Nat]
      /\ [u \in User |-> rated[<<s, u>>].rated] \in [User -> Nat]
  BY <1>1 DEF Amounts
<1>3. /\ Total([u \in User |-> rated[<<s, u>>].consumed]) \in Nat
      /\ Total([u \in User |-> rated[<<s, u>>].rated]) \in Nat
  BY <1>2, BucketsAreFinite, TotalNat
<1>4. QED
  BY <1>2, <1>3 DEF OfService, Amounts

----------------------------------------------------------------------------
(* The invariant.                                                          *)

(* What a request under way is about, and what it holds.                   *)
Adjusting(r) == task[r].op = "adjusting" \/ task[r].op = "locked"

EventFits(e) == e \in Event /\ Charge[e.obj] \in paid /\ Stage(e) <= moved[e.obj]

HoldsPayment(r) ==
  /\ payLock[Charge[task[r].ev.obj]] = r
  /\ ~Existing(task[r].ev)
  /\ task[r].delta = AppliedDelta(task[r].ev)
  /\ SignedRight(task[r].ev, task[r].delta)

TaskFits(r) ==
  /\ task[r].op = "settle" => task[r].snap \in 1 .. Len(ledger)
  /\ task[r].op = "prepared" \/ Adjusting(r) => EventFits(task[r].ev)
  /\ Adjusting(r) => HoldsPayment(r)
  /\ task[r].op = "locked" => accountLock = r /\ task[r].seen = balance

TasksFit == \A r \in Replica : TaskFits(r)

(* Rows are of payments recorded and of what Stripe did; an event answered *)
(* while it was news left its row.                                         *)
RowsFit == \A o \in Object : \A b \in BOOLEAN :
  adj[<<o, b>>] # NoRow => Charge[o] \in paid /\ (IF b THEN 2 ELSE 1) <= moved[o]

AnswersFit == \A e \in answered :
  Stage(e) <= moved[e.obj] /\ (Stage(e) = moved[e.obj] => Existing(e))

(* The sum of a payment's rows is what its rows are for.                   *)
AppliedIsDesired == \A p \in Payment : Applied(p) = DesiredApplied(p, RowsOf(p))

(* A service that was never settled has nothing settled.                   *)
UnsettledIsBlank == \A s \in Service : chain[s] = {} =>
  \A u \in User : alloc[<<s, u>>] = [rated |-> 0, consumed |-> 0]

(* A portfolio that names a service is known by being settled, and a       *)
(* service that was ever settled was settled by the latest one known.      *)
KnownIsSettled ==
  /\ \A i \in known : Named(i) # {} => \E s \in Service : i \in chain[s]
  /\ \A s \in Service : chain[s] # {} => \A k \in known : \E j \in chain[s] : k <= j

(* Every service rates what the latest known portfolio says of it.         *)
Latest(k) == k \in known /\ \A j \in known : j <= k
LatestIsSettled == \A k \in known : Latest(k) =>
  \A s \in Service : settled[s].rated = Total([u \in User |-> RatedUsage(k, <<s, u>>)])

LedgerInvariant ==
  /\ TypeOK /\ TasksFit /\ RowsFit /\ AnswersFit /\ AppliedIsDesired
  /\ BalanceExplained /\ CreditsAreAttributed /\ UnsettledIsBlank

LEMMA StartsFit ==
  ASSUME Init
  PROVE  LedgerInvariant
<1>1. TypeOK
  <2>1. ledger \in Seq([team : Team, usage : UNION {Usages[t] : t \in Team}]) /\ Len(ledger) = 0
    BY DEF Init
  <2>2. /\ settled \in [Service -> [rated : Nat, consumed : Nat]]
        /\ alloc \in [Bucket -> [rated : Nat, consumed : Nat]]
        /\ chain \in [Service -> SUBSET known]
    BY DEF Init
  <2>3. adj \in [Row -> Nat \cup {NoRow}] /\ moved \in [Object -> 0..2]
    BY DEF Init
  <2>4. task \in [Replica -> [op : {"idle", "settle", "prepared", "adjusting", "locked"},
          snap : 0..Len(ledger), ev : Event \cup {None}, delta : Int, seen : Int]]
    BY <2>1 DEF Init, Idle
  <2>5. QED
    BY <2>1, <2>2, <2>3, <2>4, CreditLedgerAssumption DEF Init, TypeOK
<1>2. TasksFit
  BY DEF Init, TasksFit, TaskFits, Idle, Adjusting
<1>3. RowsFit
  BY DEF Init, RowsFit, Row
<1>4. AnswersFit
  BY DEF Init, AnswersFit
<1>5. \A p \in Payment : RowsOf(p) = {}
  BY DEF Init, RowsOf
<1>6. ASSUME NEW p \in Payment PROVE Applied(p) = 0 /\ DesiredApplied(p, RowsOf(p)) = 0
  <2>1. Applied(p) = 0
    BY <1>5, TotalEmpty DEF Applied
  <2>2. \A o \in ObjectsOf(p) : Remaining({}, o) = 0
    BY RemainingIs, PaymentConstants
  <2>3. Withheld(p, {}) = 0
    <3> DEFINE f == [o \in ObjectsOf(p) |-> Remaining({}, o)]
    <3>1. f \in [ObjectsOf(p) -> Int] /\ \A o \in ObjectsOf(p) : f[o] = 0
      BY <2>2
    <3> HIDE DEF f
    <3>2. Total(f) = 0
      BY <3>1, PaymentConstants, TotalOfZeros
    <3>3. QED
      BY <3>2 DEF Withheld, f
  <2>4. Price[p] \in Nat
    BY PaymentConstants
  <2>5. QED
    BY <1>5, <2>1, <2>3, <2>4, WithheldIs DEF Lesser
<1>7. AppliedIsDesired
  BY <1>6 DEF AppliedIsDesired
<1>8. \A s \in Service : OfService(alloc, s) = [rated |-> 0, consumed |-> 0]
  <2> SUFFICES ASSUME NEW s \in Service PROVE OfService(alloc, s) = [rated |-> 0, consumed |-> 0]
    OBVIOUS
  <2>1. \A u \in User : alloc[<<s, u>>].rated = 0 /\ alloc[<<s, u>>].consumed = 0
    BY DEF Init, Bucket
  <2> DEFINE f == [u \in User |-> alloc[<<s, u>>].rated]
             g == [u \in User |-> alloc[<<s, u>>].consumed]
  <2>2. f \in [User -> Int] /\ g \in [User -> Int] /\ \A u \in User : f[u] = 0 /\ g[u] = 0
    BY <2>1
  <2>3. OfService(alloc, s) = [rated |-> Total(f), consumed |-> Total(g)]
    BY DEF OfService
  <2> HIDE DEF f, g
  <2>4. Total(f) = 0 /\ Total(g) = 0
    BY <2>2, BucketsAreFinite, TotalOfZeros
  <2>5. QED
    BY <2>3, <2>4
<1>9. CreditsAreAttributed
  <2>1. \A s \in Service : settled[s] = OfService(alloc, s)
    BY <1>8 DEF Init
  <2>2. \A b \in Bucket : alloc[b].consumed * Unit <= alloc[b].rated
    <3>1. Unit \in Nat
      BY CreditLedgerAssumption
    <3>2. \A b \in Bucket : alloc[b].consumed = 0 /\ alloc[b].rated = 0
      BY DEF Init
    <3>3. 0 * Unit = 0
      BY <3>1
    <3>4. QED
      BY <3>2, <3>3
  <2>3. QED
    BY <2>1, <2>2 DEF CreditsAreAttributed
<1>10. BalanceExplained
  <2> DEFINE f == [p \in paid |-> Price[p] - Applied(p)]
             g == [s \in Service |-> settled[s].consumed]
  <2>1. DOMAIN f = {} /\ g \in [Service -> Int] /\ \A s \in Service : g[s] = 0
    BY DEF Init
  <2> HIDE DEF f, g
  <2>2. Total(f) = 0 /\ Total(g) = 0
    BY <2>1, TotalEmpty, BucketsAreFinite, TotalOfZeros
  <2>3. balance = Total(f) - Total(g)
    BY <2>2 DEF Init
  <2>4. QED
    BY <2>3 DEF BalanceExplained, f, g
<1>11. UnsettledIsBlank
  BY DEF Init, UnsettledIsBlank, Bucket
<1>12. QED
  BY <1>1, <1>2, <1>3, <1>4, <1>7, <1>9, <1>10, <1>11 DEF LedgerInvariant

----------------------------------------------------------------------------
(* What a step leaves alone.                                               *)

LEMMA SameRows ==
  ASSUME adj' = adj
  PROVE  /\ \A p : RowsOf(p)' = RowsOf(p) /\ Applied(p)' = Applied(p)
         /\ \A e : Existing(e)' = Existing(e) /\ AppliedDelta(e)' = AppliedDelta(e)
<1>1. \A p : RowsOf(p)' = RowsOf(p)
  BY DEF RowsOf
<1>2. \A p : Applied(p)' = Applied(p)
  BY <1>1 DEF Applied
<1>3. \A e : Existing(e)' = Existing(e)
  BY DEF Existing
<1>4. \A e : AppliedDelta(e)' = AppliedDelta(e)
  BY <1>1, <1>2 DEF AppliedDelta, DesiredApplied, Active, Restored
<1>5. QED
  BY <1>1, <1>2, <1>3, <1>4

LEMMA SameRating ==
  ASSUME TypeOK, ledger' = ledger \/ (\E x : ledger' = Append(ledger, x)), NEW i \in 1 .. Len(ledger)
  PROVE  /\ i \in 1 .. Len(ledger') /\ ledger'[i] = ledger[i]
         /\ Named(i)' = Named(i)
         /\ \A b : RatedUsage(i, b)' = RatedUsage(i, b)
<1>1. i \in 1 .. Len(ledger') /\ ledger'[i] = ledger[i]
  BY DEF TypeOK
<1>2. QED
  BY <1>1 DEF Named, RatedUsage

LEMMA EventIs ==
  ASSUME NEW e \in Event
  PROVE  /\ e.obj \in Object /\ e.rev \in BOOLEAN /\ RowOf(e) = <<e.obj, e.rev>> /\ RowOf(e) \in Row
         /\ Charge[e.obj] \in Payment
         /\ Stage(e) \in {1, 2}
BY PaymentConstants DEF Event, RowOf, Row, Stage

(* The rows of a payment when one more is written.                         *)
LEMMA RowWritten ==
  ASSUME TypeOK, NEW e \in Event, ~Existing(e), NEW delta \in Int, SignedRight(e, delta),
         adj' = [adj EXCEPT ![RowOf(e)] = IF e.rev THEN -delta ELSE delta]
  PROVE  /\ adj' \in [Row -> Nat \cup {NoRow}] /\ adj'[RowOf(e)] \in Nat
         /\ \A x \in Row \ {RowOf(e)} : adj'[x] = adj[x]
         /\ RowsOf(Charge[e.obj])' = RowsOf(Charge[e.obj]) \cup {RowOf(e)}
         /\ Applied(Charge[e.obj])' = Applied(Charge[e.obj]) + delta
         /\ \A p \in Payment \ {Charge[e.obj]} : RowsOf(p)' = RowsOf(p) /\ Applied(p)' = Applied(p)
<1> DEFINE n == IF e.rev THEN -delta ELSE delta
           x == RowOf(e)
           q == Charge[e.obj]
<1>1. n \in Nat /\ n # NoRow /\ x \in Row /\ q \in Payment /\ x[1] = e.obj /\ x[2] = e.rev
  BY EventIs DEF SignedRight, NoRow
<1>2. adj \in [Row -> Nat \cup {NoRow}] /\ adj' = [adj EXCEPT ![x] = n]
  BY DEF TypeOK
<1>3. adj[x] = NoRow
  BY DEF Existing
<1> HIDE DEF n, x, q
<1>4. adj' \in [Row -> Nat \cup {NoRow}] /\ adj'[x] = n /\ \A y \in Row \ {x} : adj'[y] = adj[y]
  BY <1>1, <1>2
<1>5. RowsOf(q)' = RowsOf(q) \cup {x} /\ x \notin RowsOf(q)
  <2>1. Charge[x[1]] = q
    BY <1>1 DEF q
  <2>2. \A y \in Row : (Charge[y[1]] = q /\ adj'[y] # NoRow) <=> (Charge[y[1]] = q /\ adj[y] # NoRow) \/ y = x
    BY <1>1, <1>4, <2>1
  <2>3. QED
    BY <1>1, <1>3, <2>2 DEF RowsOf
<1>6. ASSUME NEW p \in Payment \ {q} PROVE RowsOf(p)' = RowsOf(p) /\ Applied(p)' = Applied(p)
  <2>1. Charge[x[1]] # p
    BY <1>1 DEF q
  <2>2. \A y \in Row : (Charge[y[1]] = p /\ adj'[y] # NoRow) <=> (Charge[y[1]] = p /\ adj[y] # NoRow)
    BY <1>4, <2>1
  <2>3. RowsOf(p)' = RowsOf(p)
    BY <2>2 DEF RowsOf
  <2>4. \A y \in RowsOf(p) : adj'[y] = adj[y]
    BY <1>4, <2>1 DEF RowsOf
  <2>5. [y \in RowsOf(p) |-> IF y[2] THEN -adj'[y] ELSE adj'[y]] = [y \in RowsOf(p) |-> IF y[2] THEN -adj[y] ELSE adj[y]]
    BY <2>4
  <2>6. Applied(p)' = Applied(p)
    BY <2>3, <2>5 DEF Applied
  <2>7. QED
    BY <2>3, <2>6
<1>7. Applied(q)' = Applied(q) + delta
  <2> DEFINE R == RowsOf(q)
             f == [y \in R |-> IF y[2] THEN -adj[y] ELSE adj[y]]
             g == [y \in R \cup {x} |-> IF y[2] THEN -adj'[y] ELSE adj'[y]]
  <2>1. R \subseteq Row /\ IsFiniteSet(R \cup {x}) /\ IsFiniteSet(R)
    <3>1. R \subseteq Row /\ R \cup {x} \subseteq Row
      BY <1>1 DEF RowsOf
    <3>2. QED
      BY <3>1, PaymentConstants, FS_Subset
  <2>2. \A y \in R : adj[y] \in Int /\ adj'[y] = adj[y]
    BY <1>2, <1>4, <1>5 DEF RowsOf, NoRow
  <2>3. g \in [R \cup {x} -> Int] /\ f \in [R -> Int] /\ g[x] = delta /\ f = [y \in R |-> g[y]]
    <3>1. \A y \in R : (IF y[2] THEN -adj[y] ELSE adj[y]) \in Int
      BY <2>2
    <3>2. (IF x[2] THEN -adj'[x] ELSE adj'[x]) = delta
      BY <1>1, <1>4 DEF n
    <3>3. \A y \in R \cup {x} : (IF y[2] THEN -adj'[y] ELSE adj'[y]) \in Int
      BY <2>2, <3>1, <3>2
    <3>4. f \in [R -> Int] /\ g \in [R \cup {x} -> Int] /\ g[x] = delta
      BY <3>1, <3>2, <3>3
    <3>5. \A y \in R : g[y] = f[y]
      BY <2>2
    <3> HIDE DEF g
    <3>6. QED
      BY <3>4, <3>5
  <2>4. (R \cup {x}) \ {x} = R
    BY <1>5
  <2>5. Total(g) = g[x] + Total([y \in (R \cup {x}) \ {x} |-> g[y]])
    <3> DEFINE U == R \cup {x}
    <3>1. x \in U /\ IsFiniteSet(U) /\ g \in [U -> Int]
      BY <2>1, <2>3
    <3> HIDE DEF U, g
    <3>2. Total(g) = g[x] + Total([y \in U \ {x} |-> g[y]])
      BY ONLY <3>1, TotalRemove
    <3>3. QED
      BY <3>2 DEF U
  <2>6. Total(g) = delta + Total(f)
    BY <2>3, <2>4, <2>5
  <2>7. Total(f) \in Int
    BY <2>1, <2>3, TotalInt
  <2>8. Applied(q) = Total(f) /\ Applied(q)' = Total(g)
    BY <1>5 DEF Applied
  <2>9. QED
    BY <2>6, <2>7, <2>8
<1>8. QED
  BY <1>1, <1>4, <1>5, <1>6, <1>7 DEF n, x, q

LEMMA AppliedInt ==
  ASSUME TypeOK
  PROVE  \A p : Applied(p) \in Int
<1> SUFFICES ASSUME NEW p PROVE Applied(p) \in Int
  OBVIOUS
<1> DEFINE f == [y \in RowsOf(p) |-> IF y[2] THEN -adj[y] ELSE adj[y]]
<1>1. \A y \in RowsOf(p) : adj[y] \in Int
  BY DEF RowsOf, NoRow, TypeOK
<1>2. f \in [RowsOf(p) -> Int]
  BY <1>1
<1>3. IsFiniteSet(RowsOf(p))
  BY PaymentConstants, FS_Subset DEF RowsOf
<1>4. QED
  BY <1>2, <1>3, TotalInt DEF Applied

----------------------------------------------------------------------------
(* Types.                                                                  *)

TaskRows == [op : {"idle", "settle", "prepared", "adjusting", "locked"},
             snap : 0 .. Len(ledger), ev : Event \cup {None}, delta : Int, seen : Int]

LEMMA TaskIs ==
  ASSUME TypeOK
  PROVE  /\ task \in [Replica -> TaskRows] /\ Idle \in TaskRows
         /\ \A r \in Replica : task[r] \in TaskRows
BY DEF TypeOK, TaskRows, Idle

LEMMA UnlockedTypes ==
  ASSUME TypeOK, NEW r \in Replica, Unlock(r)
  PROVE  payLock' \in [Payment -> Replica \cup {None}] /\ accountLock' \in Replica \cup {None}
BY DEF TypeOK, Unlock

LEMMA DoneTypes ==
  ASSUME TypeOK, NEW r \in Replica, Done(r), ledger' = ledger
  PROVE  task' \in [Replica -> TaskRows'] /\ TaskRows' = TaskRows
<1>1. TaskRows' = TaskRows
  BY DEF TaskRows
<1>2. task \in [Replica -> TaskRows] /\ Idle \in TaskRows
  BY TaskIs
<1>3. QED
  BY <1>1, <1>2 DEF Done

LEMMA SettledTypes ==
  ASSUME TypeOK, NEW i \in 1 .. Len(ledger), SettlePortfolio(i), known' = known \cup {i}, ledger' = ledger
  PROVE  /\ settled' \in [Service -> Amounts] /\ alloc' \in [Bucket -> Amounts]
         /\ chain' \in [Service -> SUBSET known'] /\ balance' \in Int
         /\ Deltas(i, RateCreditPortfolio(i)) \in [Service -> Int]
         /\ balance' = balance - Total(Deltas(i, RateCreditPortfolio(i)))
<1> DEFINE rated == RateCreditPortfolio(i)
<1>1. rated \in [Bucket -> Amounts]
  BY RatedIs
<1> HIDE DEF rated
<1>2. /\ alloc' = Allocations(i, rated)
      /\ settled' = [s \in Service |-> IF s \in Involved(i) THEN OfService(rated, s) ELSE settled[s]]
      /\ chain' = [s \in Service |-> IF s \in Involved(i) THEN chain[s] \cup {i} ELSE chain[s]]
      /\ balance' = balance - Total(Deltas(i, rated))
  BY DEF SettlePortfolio, rated
<1>3. settled \in [Service -> Amounts] /\ alloc \in [Bucket -> Amounts] /\ chain \in [Service -> SUBSET known] /\ balance \in Int
  BY DEF TypeOK, Amounts
<1>4. \A s \in Service : OfService(rated, s) \in Amounts
  BY <1>1, OfServiceIs
<1>5. settled' \in [Service -> Amounts]
  BY <1>2, <1>3, <1>4
<1>6. alloc' \in [Bucket -> Amounts]
  BY <1>1, <1>2, <1>3 DEF Allocations
<1>7. chain' \in [Service -> SUBSET known']
  BY <1>2, <1>3
<1>8. Deltas(i, rated) \in [Service -> Int]
  <2>1. \A s \in Service : Delta(i, rated, s) \in Int
    BY <1>3, <1>4 DEF Delta, Amounts
  <2>2. QED
    BY <2>1 DEF Deltas
<1>9. balance' \in Int
  BY <1>2, <1>3, <1>8, BucketsAreFinite, TotalInt
<1>10. QED
  BY <1>2, <1>5, <1>6, <1>7, <1>8, <1>9 DEF rated

LEMMA TypesKept ==
  ASSUME TypeOK, TasksFit, Next
  PROVE  TypeOK'
<1> USE DEF usageVars, stripeVars, lockVars
<1>1. /\ ledger \in Seq([team : Team, usage : UNION {Usages[t] : t \in Team}]) /\ Len(ledger) <= MaxSnapshots
      /\ \A i \in 1..Len(ledger) : ledger[i].team \in Team /\ ledger[i].usage \in Usages[ledger[i].team]
      /\ known \subseteq 1..Len(ledger)
      /\ settled \in [Service -> Amounts] /\ alloc \in [Bucket -> Amounts] /\ chain \in [Service -> SUBSET known]
      /\ balance \in Int /\ paid \subseteq Payment
      /\ adj \in [Row -> Nat \cup {NoRow}] /\ moved \in [Object -> 0..2]
      /\ answered \subseteq Event
      /\ task \in [Replica -> TaskRows]
      /\ payLock \in [Payment -> Replica \cup {None}] /\ accountLock \in Replica \cup {None}
      /\ scope \in Scopes
  BY DEF TypeOK, TaskRows, Amounts
<1>2. ASSUME /\ ledger' \in Seq([team : Team, usage : UNION {Usages[t] : t \in Team}]) /\ Len(ledger') <= MaxSnapshots
             /\ \A i \in 1..Len(ledger') : ledger'[i].team \in Team /\ ledger'[i].usage \in Usages[ledger'[i].team]
             /\ known' \subseteq 1..Len(ledger')
             /\ settled' \in [Service -> Amounts] /\ alloc' \in [Bucket -> Amounts] /\ chain' \in [Service -> SUBSET known']
             /\ balance' \in Int /\ paid' \subseteq Payment
             /\ adj' \in [Row -> Nat \cup {NoRow}] /\ moved' \in [Object -> 0..2]
             /\ answered' \subseteq Event
             /\ task' \in [Replica -> TaskRows']
             /\ payLock' \in [Payment -> Replica \cup {None}] /\ accountLock' \in Replica \cup {None}
             /\ scope' \in Scopes
      PROVE  TypeOK'
  BY <1>2 DEF TypeOK, TaskRows, Amounts
<1>3. ASSUME ledger' = ledger PROVE TaskRows' = TaskRows
  BY <1>3 DEF TaskRows
<1>4. Idle \in TaskRows /\ \A r \in Replica : task[r] \in TaskRows
  BY TaskIs
<1>5. ASSUME NEW t \in Team, NEW u \in Usages[t], Capture(t, u) PROVE TypeOK'
  <2> DEFINE x == [team |-> t, usage |-> u]
  <2>1. ledger' = Append(ledger, x) /\ Len(ledger) < scope.snapshots /\ x \in [team : Team, usage : UNION {Usages[z] : z \in Team}]
    BY <1>5 DEF Capture
  <2>2. scope.snapshots \in 0 .. MaxSnapshots /\ MaxSnapshots \in Nat
    BY <1>1, PaymentConstants
  <2>3. Len(ledger') = Len(ledger) + 1 /\ Len(ledger) \in Nat
    BY <1>1, <2>1
  <2>4. \A i \in 1..Len(ledger') : ledger'[i] = IF i = Len(ledger) + 1 THEN x ELSE ledger[i]
    BY <1>1, <2>1
  <2>5. ledger' \in Seq([team : Team, usage : UNION {Usages[z] : z \in Team}]) /\ Len(ledger') <= MaxSnapshots
    BY <1>1, <2>1, <2>2, <2>3
  <2>6. \A i \in 1..Len(ledger') : ledger'[i].team \in Team /\ ledger'[i].usage \in Usages[ledger'[i].team]
    BY <1>1, <2>3, <2>4
  <2>7. task' \in [Replica -> TaskRows']
    <3>1. TaskRows \subseteq TaskRows'
      BY <2>3 DEF TaskRows
    <3>2. QED
      BY <1>1, <1>5, <3>1 DEF Capture
  <2>8. known' \subseteq 1 .. Len(ledger')
    BY <1>1, <1>5, <2>3 DEF Capture
  <2>9. QED
    BY <1>1, <1>2, <1>5, <2>5, <2>6, <2>7, <2>8 DEF Capture
<1>6. ASSUME NEW r \in Replica, NEW i \in 1..Len(ledger), FetchPortfolio(r, i) PROVE TypeOK'
  <2>1. i \in 0 .. Len(ledger)
    BY <1>1
  <2>2. PICK k \in TaskRows : k = Idle
    BY <1>4
  <2>3. [Idle EXCEPT !.op = "settle", !.snap = i] \in TaskRows
    <3>1. [k EXCEPT !.op = "settle", !.snap = i] \in TaskRows
      BY <2>1 DEF TaskRows
    <3>2. QED
      BY <2>2, <3>1
  <2>4. task' \in [Replica -> TaskRows']
    BY <1>1, <1>3, <1>6, <2>3 DEF FetchPortfolio
  <2>5. QED
    BY <1>1, <1>2, <1>6, <2>4 DEF FetchPortfolio
<1>7. ASSUME NEW r \in Replica, SettleNothing(r) PROVE TypeOK'
  <2>1. task[r].snap \in 1 .. Len(ledger)
    BY <1>7 DEF TasksFit, TaskFits, SettleNothing
  <2>2. known' \subseteq 1 .. Len(ledger) /\ known \subseteq known'
    BY <1>1, <1>7, <2>1 DEF SettleNothing
  <2>3. task' \in [Replica -> TaskRows']
    BY <1>7, DoneTypes DEF SettleNothing
  <2>4. chain \in [Service -> SUBSET known']
    BY <1>1, <2>2
  <2>5. QED
    BY <1>1, <1>2, <1>7, <2>2, <2>3, <2>4 DEF SettleNothing
<1>8. ASSUME NEW r \in Replica, Settle(r) PROVE TypeOK'
  <2> DEFINE i == task[r].snap
  <2>1. i \in 1 .. Len(ledger)
    BY <1>8 DEF TasksFit, TaskFits, Settle
  <2>2. SettlePortfolio(i) /\ known' = known \cup {i} /\ ledger' = ledger
    BY <1>8 DEF Settle
  <2>3. task' \in [Replica -> TaskRows']
    BY <1>8, DoneTypes DEF Settle
  <2> HIDE DEF i
  <2>4. /\ settled' \in [Service -> Amounts] /\ alloc' \in [Bucket -> Amounts]
        /\ chain' \in [Service -> SUBSET known'] /\ balance' \in Int
    BY <2>1, <2>2, SettledTypes
  <2>5. known' \subseteq 1 .. Len(ledger')
    BY <1>1, <2>1, <2>2
  <2>6. QED
    BY <1>1, <1>2, <1>8, <2>2, <2>3, <2>4, <2>5 DEF Settle
<1>9. ASSUME NEW p \in Payment, TopUp(p) PROVE TypeOK'
  <2>1. Price[p] \in Int
    BY PaymentConstants
  <2>2. balance' \in Int /\ paid' \subseteq Payment
    BY <1>1, <1>9, <2>1 DEF TopUp
  <2>3. QED
    BY <1>1, <1>2, <1>3, <1>9, <2>2 DEF TopUp
<1>10. ASSUME NEW o \in Object, StripeMoves(o) PROVE TypeOK'
  <2>1. moved' \in [Object -> 0 .. 2]
    BY <1>1, <1>10 DEF StripeMoves
  <2>2. QED
    BY <1>1, <1>2, <1>3, <1>10, <2>1 DEF StripeMoves
<1>11. ASSUME NEW e \in Event, IgnoreEvent(e) PROVE TypeOK'
  BY <1>1, <1>2, <1>3, <1>11 DEF IgnoreEvent
<1>12. ASSUME NEW r \in Replica, NEW e \in Event, PrepareAdjustment(r, e) PROVE TypeOK'
  <2>1. [Idle EXCEPT !.op = "prepared", !.ev = e] \in TaskRows
    BY <1>4 DEF Idle, TaskRows
  <2>2. task' \in [Replica -> TaskRows']
    BY <1>1, <1>3, <1>12, <2>1 DEF PrepareAdjustment
  <2>3. QED
    BY <1>1, <1>2, <1>12, <2>2 DEF PrepareAdjustment
<1>13. ASSUME NEW r \in Replica, AlreadyAdjusted(r) PROVE TypeOK'
  <2>1. task[r].ev \in Event
    BY <1>13 DEF TasksFit, TaskFits, AlreadyAdjusted, EventFits
  <2>2. task' \in [Replica -> TaskRows']
    BY <1>13, DoneTypes DEF AlreadyAdjusted
  <2>3. QED
    BY <1>1, <1>2, <1>13, <2>1, <2>2 DEF AlreadyAdjusted
<1>14. ASSUME NEW r \in Replica, BeginAdjustment(r) PROVE TypeOK'
  <2> DEFINE d == AppliedDelta(task[r].ev)
  <2>1. task[r].ev \in Event /\ Charge[task[r].ev.obj] \in Payment
    BY <1>14, EventIs DEF TasksFit, TaskFits, BeginAdjustment, EventFits
  <2>2. d \in Int
    BY <2>1, WithheldIs, AppliedInt DEF AppliedDelta
  <2>3. PICK k \in TaskRows : k = task[r]
    BY <1>4
  <2>4. task' = [task EXCEPT ![r] = [k EXCEPT !.op = "adjusting", !.delta = d]]
    BY <1>1, <1>14, <2>3 DEF BeginAdjustment
  <2> HIDE DEF d
  <2>5. [k EXCEPT !.op = "adjusting", !.delta = d] \in TaskRows
    BY <2>2 DEF TaskRows
  <2>6. task' \in [Replica -> TaskRows']
    BY <1>1, <1>3, <1>14, <2>4, <2>5 DEF BeginAdjustment
  <2>7. payLock' \in [Payment -> Replica \cup {None}]
    BY <1>1, <1>14 DEF BeginAdjustment
  <2>8. QED
    BY <1>1, <1>2, <1>14, <2>6, <2>7 DEF BeginAdjustment
<1>15. ASSUME NEW r \in Replica, LockBalance(r) PROVE TypeOK'
  <2>3. PICK k \in TaskRows : k = task[r]
    BY <1>4
  <2>4. task' = [task EXCEPT ![r] = [k EXCEPT !.op = "locked", !.seen = balance]]
    BY <1>1, <1>15, <2>3 DEF LockBalance
  <2>5. [k EXCEPT !.op = "locked", !.seen = balance] \in TaskRows
    BY <1>1 DEF TaskRows
  <2>6. task' \in [Replica -> TaskRows']
    BY <1>1, <1>3, <1>15, <2>4, <2>5 DEF LockBalance
  <2>7. accountLock' \in Replica \cup {None}
    BY <1>15 DEF LockBalance
  <2>8. QED
    BY <1>1, <1>2, <1>15, <2>6, <2>7 DEF LockBalance
<1>16. ASSUME NEW r \in Replica, CommitAdjustment(r) PROVE TypeOK'
  <2> DEFINE e == task[r].ev
             d == task[r].delta
  <2>1. Adjusting(r) /\ e \in Event /\ d \in Int
    BY <1>4, <1>16 DEF CommitAdjustment, ReadyToCommit, Adjusting, TasksFit, TaskFits, EventFits, TaskRows
  <2>2. ~Existing(e) /\ SignedRight(e, d)
    BY <2>1 DEF TasksFit, TaskFits, HoldsPayment
  <2>3. adj' = [adj EXCEPT ![RowOf(e)] = IF e.rev THEN -d ELSE d] /\ balance' = balance - d
    BY <1>16 DEF CommitAdjustment
  <2>4. adj' \in [Row -> Nat \cup {NoRow}]
    <3> HIDE DEF e, d
    <3>1. QED
      BY <2>1, <2>2, <2>3, RowWritten
  <2>5. payLock' \in [Payment -> Replica \cup {None}] /\ accountLock' \in Replica \cup {None}
    BY <1>16, UnlockedTypes DEF CommitAdjustment
  <2>6. ledger' = ledger /\ known' = known /\ settled' = settled /\ alloc' = alloc /\ chain' = chain /\ paid' = paid /\ moved' = moved /\ scope' = scope
    BY <1>16 DEF CommitAdjustment
  <2>7. task' \in [Replica -> TaskRows']
    BY <1>16, <2>6, DoneTypes DEF CommitAdjustment
  <2>8. answered' \subseteq Event /\ balance' \in Int
    BY <1>1, <1>16, <2>1, <2>3 DEF CommitAdjustment
  <2>9. QED
    BY <1>1, <1>2, <2>4, <2>5, <2>6, <2>7, <2>8
<1>17. ASSUME NEW r \in Replica, Abort(r) PROVE TypeOK'
  <2>1. payLock' \in [Payment -> Replica \cup {None}] /\ accountLock' \in Replica \cup {None}
    BY <1>17, UnlockedTypes DEF Abort
  <2>2. task' \in [Replica -> TaskRows']
    BY <1>17, DoneTypes DEF Abort
  <2>3. QED
    BY <1>1, <1>2, <1>17, <2>1, <2>2 DEF Abort
<1>18. QED
  BY <1>5, <1>6, <1>7, <1>8, <1>9, <1>10, <1>11, <1>12, <1>13, <1>14, <1>15, <1>16, <1>17 DEF Next

----------------------------------------------------------------------------
(* Requests under way.                                                     *)

(* A request is not disturbed while what it holds is left alone.           *)
LEMMA TaskUndisturbed ==
  ASSUME TypeOK, NEW r \in Replica, TaskFits(r), task'[r] = task[r],
         ledger' = ledger \/ (\E x : ledger' = Append(ledger, x)), paid \subseteq paid',
         \A o \in Object : moved[o] <= moved'[o] /\ moved'[o] \in Int,
         Adjusting(r) =>
           LET e == task[r].ev
               p == Charge[e.obj]
           IN  /\ payLock'[p] = payLock[p] /\ RowsOf(p)' = RowsOf(p) /\ Applied(p)' = Applied(p)
               /\ adj'[RowOf(e)] = adj[RowOf(e)],
         task[r].op = "locked" => accountLock' = accountLock /\ balance' = balance
  PROVE  TaskFits(r)'
<1>1. task[r].op = "settle" => task'[r].snap \in 1 .. Len(ledger')
  BY SameRating DEF TaskFits, TypeOK
<1>2. ASSUME NEW e, EventFits(e) PROVE EventFits(e)'
  <2>1. e \in Event /\ e.obj \in Object /\ Charge[e.obj] \in paid /\ Stage(e) <= moved[e.obj] /\ Stage(e) \in {1, 2}
    BY <1>2, EventIs DEF EventFits
  <2>2. moved[e.obj] \in Int /\ moved[e.obj] <= moved'[e.obj] /\ moved'[e.obj] \in Int
    BY <2>1 DEF TypeOK
  <2>3. Stage(e) <= moved'[e.obj]
    BY <2>1, <2>2
  <2>4. QED
    BY <2>1, <2>3 DEF EventFits
<1>3. ASSUME Adjusting(r) PROVE HoldsPayment(r)'
  <2> DEFINE e == task[r].ev
             p == Charge[e.obj]
  <2>1. payLock[p] = r /\ ~Existing(e) /\ task[r].delta = AppliedDelta(e) /\ SignedRight(e, task[r].delta)
    BY <1>3 DEF TaskFits, HoldsPayment
  <2>2. payLock'[p] = payLock[p] /\ RowsOf(p)' = RowsOf(p) /\ Applied(p)' = Applied(p) /\ adj'[RowOf(e)] = adj[RowOf(e)]
    BY <1>3
  <2>3. ASSUME NEW z, RowsOf(Charge[z.obj])' = RowsOf(Charge[z.obj]), Applied(Charge[z.obj])' = Applied(Charge[z.obj])
        PROVE  AppliedDelta(z)' = AppliedDelta(z)
    BY <2>3 DEF AppliedDelta, DesiredApplied, Active, Restored
  <2>4. AppliedDelta(task[r].ev)' = AppliedDelta(task[r].ev)
    BY <2>2, <2>3
  <2>5. QED
    BY <2>1, <2>2, <2>4 DEF HoldsPayment, Existing, SignedRight, RowOf
<1>4. Adjusting(r)' <=> Adjusting(r)
  BY DEF Adjusting
<1>5. QED
  BY <1>1, <1>2, <1>3, <1>4 DEF TaskFits

LEMMA TasksKept ==
  ASSUME TypeOK, TasksFit, Next
  PROVE  TasksFit'
<1> USE DEF usageVars, stripeVars, lockVars
<1> DEFINE Idles(r) == task' = [task EXCEPT ![r] = Idle]
<1>1. /\ task \in [Replica -> TaskRows] /\ (\A r \in Replica : task[r] \in TaskRows)
      /\ payLock \in [Payment -> Replica \cup {None}] /\ None \notin Replica
      /\ moved \in [Object -> 0 .. 2] /\ (\A o \in Object : moved[o] \in Int)
      /\ balance \in Int
  BY TaskIs, PaymentConstants DEF TypeOK
<1>2. ASSUME NEW r \in Replica, task'[r] = Idle PROVE TaskFits(r)'
  BY <1>2 DEF TaskFits, Adjusting, Idle
<1>3. \A r \in Replica : TaskFits(r)
  BY DEF TasksFit
<1>4. ASSUME NEW r \in Replica, Adjusting(r)
      PROVE  task[r].ev \in Event /\ Charge[task[r].ev.obj] \in Payment /\ payLock[Charge[task[r].ev.obj]] = r
             /\ RowOf(task[r].ev) \in Row /\ Charge[RowOf(task[r].ev)[1]] = Charge[task[r].ev.obj]
  <2>1. task[r].ev \in Event /\ payLock[Charge[task[r].ev.obj]] = r
    BY <1>3, <1>4 DEF TaskFits, EventFits, HoldsPayment
  <2>2. QED
    BY <2>1, EventIs DEF RowOf
<1>5. ASSUME NEW r \in Replica, task[r].op = "locked" PROVE accountLock = r
  BY <1>3, <1>5 DEF TaskFits
(* Steps that touch no payment's lock and no row. *)
<1>6. ASSUME NEW r \in Replica, adj' = adj, payLock' = payLock, paid \subseteq paid', task'[r] = task[r],
             \A o \in Object : moved[o] <= moved'[o] /\ moved'[o] \in Int,
             ledger' = ledger \/ (\E x : ledger' = Append(ledger, x)),
             task[r].op = "locked" => accountLock' = accountLock /\ balance' = balance
      PROVE  TaskFits(r)'
  <2>1. RowsOf(Charge[task[r].ev.obj])' = RowsOf(Charge[task[r].ev.obj])
        /\ Applied(Charge[task[r].ev.obj])' = Applied(Charge[task[r].ev.obj])
    BY <1>6, SameRows DEF RowsOf, Applied
  <2>2. QED
    BY <1>1, <1>3, <1>6, <2>1, TaskUndisturbed
<1>19. ASSUME NEW r \in Replica, adj' = adj, payLock' = payLock, paid \subseteq paid', task'[r] = task[r], moved' = moved,
              ledger' = ledger, task[r].op = "locked" => accountLock' = accountLock /\ balance' = balance
       PROVE  TaskFits(r)'
  <2>1. \A o \in Object : moved[o] <= moved'[o] /\ moved'[o] \in Int
    BY <1>1, <1>19
  <2>2. QED
    BY <1>6, <1>19, <2>1
<1>7. ASSUME NEW t \in Team, NEW u \in Usages[t], Capture(t, u) PROVE TasksFit'
  <2>1. \A o \in Object : moved[o] <= moved'[o] /\ moved'[o] \in Int
    BY <1>1, <1>7 DEF Capture
  <2>2. ASSUME NEW r \in Replica PROVE TaskFits(r)'
    BY <1>6, <1>7, <2>1 DEF Capture
  <2>3. QED
    BY <2>2 DEF TasksFit
<1>8. ASSUME NEW r \in Replica, NEW i \in 1..Len(ledger), FetchPortfolio(r, i) PROVE TasksFit'
  <2>1. TaskFits(r)'
    <3>1. task'[r] = [Idle EXCEPT !.op = "settle", !.snap = i] /\ ledger' = ledger
      BY <1>1, <1>8 DEF FetchPortfolio
    <3>2. task'[r].op = "settle" /\ task'[r].snap = i
      BY <3>1 DEF Idle
    <3>3. QED
      BY <3>1, <3>2 DEF TaskFits, Adjusting
  <2>2. ASSUME NEW q \in Replica \ {r} PROVE TaskFits(q)'
    BY <1>1, <1>8, <1>19 DEF FetchPortfolio
  <2>3. QED
    BY <2>1, <2>2 DEF TasksFit
<1>9. ASSUME NEW r \in Replica, SettleNothing(r) \/ Settle(r) PROVE TasksFit'
  <2>1. task' = [task EXCEPT ![r] = Idle] /\ accountLock = None /\ accountLock' = None /\ adj' = adj
        /\ payLock' = payLock /\ moved' = moved /\ paid' = paid /\ ledger' = ledger
    BY <1>9 DEF SettleNothing, Settle, Done
  <2>2. ASSUME NEW q \in Replica \ {r} PROVE TaskFits(q)'
    <3>1. task'[q] = task[q] /\ task[q].op # "locked"
      BY <1>1, <1>5, <2>1
    <3>2. QED
      BY <1>19, <2>1, <3>1
  <2>3. TaskFits(r)'
    BY <1>1, <1>2, <2>1
  <2>4. QED
    BY <2>2, <2>3 DEF TasksFit
<1>10. ASSUME NEW p \in Payment, TopUp(p) PROVE TasksFit'
  <2>1. ASSUME NEW q \in Replica PROVE TaskFits(q)'
    <3>1. task[q].op # "locked"
      BY <1>1, <1>5, <1>10 DEF TopUp
    <3>2. QED
      BY <1>10, <1>19, <3>1 DEF TopUp
  <2>2. QED
    BY <2>1 DEF TasksFit
<1>11. ASSUME NEW o \in Object, StripeMoves(o) PROVE TasksFit'
  <2>1. \A z \in Object : moved[z] <= moved'[z] /\ moved'[z] \in Int
    BY <1>1, <1>11 DEF StripeMoves
  <2>2. ASSUME NEW r \in Replica PROVE TaskFits(r)'
    BY <1>6, <1>11, <2>1 DEF StripeMoves
  <2>3. QED
    BY <2>2 DEF TasksFit
<1>12. ASSUME NEW e \in Event, IgnoreEvent(e) PROVE TasksFit'
  <2>1. ASSUME NEW q \in Replica PROVE TaskFits(q)'
    BY <1>12, <1>19 DEF IgnoreEvent
  <2>2. QED
    BY <2>1 DEF TasksFit
<1>13. ASSUME NEW r \in Replica, NEW e \in Event, PrepareAdjustment(r, e) PROVE TasksFit'
  <2>1. TaskFits(r)'
    <3>1. task'[r] = [Idle EXCEPT !.op = "prepared", !.ev = e] /\ paid' = paid /\ moved' = moved
      BY <1>1, <1>13 DEF PrepareAdjustment
    <3>2. task'[r].op = "prepared" /\ task'[r].ev = e
      BY <3>1 DEF Idle
    <3>3. Charge[e.obj] \in paid /\ Stage(e) <= moved[e.obj]
      BY <1>13, EventIs DEF PrepareAdjustment
    <3>4. QED
      BY <3>1, <3>2, <3>3 DEF TaskFits, Adjusting, EventFits, Stage
  <2>2. ASSUME NEW q \in Replica \ {r} PROVE TaskFits(q)'
    BY <1>1, <1>13, <1>19 DEF PrepareAdjustment
  <2>3. QED
    BY <2>1, <2>2 DEF TasksFit
<1>14. ASSUME NEW r \in Replica, AlreadyAdjusted(r) PROVE TasksFit'
  <2>1. TaskFits(r)'
    BY <1>1, <1>2, <1>14 DEF AlreadyAdjusted, Done
  <2>2. ASSUME NEW q \in Replica \ {r} PROVE TaskFits(q)'
    <3>1. task'[q] = task[q]
      BY <1>1, <1>14 DEF AlreadyAdjusted, Done
    <3>2. QED
      BY <1>14, <1>19, <3>1 DEF AlreadyAdjusted
  <2>3. QED
    BY <2>1, <2>2 DEF TasksFit
<1>15. ASSUME NEW r \in Replica, BeginAdjustment(r) PROVE TasksFit'
  <2> DEFINE e == task[r].ev
             p == Charge[e.obj]
  <2>1. /\ task[r].op = "prepared" /\ payLock[p] = None /\ ~Existing(e) /\ SignedRight(e, AppliedDelta(e))
        /\ payLock' = [payLock EXCEPT ![p] = r] /\ task' = [task EXCEPT ![r].op = "adjusting", ![r].delta = AppliedDelta(e)]
        /\ ledger' = ledger /\ balance' = balance /\ paid' = paid /\ adj' = adj /\ moved' = moved /\ accountLock' = accountLock
    BY <1>15 DEF BeginAdjustment
  <2>2. EventFits(e) /\ e \in Event /\ p \in Payment
    BY <1>3, <2>1, EventIs DEF TaskFits, EventFits
  <2>3. task'[r].op = "adjusting" /\ task'[r].ev = e /\ task'[r].delta = AppliedDelta(e)
    <3>1. PICK k \in TaskRows : k = task[r]
      BY <1>1
    <3>2. task'[r] = [k EXCEPT !.op = "adjusting", !.delta = AppliedDelta(e)]
      BY <1>1, <2>1, <3>1
    <3> HIDE DEF e
    <3>3. task'[r].op = "adjusting" /\ task'[r].ev = k.ev /\ task'[r].delta = AppliedDelta(e)
      BY <3>2 DEF TaskRows
    <3>4. QED
      BY <3>1, <3>3 DEF e
  <2>4. payLock'[p] = r
    BY <1>1, <2>1, <2>2
  <2>5. /\ \A z : Existing(z)' = Existing(z) /\ AppliedDelta(z)' = AppliedDelta(z)
    BY <2>1, SameRows
  <2>6. TaskFits(r)'
    <3>1. EventFits(task[r].ev)'
      BY <2>1, <2>2, <2>3 DEF EventFits, Stage
    <3>2. HoldsPayment(r)'
      <4>1. Existing(task[r].ev)' = Existing(e) /\ AppliedDelta(task[r].ev)' = AppliedDelta(e)
        BY ZenonT(60), <2>1, <2>3, SameRows DEF Existing, AppliedDelta, Applied, RowsOf, DesiredApplied, Active, Restored, RowOf
      <4>2. QED
        BY <2>1, <2>3, <2>4, <4>1 DEF HoldsPayment, SignedRight
    <3>3. QED
      BY <2>3, <3>1, <3>2 DEF TaskFits
  <2>7. ASSUME NEW q \in Replica \ {r} PROVE TaskFits(q)'
    <3>1. task'[q] = task[q]
      BY <1>1, <2>1
    <3>2. Adjusting(q) => payLock'[Charge[task[q].ev.obj]] = payLock[Charge[task[q].ev.obj]]
      BY <1>1, <1>4, <2>1, <2>2
    <3>3. RowsOf(Charge[task[q].ev.obj])' = RowsOf(Charge[task[q].ev.obj])
          /\ Applied(Charge[task[q].ev.obj])' = Applied(Charge[task[q].ev.obj])
      BY ZenonT(60), <2>1, <3>1, SameRows DEF RowsOf, Applied
    <3>4. QED
      <4> DEFINE z == task[q].ev
                 b == Charge[z.obj]
      <4>1. /\ TypeOK /\ TaskFits(q) /\ ledger' = ledger /\ paid \subseteq paid'
            /\ accountLock' = accountLock /\ balance' = balance /\ adj' = adj
        BY <1>1, <1>3, <2>1
      <4>2. \A o \in Object : moved[o] <= moved'[o] /\ moved'[o] \in Int
        BY <1>1, <2>1
      <4>3. Adjusting(q) => /\ payLock'[b] = payLock[b] /\ RowsOf(b)' = RowsOf(b)
                            /\ Applied(b)' = Applied(b) /\ adj'[RowOf(z)] = adj[RowOf(z)]
        BY <3>2, <3>3, <4>1
      <4>4. QED
        BY <3>1, <4>1, <4>2, <4>3, TaskUndisturbed
  <2>8. QED
    BY <2>6, <2>7 DEF TasksFit
<1>16. ASSUME NEW r \in Replica, LockBalance(r) PROVE TasksFit'
  <2>1. /\ task[r].op = "adjusting" /\ accountLock = None /\ accountLock' = r
        /\ task' = [task EXCEPT ![r].op = "locked", ![r].seen = balance]
        /\ ledger' = ledger /\ balance' = balance /\ paid' = paid /\ adj' = adj /\ moved' = moved /\ payLock' = payLock
    BY <1>16 DEF LockBalance
  <2>2. task'[r].op = "locked" /\ task'[r].ev = task[r].ev /\ task'[r].delta = task[r].delta /\ task'[r].seen = balance
    <3>1. PICK k \in TaskRows : k = task[r]
      BY <1>1
    <3>2. task'[r] = [k EXCEPT !.op = "locked", !.seen = balance]
      BY <1>1, <2>1, <3>1
    <3>3. QED
      BY <3>1, <3>2 DEF TaskRows
  <2>3. EventFits(task[r].ev) /\ HoldsPayment(r)
    BY <1>3, <2>1 DEF TaskFits, Adjusting
  <2>4. TaskFits(r)'
    <3>1. EventFits(task[r].ev)'
      BY <2>1, <2>2, <2>3 DEF EventFits, Stage
    <3>2. HoldsPayment(r)'
      <4>1. Existing(task[r].ev)' = Existing(task[r].ev) /\ AppliedDelta(task[r].ev)' = AppliedDelta(task[r].ev)
        BY ZenonT(60), <2>1, <2>2, SameRows DEF Existing, AppliedDelta, Applied, RowsOf, DesiredApplied, Active, Restored, RowOf
      <4>2. QED
        BY <2>1, <2>2, <2>3, <4>1 DEF HoldsPayment, SignedRight
    <3>3. QED
      BY <2>1, <2>2, <3>1, <3>2 DEF TaskFits
  <2>5. ASSUME NEW q \in Replica \ {r} PROVE TaskFits(q)'
    <3>1. task'[q] = task[q] /\ task[q].op # "locked"
      BY <1>1, <1>5, <2>1
    <3>2. QED
      BY <1>19, <2>1, <3>1
  <2>6. QED
    BY <2>4, <2>5 DEF TasksFit
<1>17. ASSUME NEW r \in Replica, CommitAdjustment(r) PROVE TasksFit'
  <2> DEFINE e == task[r].ev
             d == task[r].delta
             p == Charge[e.obj]
  <2>1. /\ Adjusting(r) /\ (task[r].op = "locked" \/ d = 0)
        /\ adj' = [adj EXCEPT ![RowOf(e)] = IF e.rev THEN -d ELSE d] /\ balance' = balance - d
        /\ Unlock(r) /\ task' = [task EXCEPT ![r] = Idle]
        /\ ledger' = ledger /\ paid' = paid /\ moved' = moved
    BY <1>17 DEF CommitAdjustment, ReadyToCommit, Adjusting, Done
  <2>2. e \in Event /\ d \in Int /\ ~Existing(e) /\ SignedRight(e, d) /\ payLock[p] = r
    BY <1>1, <1>3, <1>4, <2>1 DEF TaskFits, HoldsPayment, TaskRows
  <2>3. /\ \A x \in Row \ {RowOf(e)} : adj'[x] = adj[x]
        /\ \A q \in Payment \ {p} : RowsOf(q)' = RowsOf(q) /\ Applied(q)' = Applied(q)
    <3> HIDE DEF d, e
    <3>1. QED
      BY <2>1, <2>2, RowWritten DEF p
  <2>4. TaskFits(r)'
    BY <1>1, <1>2, <2>1
  <2>5. ASSUME NEW q \in Replica \ {r} PROVE TaskFits(q)'
    <3> DEFINE z == task[q].ev
    <3>1. task'[q] = task[q]
      BY <1>1, <2>1
    <3>2. CASE Adjusting(q)
      <4>1. z \in Event /\ Charge[z.obj] \in Payment /\ payLock[Charge[z.obj]] = q /\ RowOf(z) \in Row /\ Charge[RowOf(z)[1]] = Charge[z.obj]
        BY <1>4, <3>2
      <4>2. Charge[z.obj] # p /\ RowOf(z) # RowOf(e)
        BY <2>2, <4>1 DEF RowOf
      <4>3. payLock'[Charge[z.obj]] = payLock[Charge[z.obj]]
        BY <1>1, <2>1, <4>1 DEF Unlock
      <4>4. RowsOf(Charge[z.obj])' = RowsOf(Charge[z.obj]) /\ Applied(Charge[z.obj])' = Applied(Charge[z.obj])
        <5>2. PICK k \in Payment : k = Charge[z.obj]
          BY <4>1
        <5>3. RowsOf(k)' = RowsOf(k) /\ Applied(k)' = Applied(k)
          BY <2>3, <4>2, <5>2
        <5>4. QED
          BY <3>1, <5>2, <5>3 DEF RowsOf, Applied
      <4>5. adj'[RowOf(z)] = adj[RowOf(z)]
        BY <2>3, <4>1, <4>2
      <4>6. task[q].op = "locked" => accountLock' = accountLock /\ balance' = balance
        <5> SUFFICES ASSUME task[q].op = "locked" PROVE accountLock' = accountLock /\ balance' = balance
          OBVIOUS
        <5>1. accountLock = q
          BY <1>5
        <5>2. task[r].op # "locked"
          BY <1>5, <5>1
        <5>3. d = 0
          BY <2>1, <5>2
        <5>4. QED
          BY <1>1, <2>1, <5>1, <5>3 DEF Unlock
      <4>7. \A o \in Object : moved[o] <= moved'[o] /\ moved'[o] \in Int
        BY <1>1, <2>1
      <4>8. QED
        BY <1>3, <2>1, <3>1, <4>3, <4>4, <4>5, <4>6, <4>7, TaskUndisturbed
    <3>3. CASE ~Adjusting(q)
      <4>1. TaskFits(q)
        BY <1>3
      <4>2. QED
        BY <2>1, <3>1, <3>3, <4>1 DEF TaskFits, Adjusting, EventFits, Stage
    <3>4. QED
      BY <3>2, <3>3
  <2>6. QED
    BY <2>4, <2>5 DEF TasksFit
<1>18. ASSUME NEW r \in Replica, Abort(r) PROVE TasksFit'
  <2>1. /\ Unlock(r) /\ task' = [task EXCEPT ![r] = Idle]
        /\ ledger' = ledger /\ paid' = paid /\ moved' = moved /\ adj' = adj /\ balance' = balance
    BY <1>18 DEF Abort, Done
  <2>2. TaskFits(r)'
    BY <1>1, <1>2, <2>1
  <2>3. ASSUME NEW q \in Replica \ {r} PROVE TaskFits(q)'
    <3>1. task'[q] = task[q]
      BY <1>1, <2>1
    <3>2. Adjusting(q) => payLock'[Charge[task[q].ev.obj]] = payLock[Charge[task[q].ev.obj]]
      BY <1>1, <1>4, <2>1 DEF Unlock
    <3>3. RowsOf(Charge[task[q].ev.obj])' = RowsOf(Charge[task[q].ev.obj])
          /\ Applied(Charge[task[q].ev.obj])' = Applied(Charge[task[q].ev.obj])
      BY <2>1, <3>1, SameRows DEF RowsOf, Applied
    <3>4. task[q].op = "locked" => accountLock' = accountLock
      BY <1>5, <2>1 DEF Unlock
    <3>5. \A o \in Object : moved[o] <= moved'[o] /\ moved'[o] \in Int
      BY <1>1, <2>1
    <3>6. QED
      BY <1>3, <2>1, <3>1, <3>2, <3>3, <3>4, <3>5, TaskUndisturbed
  <2>4. QED
    BY <2>2, <2>3 DEF TasksFit
<1>20. QED
  BY <1>7, <1>8, <1>9, <1>10, <1>11, <1>12, <1>13, <1>14, <1>15, <1>16, <1>17, <1>18 DEF Next

----------------------------------------------------------------------------
(* Rows, answers and what is applied.                                      *)

LEMMA CommitIs ==
  ASSUME TypeOK, TasksFit, NEW r \in Replica, CommitAdjustment(r)
  PROVE  \E e \in Event, d \in Int :
           /\ EventFits(e) /\ ~Existing(e) /\ d = AppliedDelta(e) /\ SignedRight(e, d)
           /\ adj' = [adj EXCEPT ![RowOf(e)] = IF e.rev THEN -d ELSE d]
           /\ balance' = balance - d /\ answered' = answered \cup {e}
           /\ UNCHANGED <<ledger, known, settled, chain, alloc, paid, moved, scope>>
<1> DEFINE e == task[r].ev
           d == task[r].delta
<1>1. Adjusting(r) /\ TaskFits(r) /\ task[r] \in TaskRows
  BY TaskIs DEF CommitAdjustment, ReadyToCommit, Adjusting, TasksFit
<1>2. e \in Event /\ d \in Int /\ EventFits(e) /\ ~Existing(e) /\ d = AppliedDelta(e) /\ SignedRight(e, d)
  BY <1>1 DEF TaskFits, EventFits, HoldsPayment, TaskRows
<1>3. /\ adj' = [adj EXCEPT ![RowOf(e)] = IF e.rev THEN -d ELSE d]
      /\ balance' = balance - d /\ answered' = answered \cup {e}
      /\ UNCHANGED <<ledger, known, settled, chain, alloc, paid, moved, scope>>
  BY DEF CommitAdjustment, usageVars
<1> HIDE DEF e, d
<1>4. QED
  BY <1>2, <1>3

(* What most steps leave alone.                                            *)
LEMMA RowsChange ==
  ASSUME TypeOK, TasksFit, Next
  PROVE  /\ \/ adj' = adj
            \/ \E r \in Replica : CommitAdjustment(r)
         /\ paid \subseteq paid' /\ \A o \in Object : moved[o] <= moved'[o] /\ moved[o] \in Int /\ moved'[o] \in Int
<1> USE DEF usageVars, stripeVars, lockVars
<1>1. moved \in [Object -> 0 .. 2]
  BY DEF TypeOK
<1>2. ASSUME NEW o \in Object, StripeMoves(o)
      PROVE  \A z \in Object : moved[z] <= moved'[z] /\ moved[z] \in Int /\ moved'[z] \in Int
  BY <1>1, <1>2 DEF StripeMoves
<1>3. (\E o \in Object : StripeMoves(o)) \/ moved' = moved
  BY DEF Next, Capture, FetchPortfolio, SettleNothing, Settle, TopUp, IgnoreEvent, PrepareAdjustment,
     AlreadyAdjusted, BeginAdjustment, LockBalance, CommitAdjustment, Abort
<1>4. \A o \in Object : moved[o] <= moved'[o] /\ moved[o] \in Int /\ moved'[o] \in Int
  BY <1>1, <1>2, <1>3
<1>5. (\E r \in Replica : CommitAdjustment(r)) \/ adj' = adj
  BY DEF Next, Capture, FetchPortfolio, SettleNothing, Settle, TopUp, IgnoreEvent, PrepareAdjustment,
     AlreadyAdjusted, BeginAdjustment, LockBalance, StripeMoves, Abort
<1>6. paid \subseteq paid'
  BY DEF Next, Capture, FetchPortfolio, SettleNothing, Settle, TopUp, IgnoreEvent, PrepareAdjustment,
     AlreadyAdjusted, BeginAdjustment, LockBalance, StripeMoves, Abort, CommitAdjustment
<1>7. QED
  BY <1>4, <1>5, <1>6

LEMMA RowsKept ==
  ASSUME TypeOK, TasksFit, RowsFit, Next
  PROVE  RowsFit'
<1>1. /\ paid \subseteq paid' /\ \A o \in Object : moved[o] <= moved'[o] /\ moved[o] \in Int /\ moved'[o] \in Int
  BY RowsChange
<1>2. ASSUME NEW o \in Object, NEW b \in BOOLEAN, adj'[<<o, b>>] = adj[<<o, b>>], adj'[<<o, b>>] # NoRow
      PROVE  Charge[o] \in paid' /\ (IF b THEN 2 ELSE 1) <= moved'[o]
  <2>1. Charge[o] \in paid /\ (IF b THEN 2 ELSE 1) <= moved[o]
    BY <1>2 DEF RowsFit
  <2>2. (IF b THEN 2 ELSE 1) \in Int
    OBVIOUS
  <2>3. QED
    BY <1>1, <2>1, <2>2
<1>3. CASE adj' = adj
  BY <1>2, <1>3 DEF RowsFit
<1>4. ASSUME NEW r \in Replica, CommitAdjustment(r) PROVE RowsFit'
  <2>1. PICK e \in Event, d \in Int :
           /\ EventFits(e) /\ ~Existing(e) /\ SignedRight(e, d)
           /\ adj' = [adj EXCEPT ![RowOf(e)] = IF e.rev THEN -d ELSE d]
           /\ paid' = paid /\ moved' = moved
    BY <1>4, CommitIs
  <2>2. \A x \in Row \ {RowOf(e)} : adj'[x] = adj[x]
    BY <2>1, RowWritten
  <2>3. ASSUME NEW o \in Object, NEW b \in BOOLEAN, adj'[<<o, b>>] # NoRow
        PROVE  Charge[o] \in paid' /\ (IF b THEN 2 ELSE 1) <= moved'[o]
    <3>1. CASE <<o, b>> = RowOf(e)
      <4>1. o = e.obj /\ b = e.rev
        BY <3>1 DEF RowOf
      <4>2. QED
        BY <2>1, <4>1 DEF EventFits, Stage
    <3>2. CASE <<o, b>> # RowOf(e)
      <4>1. <<o, b>> \in Row
        BY DEF Row
      <4>2. QED
        BY <1>2, <2>2, <2>3, <3>2, <4>1
    <3>3. QED
      BY <3>1, <3>2
  <2>4. QED
    BY <2>3 DEF RowsFit
<1>5. QED
  BY <1>3, <1>4, RowsChange

LEMMA AnswersKept ==
  ASSUME TypeOK, TasksFit, AnswersFit, Next
  PROVE  AnswersFit'
<1> USE DEF usageVars, stripeVars, lockVars
<1>1. /\ answered \subseteq Event
      /\ \A o \in Object : moved[o] <= moved'[o] /\ moved[o] \in Int /\ moved'[o] \in Int
  BY RowsChange DEF TypeOK
<1>2. ASSUME NEW e \in Event, Existing(e) PROVE Existing(e)'
  <2>1. CASE adj' = adj
    BY <1>2, <2>1 DEF Existing
  <2>2. ASSUME NEW r \in Replica, CommitAdjustment(r) PROVE Existing(e)'
    <3>1. PICK z \in Event, d \in Int :
             /\ ~Existing(z) /\ SignedRight(z, d)
             /\ adj' = [adj EXCEPT ![RowOf(z)] = IF z.rev THEN -d ELSE d]
      BY <2>2, CommitIs
    <3>2. \A x \in Row \ {RowOf(z)} : adj'[x] = adj[x]
      BY <3>1, RowWritten
    <3>3. RowOf(e) \in Row /\ RowOf(e) # RowOf(z)
      BY <1>2, <3>1, EventIs DEF Existing
    <3>4. QED
      BY <1>2, <3>2, <3>3 DEF Existing, RowOf
  <2>3. QED
    BY <2>1, <2>2, RowsChange
(* Events answered before. *)
<1>3. ASSUME NEW e \in answered
      PROVE  Stage(e) <= moved'[e.obj] /\ (Stage(e) = moved'[e.obj] => Existing(e)')
  <2>1. e \in Event /\ Stage(e) <= moved[e.obj] /\ (Stage(e) = moved[e.obj] => Existing(e))
    BY <1>1 DEF AnswersFit
  <2>2. e.obj \in Object /\ Stage(e) \in {1, 2}
    BY <2>1, EventIs
  <2>3. moved[e.obj] <= moved'[e.obj] /\ moved[e.obj] \in Int /\ moved'[e.obj] \in Int
    BY <1>1, <2>2
  <2>4. Stage(e) = moved'[e.obj] => Stage(e) = moved[e.obj]
    BY <2>1, <2>2, <2>3
  <2>5. QED
    BY <1>2, <2>1, <2>2, <2>3, <2>4
<1>4. ASSUME NEW e \in Event, answered' \subseteq answered \cup {e},
             Stage(e) <= moved'[e.obj] /\ (Stage(e) = moved'[e.obj] => Existing(e)')
      PROVE  AnswersFit'
  BY <1>3, <1>4 DEF AnswersFit, Stage
<1>5. ASSUME NEW e \in Event, IgnoreEvent(e) PROVE AnswersFit'
  <2>1. Stage(e) <= moved[e.obj] /\ Stage(e) # moved[e.obj] /\ moved' = moved /\ answered' = answered \cup {e}
    BY <1>5 DEF IgnoreEvent, Sent
  <2>2. QED
    BY <1>4, <2>1
<1>6. ASSUME NEW r \in Replica, AlreadyAdjusted(r) PROVE AnswersFit'
  <2>1. EventFits(task[r].ev)
    BY <1>6 DEF AlreadyAdjusted, TasksFit, TaskFits
  <2>2. PICK e \in Event : e = task[r].ev
    BY <2>1 DEF EventFits
  <2>3. moved' = moved /\ answered' = answered \cup {e} /\ (e \in answered \/ Existing(e)) /\ Stage(e) <= moved[e.obj]
    BY <1>6, <2>1, <2>2 DEF AlreadyAdjusted, EventFits
  <2>5. CASE e \in answered
    BY <1>3, <1>4, <2>3, <2>5
  <2>6. CASE Existing(e)
    BY <1>2, <1>4, <2>3, <2>6
  <2>4. QED
    BY <2>3, <2>5, <2>6
<1>7. ASSUME NEW r \in Replica, CommitAdjustment(r) PROVE AnswersFit'
  <2>1. PICK e \in Event, d \in Int :
           /\ EventFits(e) /\ ~Existing(e) /\ SignedRight(e, d)
           /\ adj' = [adj EXCEPT ![RowOf(e)] = IF e.rev THEN -d ELSE d]
           /\ answered' = answered \cup {e} /\ moved' = moved
    BY <1>7, CommitIs
  <2>2. adj'[RowOf(e)] \in Nat
    BY <2>1, RowWritten
  <2>3. Existing(e)'
    BY <2>2 DEF Existing, RowOf, NoRow
  <2>4. Stage(e) <= moved'[e.obj]
    BY <2>1 DEF EventFits
  <2>5. QED
    BY <1>4, <2>1, <2>3, <2>4
<1>8. (\E e \in Event : IgnoreEvent(e)) \/ (\E r \in Replica : AlreadyAdjusted(r) \/ CommitAdjustment(r)) \/ answered' = answered
  BY DEF Next, Capture, FetchPortfolio, SettleNothing, Settle, TopUp, PrepareAdjustment,
     BeginAdjustment, LockBalance, StripeMoves, Abort
<1>9. CASE answered' = answered
  BY <1>3, <1>9 DEF AnswersFit, Stage
<1>10. QED
  BY <1>5, <1>6, <1>7, <1>8, <1>9

LEMMA AppliedKept ==
  ASSUME TypeOK, TasksFit, AppliedIsDesired, Next
  PROVE  AppliedIsDesired'
<1>1. ASSUME NEW p \in Payment, RowsOf(p)' = RowsOf(p), Applied(p)' = Applied(p)
      PROVE  Applied(p)' = DesiredApplied(p, RowsOf(p))'
  BY <1>1 DEF AppliedIsDesired, DesiredApplied, Active, Restored
<1>2. CASE adj' = adj
  BY <1>1, <1>2, SameRows DEF AppliedIsDesired
<1>3. ASSUME NEW r \in Replica, CommitAdjustment(r) PROVE AppliedIsDesired'
  <2>1. PICK e \in Event, d \in Int :
           /\ ~Existing(e) /\ d = AppliedDelta(e) /\ SignedRight(e, d)
           /\ adj' = [adj EXCEPT ![RowOf(e)] = IF e.rev THEN -d ELSE d]
    BY <1>3, CommitIs
  <2> DEFINE q == Charge[e.obj]
  <2>2. /\ RowsOf(q)' = RowsOf(q) \cup {RowOf(e)} /\ Applied(q)' = Applied(q) + d
        /\ \A p \in Payment \ {q} : RowsOf(p)' = RowsOf(p) /\ Applied(p)' = Applied(p)
    BY <2>1, RowWritten
  <2>3. d = DesiredApplied(q, RowsOf(q) \cup {RowOf(e)}) - Applied(q)
    BY <2>1 DEF AppliedDelta
  <2>4. q \in Payment
    BY EventIs
  <2> HIDE DEF q
  <2>5. DesiredApplied(q, RowsOf(q) \cup {RowOf(e)}) \in Int /\ Applied(q) \in Int
    BY <2>4, WithheldIs, AppliedInt
  <2>6. Applied(q)' = DesiredApplied(q, RowsOf(q) \cup {RowOf(e)})
    BY <2>2, <2>3, <2>5
  <2>7. Applied(q)' = DesiredApplied(q, RowsOf(q))'
    BY <2>2, <2>6 DEF DesiredApplied, Active, Restored
  <2>8. \A p \in Payment : Applied(p)' = DesiredApplied(p, RowsOf(p))'
    BY <1>1, <2>2, <2>7
  <2>9. QED
    BY <2>8 DEF AppliedIsDesired
<1>4. QED
  BY <1>2, <1>3, RowsChange

----------------------------------------------------------------------------
(* Credits are accounted for.                                              *)

LEMMA SettleIs ==
  ASSUME TypeOK, TasksFit, NEW r \in Replica, Settle(r)
  PROVE  \E i \in 1 .. Len(ledger) :
           /\ ~Superseded(i) /\ Replays(i) = {} /\ Involved(i) # {} /\ SettlementAdmitted(i)
           /\ SettlePortfolio(i) /\ known' = known \cup {i}
           /\ ledger' = ledger /\ paid' = paid /\ adj' = adj
<1> DEFINE i == task[r].snap
<1>1. i \in 1 .. Len(ledger)
  BY DEF TasksFit, TaskFits, Settle
<1>2. /\ ~Superseded(i) /\ Replays(i) = {} /\ Involved(i) # {} /\ SettlementAdmitted(i)
      /\ SettlePortfolio(i) /\ known' = known \cup {i}
      /\ ledger' = ledger /\ paid' = paid /\ adj' = adj
  BY DEF Settle, stripeVars
<1> HIDE DEF i
<1>3. QED
  BY <1>1, <1>2

LEMMA SettledIs ==
  ASSUME TypeOK, NEW i \in 1 .. Len(ledger), SettlePortfolio(i)
  PROVE  /\ \A b \in Bucket : alloc'[b] = IF b[1] \in Involved(i) THEN RateCreditPortfolio(i)[b] ELSE alloc[b]
         /\ \A s \in Service : settled'[s] = IF s \in Involved(i) THEN OfService(RateCreditPortfolio(i), s) ELSE settled[s]
         /\ \A s \in Service : chain'[s] = IF s \in Involved(i) THEN chain[s] \cup {i} ELSE chain[s]
         /\ \A s \in Service : settled'[s].consumed = settled[s].consumed + Deltas(i, RateCreditPortfolio(i))[s]
<1> DEFINE rated == RateCreditPortfolio(i)
<1>1. rated \in [Bucket -> Amounts]
  BY RatedIs
<1> HIDE DEF rated
<1>2. /\ alloc' = Allocations(i, rated)
      /\ settled' = [s \in Service |-> IF s \in Involved(i) THEN OfService(rated, s) ELSE settled[s]]
      /\ chain' = [s \in Service |-> IF s \in Involved(i) THEN chain[s] \cup {i} ELSE chain[s]]
  BY DEF SettlePortfolio, rated
<1>3. \A s \in Service : settled[s].consumed \in Nat /\ OfService(rated, s).consumed \in Nat
  BY <1>1, OfServiceIs DEF TypeOK, Amounts
<1>4. \A s \in Service : settled'[s].consumed = settled[s].consumed + Deltas(i, rated)[s]
  <2> SUFFICES ASSUME NEW s \in Service PROVE settled'[s].consumed = settled[s].consumed + Deltas(i, rated)[s]
    OBVIOUS
  <2>1. Deltas(i, rated)[s] = IF s \in Involved(i) THEN OfService(rated, s).consumed - settled[s].consumed ELSE 0
    BY DEF Deltas, Delta
  <2>2. settled'[s] = IF s \in Involved(i) THEN OfService(rated, s) ELSE settled[s]
    BY <1>2
  <2>3. QED
    BY <1>3, <2>1, <2>2
<1>5. QED
  BY <1>2, <1>4 DEF Allocations, rated

LEMMA PaidTotals ==
  ASSUME TypeOK
  PROVE  /\ IsFiniteSet(paid) /\ paid \subseteq Payment
         /\ [p \in paid |-> Price[p] - Applied(p)] \in [paid -> Int]
         /\ [s \in Service |-> settled[s].consumed] \in [Service -> Nat]
         /\ \A p \in Payment : Price[p] \in Nat /\ Applied(p) \in Int
<1>1. \A p \in Payment : Price[p] \in Nat /\ Applied(p) \in Int
  BY PaymentConstants, AppliedInt
<1>2. IsFiniteSet(paid) /\ paid \subseteq Payment
  BY PaymentConstants, FS_Subset DEF TypeOK
<1>3. [p \in paid |-> Price[p] - Applied(p)] \in [paid -> Int]
  BY <1>1, <1>2
<1>4. [s \in Service |-> settled[s].consumed] \in [Service -> Nat]
  BY DEF TypeOK
<1>5. QED
  BY <1>1, <1>2, <1>3, <1>4

LEMMA SumsAdd ==
  /\ \A a, b, c \in [Service -> Int] : (\A s \in Service : c[s] = a[s] + b[s]) => Total(c) = Total(a) + Total(b)
  /\ \A a, b, c \in [User -> Int] : (\A u \in User : c[u] = a[u] + b[u]) => Total(c) = Total(a) + Total(b)
  /\ \A a, b, c \in [Bucket -> Int] : (\A d \in Bucket : c[d] = a[d] + b[d]) => Total(c) = Total(a) + Total(b)
BY BucketsAreFinite, TotalOfSum

LEMMA BalanceKept ==
  ASSUME TypeOK, TasksFit, RowsFit, BalanceExplained, Next
  PROVE  BalanceExplained'
<1> USE DEF usageVars, stripeVars, lockVars
<1> DEFINE f == [p \in paid |-> Price[p] - Applied(p)]
           g == [s \in Service |-> settled[s].consumed]
<1>1. balance = Total(f) - Total(g)
  BY DEF BalanceExplained
<1>2. IsFiniteSet(paid) /\ paid \subseteq Payment /\ f \in [paid -> Int] /\ g \in [Service -> Int]
  BY PaidTotals
<1>3. Total(f) \in Int /\ Total(g) \in Int
  BY <1>2, BucketsAreFinite, TotalInt
<1>4. CASE balance' = balance /\ paid' = paid /\ adj' = adj /\ settled' = settled
  BY <1>1, <1>4, SameRows DEF BalanceExplained
<1>5. ASSUME NEW q \in Payment, TopUp(q) PROVE BalanceExplained'
  <2>1. q \notin paid /\ paid' = paid \cup {q} /\ balance' = balance + Price[q] /\ adj' = adj /\ settled' = settled
    BY <1>5 DEF TopUp
  <2>2. RowsOf(q) = {}
    <3> SUFFICES ASSUME NEW x \in RowsOf(q) PROVE FALSE
      OBVIOUS
    <3>1. x \in Row /\ Charge[x[1]] = q /\ adj[x] # NoRow
      BY DEF RowsOf
    <3>2. PICK o \in Object, b \in BOOLEAN : x = <<o, b>>
      BY <3>1 DEF Row
    <3>3. Charge[o] \in paid
      BY <3>1, <3>2 DEF RowsFit
    <3>4. QED
      BY <2>1, <3>1, <3>2, <3>3
  <2>3. Applied(q) = 0
    BY <2>2, TotalEmpty DEF Applied
  <2> DEFINE h == [p \in paid \cup {q} |-> Price[p] - Applied(p)]
  <2>4. balance' = Total(h) - Total(g)
    <3> DEFINE U == paid \cup {q}
    <3>1. IsFiniteSet(U) /\ q \in U /\ U \ {q} = paid /\ h \in [U -> Int] /\ h[q] = Price[q] /\ Price[q] \in Int
          /\ \A p \in paid : h[p] = f[p]
      <4>1. \A p \in Payment : Price[p] \in Int /\ Applied(p) \in Int
        BY PaidTotals
      <4>2. IsFiniteSet(U) /\ q \in U /\ U \ {q} = paid
        BY <1>2, <2>1, FS_AddElement
      <4>3. h \in [U -> Int]
        BY <1>2, <4>1
      <4>4. QED
        BY <2>3, <4>1, <4>2, <4>3
    <3> HIDE DEF h, U, f
    <3>2. Total(h) = h[q] + Total([p \in U \ {q} |-> h[p]])
      BY ONLY <3>1, TotalRemove
    <3>3. [p \in U \ {q} |-> h[p]] = f
      BY <1>2, <3>1
    <3>4. Total(h) = Price[q] + Total(f)
      BY <3>1, <3>2, <3>3
    <3> HIDE DEF g
    <3>5. QED
      BY <1>1, <1>3, <2>1, <3>1, <3>4
  <2>5. QED
    BY <2>1, <2>4, SameRows DEF BalanceExplained
<1>6. ASSUME NEW r \in Replica, CommitAdjustment(r) PROVE BalanceExplained'
  <2>1. PICK e \in Event, d \in Int :
           /\ EventFits(e) /\ ~Existing(e) /\ SignedRight(e, d)
           /\ adj' = [adj EXCEPT ![RowOf(e)] = IF e.rev THEN -d ELSE d]
           /\ balance' = balance - d /\ paid' = paid /\ settled' = settled
    BY <1>6, CommitIs
  <2> DEFINE q == Charge[e.obj]
             h == [p \in paid |-> Price[p] - Applied(p)']
  <2>2. /\ Applied(q)' = Applied(q) + d
        /\ \A p \in Payment \ {q} : Applied(p)' = Applied(p)
    BY <2>1, RowWritten
  <2>3. q \in paid /\ q \in Payment
    BY <1>2, <2>1 DEF EventFits
  <2> HIDE DEF q
  <2>4. h \in [paid -> Int] /\ h[q] = f[q] - d /\ f[q] \in Int /\ \A p \in paid \ {q} : h[p] = f[p]
    <3>1. \A p \in paid : Price[p] \in Int /\ Applied(p) \in Int /\ Applied(p)' \in Int
      BY <1>2, <2>2, <2>3, PaidTotals
    <3>2. h[q] = f[q] - d /\ f[q] \in Int
      BY <2>2, <2>3, <3>1
    <3>3. \A p \in paid \ {q} : h[p] = f[p]
      BY <1>2, <2>2
    <3>4. \A p \in paid : Price[p] - Applied(p)' \in Int
      BY <3>1
    <3>5. QED
      BY <3>2, <3>3, <3>4
  <2> HIDE DEF h, f
  <2>5. Total(h) = Total(f) - f[q] + h[q]
    BY <1>2, <2>3, <2>4, TotalChanged
  <2> HIDE DEF g
  <2>6. balance' = Total(h) - Total(g)
    BY <1>1, <1>3, <2>1, <2>4, <2>5
  <2>7. QED
    BY <2>1, <2>6 DEF BalanceExplained, h, g
<1>7. ASSUME NEW r \in Replica, Settle(r) PROVE BalanceExplained'
  <2>1. PICK i \in 1 .. Len(ledger) : SettlePortfolio(i) /\ known' = known \cup {i} /\ ledger' = ledger /\ paid' = paid /\ adj' = adj
    BY <1>7, SettleIs
  <2> DEFINE h == [s \in Service |-> settled'[s].consumed]
             k == Deltas(i, RateCreditPortfolio(i))
  <2>2. /\ settled' \in [Service -> Amounts] /\ k \in [Service -> Int] /\ balance' = balance - Total(k)
        /\ \A s \in Service : settled'[s].consumed = settled[s].consumed + k[s]
    BY <2>1, SettledTypes, SettledIs
  <2> HIDE DEF k
  <2>3. h \in [Service -> Int] /\ \A s \in Service : h[s] = g[s] + k[s]
    BY <2>2 DEF Amounts
  <2> HIDE DEF h, g, f
  <2>4. Total(h) = Total(g) + Total(k) /\ Total(k) \in Int
    <3>1. IsFiniteSet(Service) /\ g \in [Service -> Int] /\ k \in [Service -> Int]
      <4>1. g \in [Service -> Nat]
        BY PaidTotals DEF g
      <4>2. QED
        BY <2>2, <4>1, BucketsAreFinite
    <3>2. Total(k) \in Int
      BY ONLY <3>1, TotalInt
    <3>3. h \in [Service -> Int] /\ \A s \in Service : h[s] = g[s] + k[s]
      BY <2>3
    <3>4. Total(h) = Total(g) + Total(k)
      BY <3>1, <3>3, SumsAdd
    <3>5. QED
      BY <3>2, <3>4
  <2>5. balance' = Total(f) - Total(h)
    BY <1>1, <1>3, <2>2, <2>4
  <2>6. QED
    BY <2>1, <2>5, SameRows DEF BalanceExplained, f, h
<1>8. (\E q \in Payment : TopUp(q)) \/ (\E r \in Replica : CommitAdjustment(r) \/ Settle(r))
      \/ (balance' = balance /\ paid' = paid /\ adj' = adj /\ settled' = settled)
  BY DEF Next, Capture, FetchPortfolio, SettleNothing, IgnoreEvent, PrepareAdjustment, AlreadyAdjusted,
     BeginAdjustment, LockBalance, StripeMoves, Abort
<1>9. QED
  BY <1>4, <1>5, <1>6, <1>7, <1>8

LEMMA AttributionKept ==
  ASSUME TypeOK, TasksFit, CreditsAreAttributed, UnsettledIsBlank, Next
  PROVE  CreditsAreAttributed' /\ UnsettledIsBlank'
<1> USE DEF usageVars, stripeVars, lockVars
<1>1. \A s, a, c : (\A u \in User : a[<<s, u>>] = c[<<s, u>>]) => OfService(a, s) = OfService(c, s)
  BY DEF OfService
<1>2. ASSUME NEW r \in Replica, Settle(r) PROVE CreditsAreAttributed' /\ UnsettledIsBlank'
  <2>1. PICK i \in 1 .. Len(ledger) : SettlePortfolio(i)
    BY <1>2, SettleIs
  <2> DEFINE rated == RateCreditPortfolio(i)
  <2>2. /\ \A b \in Bucket : alloc'[b] = IF b[1] \in Involved(i) THEN rated[b] ELSE alloc[b]
        /\ \A s \in Service : settled'[s] = IF s \in Involved(i) THEN OfService(rated, s) ELSE settled[s]
        /\ \A s \in Service : chain'[s] = IF s \in Involved(i) THEN chain[s] \cup {i} ELSE chain[s]
    BY <2>1, SettledIs
  <2>3. \A b \in Bucket : /\ rated[b].consumed <= Capacity(i, b) /\ rated[b].rated = RatedUsage(i, b)
                          /\ rated[b].consumed \in Nat
    <3>1. rated \in [Bucket -> Amounts]
      BY RatedIs
    <3>2. QED
      BY <3>1, RatedIs DEF Amounts
  <2> HIDE DEF rated
  <2>4. ASSUME NEW b \in Bucket PROVE alloc'[b].consumed * Unit <= alloc'[b].rated
    <3>1. CASE b[1] \in Involved(i)
      <4>1. Capacity(i, b) \in Nat /\ Capacity(i, b) * Unit <= RatedUsage(i, b) /\ RatedUsage(i, b) \in Nat
        BY RatingIs, UsageIs
      <4>2. Unit \in Nat
        BY CreditLedgerAssumption
      <4> DEFINE a == rated[b].consumed
                 c == Capacity(i, b)
      <4>3. a \in Nat /\ c \in Nat /\ a <= c
        BY <2>3, <4>1
      <4> HIDE DEF a, c
      <4>4. Unit * a <= Unit * c
        BY <4>2, <4>3, ProductMonotone
      <4>5. a * Unit <= c * Unit /\ a * Unit \in Int /\ c * Unit \in Int
        BY <4>2, <4>3, <4>4
      <4>6. a * Unit <= RatedUsage(i, b)
        BY <4>1, <4>5 DEF c
      <4>7. QED
        BY <2>2, <2>3, <3>1, <4>6 DEF a
    <3>2. CASE b[1] \notin Involved(i)
      BY <2>2, <3>2 DEF CreditsAreAttributed
    <3>3. QED
      BY <3>1, <3>2
  <2>5. ASSUME NEW s \in Service PROVE settled'[s] = OfService(alloc', s)
    <3>1. \A u \in User : <<s, u>> \in Bucket /\ <<s, u>>[1] = s
      BY DEF Bucket
    <3>2. CASE s \in Involved(i)
      <4>1. \A u \in User : alloc'[<<s, u>>] = rated[<<s, u>>]
        BY <2>2, <3>1, <3>2
      <4>2. QED
        BY <1>1, <2>2, <3>2, <4>1
    <3>3. CASE s \notin Involved(i)
      <4>1. \A u \in User : alloc'[<<s, u>>] = alloc[<<s, u>>]
        BY <2>2, <3>1, <3>3
      <4>2. OfService(alloc', s) = OfService(alloc, s)
        BY <1>1, <4>1
      <4>3. QED
        BY <2>2, <3>3, <4>2 DEF CreditsAreAttributed
    <3>4. QED
      BY <3>2, <3>3
  <2>6. ASSUME NEW s \in Service, chain'[s] = {}
        PROVE  \A u \in User : alloc'[<<s, u>>] = [rated |-> 0, consumed |-> 0]
    <3>1. \A u \in User : <<s, u>> \in Bucket /\ <<s, u>>[1] = s
      BY DEF Bucket
    <3>2. s \notin Involved(i) /\ chain[s] = {}
      BY <2>2, <2>6
    <3>3. QED
      BY <2>2, <3>1, <3>2 DEF UnsettledIsBlank
  <2>7. CreditsAreAttributed'
    <3>1. \A s \in Service : settled'[s] = OfService(alloc', s)
      BY <2>5
    <3>2. (\A s \in Service : settled[s] = OfService(alloc, s))'
      BY <3>1 DEF OfService
    <3>3. QED
      BY <2>4, <3>2 DEF CreditsAreAttributed
  <2>8. QED
    BY <2>6, <2>7 DEF UnsettledIsBlank
<1>3. (\E r \in Replica : Settle(r)) \/ (settled' = settled /\ alloc' = alloc /\ chain' = chain)
  BY DEF Next, Capture, FetchPortfolio, SettleNothing, IgnoreEvent, PrepareAdjustment, AlreadyAdjusted,
     BeginAdjustment, LockBalance, StripeMoves, Abort, TopUp, CommitAdjustment
<1>4. CASE settled' = settled /\ alloc' = alloc /\ chain' = chain
  BY <1>4 DEF CreditsAreAttributed, UnsettledIsBlank, OfService
<1>5. QED
  BY <1>2, <1>3, <1>4

LEMMA NothingChanges ==
  ASSUME LedgerInvariant, UNCHANGED vars
  PROVE  LedgerInvariant'
<1> USE DEF vars
<1>1. /\ ledger' = ledger /\ known' = known /\ settled' = settled /\ chain' = chain /\ alloc' = alloc
      /\ balance' = balance /\ paid' = paid /\ adj' = adj /\ moved' = moved /\ answered' = answered
      /\ task' = task /\ payLock' = payLock /\ accountLock' = accountLock /\ scope' = scope
  OBVIOUS
<1>2. TypeOK'
  BY <1>1 DEF LedgerInvariant, TypeOK
<1>3. \A p : RowsOf(p)' = RowsOf(p) /\ Applied(p)' = Applied(p)
  BY <1>1, SameRows
<1>4. \A e : AppliedDelta(e)' = AppliedDelta(e)
  BY <1>1, SameRows
<1>5. TasksFit' /\ RowsFit' /\ AnswersFit'
  BY <1>1, <1>4 DEF LedgerInvariant, TasksFit, TaskFits, RowsFit, AnswersFit, HoldsPayment, EventFits, Adjusting, Existing
<1>6. AppliedIsDesired'
  BY <1>3 DEF LedgerInvariant, AppliedIsDesired, DesiredApplied, Active, Restored
<1>7. BalanceExplained'
  BY <1>1, <1>3 DEF LedgerInvariant, BalanceExplained
<1>8. CreditsAreAttributed' /\ UnsettledIsBlank'
  BY <1>1 DEF LedgerInvariant, CreditsAreAttributed, UnsettledIsBlank, OfService
<1>9. QED
  BY <1>2, <1>5, <1>6, <1>7, <1>8 DEF LedgerInvariant

LEMMA InvariantKept ==
  ASSUME LedgerInvariant, Next
  PROVE  LedgerInvariant'
<1> USE DEF LedgerInvariant
<1>1. TypeOK' /\ TasksFit' /\ RowsFit' /\ AnswersFit'
  BY TypesKept, TasksKept, RowsKept, AnswersKept
<1>2. AppliedIsDesired' /\ BalanceExplained'
  BY AppliedKept, BalanceKept
<1>3. CreditsAreAttributed' /\ UnsettledIsBlank'
  BY AttributionKept
<1>4. QED
  BY <1>1, <1>2, <1>3

----------------------------------------------------------------------------
(* The theorems about the ledger.                                          *)

(* What the handlers and the triggers keep between them, whatever          *)
(* interleaves: requests about what Stripe did of payments that are        *)
(* recorded and locked, rows of what was taken, answers that left their    *)
(* row, a payment's rows adding up to what is withheld of it, and the      *)
(* balance explained by the rows.                                          *)
THEOREM LedgerIsSound == Spec => []LedgerInvariant
<1>1. Init => LedgerInvariant
  BY StartsFit
<1>2. LedgerInvariant /\ [Next]_vars => LedgerInvariant'
  BY InvariantKept, NothingChanges
<1>3. QED
  BY <1>1, <1>2, PTL DEF Spec

(* Every column holds what it may hold; what is settled never becomes      *)
(* negative and no adjustment moves credits the wrong way.                 *)
THEOREM TypeCorrect == Spec => []TypeOK
<1>1. LedgerInvariant => TypeOK
  BY DEF LedgerInvariant
<1>2. QED
  BY <1>1, LedgerIsSound, PTL

LEMMA AnsweredIsHeldBack ==
  ASSUME TypeOK, RowsFit, AnswersFit, Sent \subseteq answered, NEW p \in Payment, NEW o \in ObjectsOf(p)
  PROVE  Remaining(RowsOf(p), o) = IF moved[o] = 1 THEN Principal[o] ELSE 0
<1>1. o \in Object /\ Charge[o] = p /\ moved[o] \in 0 .. 2
  BY DEF ObjectsOf, TypeOK
<1>2. \A b \in BOOLEAN : <<o, b>> \in RowsOf(p) <=> adj[<<o, b>>] # NoRow
  <2>1. \A b \in BOOLEAN : <<o, b>> \in Row /\ <<o, b>>[1] = o
    BY <1>1 DEF Row
  <2>2. QED
    BY <1>1, <2>1 DEF RowsOf
<1>3. Remaining(RowsOf(p), o) =
        IF <<o, FALSE>> \in RowsOf(p) /\ <<o, TRUE>> \notin RowsOf(p) THEN Principal[o] ELSE 0
  BY <1>1, RemainingIs
<1>4. ASSUME NEW b \in BOOLEAN, moved[o] = IF b THEN 2 ELSE 1
      PROVE  adj[<<o, b>>] # NoRow
  <2> DEFINE e == [obj |-> o, rev |-> b, copy |-> 1]
  <2>1. e \in Event /\ e.obj = o /\ e.rev = b /\ e.copy = 1
    BY <1>1 DEF Event
  <2> HIDE DEF e
  <2>2. Stage(e) = moved[o]
    BY <1>4, <2>1 DEF Stage
  <2>3. scope \in Scopes
    BY DEF TypeOK
  <2>4. scope.copies \in 1 .. 2
    BY <2>3, PaymentConstants
  <2>5. e \in Sent
    BY <1>1, <2>1, <2>2, <2>4 DEF Sent
  <2>6. e \in answered
    BY <2>5
  <2>7. QED
    BY <2>1, <2>2, <2>6 DEF AnswersFit, Existing, RowOf
<1>5. \A b \in BOOLEAN : adj[<<o, b>>] # NoRow => (IF b THEN 2 ELSE 1) <= moved[o]
  BY <1>1 DEF RowsFit
<1>6. adj[<<o, FALSE>>] # NoRow => 1 <= moved[o]
  BY <1>5
<1>7. adj[<<o, TRUE>>] # NoRow => 2 <= moved[o]
  BY <1>5
<1>8. moved[o] = 1 => adj[<<o, FALSE>>] # NoRow
  BY <1>4
<1>9. moved[o] = 2 => adj[<<o, TRUE>>] # NoRow
  BY <1>4
<1>10. (<<o, FALSE>> \in RowsOf(p) <=> adj[<<o, FALSE>>] # NoRow) /\ (<<o, TRUE>> \in RowsOf(p) <=> adj[<<o, TRUE>>] # NoRow)
  BY <1>2
<1>11. moved[o] \in {0, 1, 2}
  BY <1>1
<1>12. (<<o, FALSE>> \in RowsOf(p) /\ <<o, TRUE>> \notin RowsOf(p)) <=> moved[o] = 1
  <2>1. CASE moved[o] = 0
    BY <1>6, <1>10, <2>1
  <2>2. CASE moved[o] = 1
    BY <1>7, <1>8, <1>10, <2>2
  <2>3. CASE moved[o] = 2
    BY <1>9, <1>10, <2>3
  <2>4. QED
    BY <1>11, <2>1, <2>2, <2>3
<1>13. QED
  BY <1>3, <1>12

LEMMA HeldBackIsTaken ==
  ASSUME LedgerInvariant
  PROVE  RefundsReachTheBalance
<1> USE DEF LedgerInvariant
<1> SUFFICES ASSUME Sent \subseteq answered, NEW p \in paid
             PROVE  Applied(p) = Lesser(Price[p], Total([o \in HeldBack(p) |-> Principal[o]]))
  BY DEF RefundsReachTheBalance
<1> DEFINE f == [o \in ObjectsOf(p) |-> Remaining(RowsOf(p), o)]
<1>1. p \in Payment
  BY DEF TypeOK
<1>2. f \in [ObjectsOf(p) -> Nat] /\ Withheld(p, RowsOf(p)) = Total(f)
  BY <1>1, WithheldIs DEF Withheld
<1>3. Applied(p) = Lesser(Price[p], Total(f))
  BY <1>1, <1>2, WithheldIs DEF AppliedIsDesired
<1>4. \A o \in ObjectsOf(p) : f[o] = IF moved[o] = 1 THEN Principal[o] ELSE 0
  BY <1>1, AnsweredIsHeldBack
<1> HIDE DEF f
<1>5. HeldBack(p) \in SUBSET ObjectsOf(p) /\ \A o \in ObjectsOf(p) \ HeldBack(p) : f[o] = 0
  BY <1>4 DEF HeldBack
<1>6. IsFiniteSet(ObjectsOf(p)) /\ f \in [ObjectsOf(p) -> Int]
  BY <1>1, <1>2, PaymentConstants
<1>7. Total(f) = Total(Cut(f, HeldBack(p)))
  BY <1>5, <1>6, TotalOfPart
<1>8. Cut(f, HeldBack(p)) = [o \in HeldBack(p) |-> Principal[o]]
  BY <1>4, <1>5 DEF Cut, HeldBack
<1>9. QED
  BY <1>3, <1>7, <1>8

(* No interleaving of settlements, payments, refunds, disputes and         *)
(* redelivered webhooks loses or makes credits: the balance is what        *)
(* payments bought less what was taken and used, services are charged what *)
(* their users are, within their usage, and once every event was answered  *)
(* a payment has lost exactly what Stripe holds back                       *)
(* (billing-credit-settlement.service.ts,                                  *)
(* billing-credit-payment-adjustment-webhook.service.ts and the triggers   *)
(* on their rows).                                                         *)
THEOREM CreditsAccounted == Spec => []CreditsAreAccounted
<1>1. LedgerInvariant => CreditsAreAccounted
  BY HeldBackIsTaken DEF LedgerInvariant, CreditsAreAccounted
<1>2. QED
  BY <1>1, LedgerIsSound, PTL

LEMMA CommitsAreAdmitted ==
  ASSUME LedgerInvariant, NEW r \in Replica, ReadyToCommit(r)
  PROVE  CommitAdmitted(r)
<1> USE DEF LedgerInvariant
<1> DEFINE e == task[r].ev
           p == Charge[e.obj]
           d == task[r].delta
<1>1. TaskFits(r) /\ Adjusting(r)
  BY DEF ReadyToCommit, Adjusting, TasksFit
<1>2. e \in Event /\ p \in Payment
  BY <1>1, EventIs DEF TaskFits, EventFits
<1>3. ~Existing(e) /\ d = AppliedDelta(e)
  BY <1>1 DEF TaskFits, HoldsPayment
<1>4. task[r].op = "locked" => task[r].seen = balance
  BY <1>1 DEF TaskFits
<1> HIDE DEF e, d
<1>5. ActiveBefore(p) = Withheld(p, RowsOf(p)) /\ ActiveAfter(e) = Withheld(p, RowsOf(p) \cup {RowOf(e)})
  BY <1>2, <1>3, ActiveBeforeIs, ActiveAfterIs
<1>6. Applied(p) = DesiredApplied(p, RowsOf(p))
  BY <1>2 DEF AppliedIsDesired
<1>7. d = DesiredApplied(p, RowsOf(p) \cup {RowOf(e)}) - Applied(p)
  BY <1>3 DEF AppliedDelta
<1>8. AdjustmentAdmitted(e, d)
  BY <1>2, <1>5, <1>6, <1>7, WithheldIs DEF AdjustmentAdmitted
<1>9. QED
  BY <1>4, <1>8 DEF CommitAdmitted, e, d

LEMMA BucketTotals ==
  ASSUME NEW f \in [Bucket -> Int]
  PROVE  Total(f) = Total([s \in Service |-> Total([u \in User |-> f[<<s, u>>]])])
BY SMTT(60), BucketsAreFinite, TotalOfPairs DEF Bucket

(* What a settlement gives back, and what it moves in all.                 *)
Released(i) == [b \in Bucket |-> alloc[b].consumed - Kept(i, b)]
Moves(i)    == [b \in Bucket |-> Shares(Room(i), Available(i))[b] - Released(i)[b]]

LEMMA MovesAre ==
  ASSUME TypeOK, NEW i \in 1 .. Len(ledger)
  PROVE  /\ Released(i) \in [Bucket -> Nat] /\ Moves(i) \in [Bucket -> Int]
         /\ Total(Moves(i)) = Lesser(Available(i), Total(Room(i))) - Total(Released(i))
         /\ Total(Released(i)) \in Nat /\ Total(Room(i)) \in Nat /\ Total(Moves(i)) \in Int
<1> DEFINE share == Shares(Room(i), Available(i))
           back  == Released(i)
           x     == Moves(i)
<1>1. share \in [Bucket -> Nat] /\ Total(share) = Lesser(Available(i), Total(Room(i)))
  BY RatedIs
<1> HIDE DEF share
<1>2. back \in [Bucket -> Nat]
  <2>1. \A b \in Bucket : alloc[b].consumed - Kept(i, b) \in Nat
    <3> TAKE b \in Bucket
    <3>1. Kept(i, b) \in Nat /\ Kept(i, b) <= alloc[b].consumed /\ alloc[b].consumed \in Nat
      BY RatingIs DEF Amounts
    <3> HIDE DEF Amounts
    <3>2. QED
      BY <3>1
  <2>2. QED
    BY <2>1 DEF Released
<1>3. x \in [Bucket -> Int] /\ \A b \in Bucket : share[b] = x[b] + back[b]
  <2>1. \A b \in Bucket : x[b] = share[b] - back[b] /\ share[b] \in Nat /\ back[b] \in Nat
    BY <1>1, <1>2 DEF Moves, share
  <2>2. x \in [Bucket -> Int]
    BY <2>1 DEF Moves, share
  <2>3. QED
    BY <2>1, <2>2
<1> HIDE DEF back, x
<1>4. Total(back) \in Nat /\ Total(x) \in Int
  BY <1>2, <1>3, BucketsAreFinite, TotalNat, TotalInt
<1>5. Total(share) = Total(x) + Total(back)
  <2>1. share \in [Bucket -> Int] /\ x \in [Bucket -> Int] /\ back \in [Bucket -> Int]
    BY <1>1, <1>2, <1>3
  <2>2. QED
    BY <1>3, <2>1, SumsAdd
<1>6. Total(Room(i)) \in Nat
  BY RatingIs, BucketsAreFinite, TotalNat
<1>7. Total(x) = Total(share) - Total(back)
  <2>1. Total(share) \in Int
    BY <1>4, <1>5
  <2>2. QED
    BY <1>4, <1>5, <2>1
<1>8. QED
  BY <1>1, <1>2, <1>3, <1>4, <1>6, <1>7 DEF back, x

(* A service's settlement moves what its users' shares move; one that is   *)
(* not settled moves nothing.                                              *)
LEMMA DeltasAre ==
  ASSUME LedgerInvariant, NEW i \in 1 .. Len(ledger), NEW s \in Service
  PROVE  /\ Deltas(i, RateCreditPortfolio(i))[s] = Total([u \in User |-> Moves(i)[<<s, u>>]])
         /\ [u \in User |-> Moves(i)[<<s, u>>]] \in [User -> Int]
<1> USE DEF LedgerInvariant
<1> DEFINE rated == RateCreditPortfolio(i)
           share == Shares(Room(i), Available(i))
           m == [u \in User |-> Moves(i)[<<s, u>>]]
<1>1. \A u \in User : <<s, u>> \in Bucket /\ <<s, u>>[1] = s
  BY DEF Bucket
<1>2. m \in [User -> Int]
  BY <1>1, MovesAre
<1>3. \A b \in Bucket : /\ rated[b].consumed = Kept(i, b) + share[b] /\ share[b] \in Nat /\ share[b] <= Room(i)[b]
                        /\ rated[b].consumed \in Nat
  BY RatedIs DEF Amounts
<1>4. \A b \in Bucket : /\ Moves(i)[b] = share[b] - (alloc[b].consumed - Kept(i, b)) /\ alloc[b].consumed \in Nat
                        /\ Kept(i, b) \in Nat /\ Capacity(i, b) \in Nat /\ Room(i)[b] = Capacity(i, b) - Kept(i, b)
  BY RatingIs DEF Moves, Released, Amounts
<1>5. rated \in [Bucket -> Amounts] /\ alloc \in [Bucket -> Amounts]
  BY RatedIs DEF TypeOK, Amounts
<1> HIDE DEF rated, share
<1>6. Deltas(i, RateCreditPortfolio(i))[s] =
        IF s \in Involved(i) THEN OfService(rated, s).consumed - settled[s].consumed ELSE 0
  BY DEF Deltas, Delta, rated
<1>7. CASE s \in Involved(i)
  <2> DEFINE f == [u \in User |-> rated[<<s, u>>].consumed]
             g == [u \in User |-> alloc[<<s, u>>].consumed]
  <2>1. OfService(rated, s).consumed = Total(f) /\ f \in [User -> Nat]
    BY <1>5, OfServiceIs
  <2>2. settled[s].consumed = Total(g) /\ g \in [User -> Nat]
    <3>1. settled[s] = OfService(alloc, s)
      BY DEF CreditsAreAttributed
    <3>2. QED
      BY <1>5, <3>1, OfServiceIs
  <2>3. \A u \in User : f[u] = m[u] + g[u]
    <3> TAKE u \in User
    <3> DEFINE b == <<s, u>>
    <3>1. b \in Bucket /\ f[u] = rated[b].consumed /\ g[u] = alloc[b].consumed /\ m[u] = Moves(i)[b]
      BY <1>1
    <3> HIDE DEF b, f, g, m
    <3>2. QED
      BY <1>3, <1>4, <3>1
  <2> HIDE DEF f, g, m
  <2>4. Total(f) = Total(m) + Total(g)
    <3>1. f \in [User -> Int] /\ m \in [User -> Int] /\ g \in [User -> Int]
      BY <1>2, <2>1, <2>2 DEF m
    <3>2. QED
      BY <2>3, <3>1, SumsAdd
  <2>5. Total(f) \in Nat /\ Total(g) \in Nat /\ Total(m) \in Int
    BY <1>2, <2>1, <2>2, BucketsAreFinite, TotalNat, TotalInt
  <2>6. Total(f) - Total(g) = Total(m)
    BY <2>4, <2>5
  <2>7. QED
    BY <1>2, <1>6, <1>7, <2>1, <2>2, <2>6 DEF m
<1>8. CASE s \notin Involved(i)
  <2>1. s \notin Named(i) /\ chain[s] = {}
    BY <1>8 DEF Involved
  <2>2. \A u \in User : m[u] = 0
    <3> TAKE u \in User
    <3> DEFINE b == <<s, u>>
    <3>1. b \in Bucket /\ b[1] = s /\ m[u] = Moves(i)[b] /\ alloc[b].consumed = 0
      BY <1>1, <2>1 DEF UnsettledIsBlank
    <3> HIDE DEF b, m
    <3>2. RatedUsage(i, b) = 0
      BY <2>1, <3>1, UsageIs
    <3>3. Capacity(i, b) = 0
      BY <3>2, CreditLedgerAssumption DEF Capacity
    <3>4. Kept(i, b) = 0
      BY <3>1, <3>3 DEF Kept, Lesser
    <3>5. QED
      BY <1>3, <1>4, <3>1, <3>3, <3>4
  <2> HIDE DEF m
  <2>3. Total(m) = 0
    BY <1>2, <2>2, BucketsAreFinite, TotalOfZeros
  <2>4. QED
    BY <1>2, <1>6, <1>8, <2>3 DEF m
<1>9. QED
  BY <1>7, <1>8

LEMMA SettlementsAreAdmitted ==
  ASSUME LedgerInvariant, NEW i \in 1 .. Len(ledger), ~Superseded(i), i \notin known
  PROVE  SettlementAdmitted(i)
<1> USE DEF LedgerInvariant
<1> DEFINE d == Deltas(i, RateCreditPortfolio(i))
           R == Total(Released(i))
<1>1. ChainAdmits(i)
  <2>1. \A k \in known : ~(i <= k) /\ k \in Int
    BY DEF Superseded, TypeOK
  <2>2. \A s \in Service : chain[s] \subseteq known
    BY DEF TypeOK
  <2>3. Involved(i) \subseteq Service
    BY UsageIs DEF Involved
  <2>4. QED
    BY <2>1, <2>2, <2>3 DEF ChainAdmits
<1>2. /\ Moves(i) \in [Bucket -> Int] /\ Total(Moves(i)) = Lesser(Available(i), Total(Room(i))) - R
      /\ R \in Nat /\ Total(Room(i)) \in Nat
  BY MovesAre
<1>3. Available(i) = Positive(balance + R) /\ balance \in Int /\ Available(i) \in Nat
  BY RatingIs DEF Released, TypeOK
<1>4. d \in [Service -> Int] /\ Total(d) = Total(Moves(i))
  <2>1. Total(Moves(i)) = Total([s \in Service |-> Total([u \in User |-> Moves(i)[<<s, u>>]])])
    <3> DEFINE F == Moves(i)
    <3>1. F \in [Bucket -> Int]
      BY <1>2
    <3> HIDE DEF F
    <3>2. Total(F) = Total([s \in Service |-> Total([u \in User |-> F[<<s, u>>]])])
      BY <3>1, BucketTotals
    <3>3. QED
      BY <3>2 DEF F
  <2>2. d = [s \in Service |-> Total([u \in User |-> Moves(i)[<<s, u>>]])]
    BY DeltasAre DEF Deltas
  <2>3. \A s \in Service : Total([u \in User |-> Moves(i)[<<s, u>>]]) \in Int
    <3> TAKE s \in Service
    <3> DEFINE m == [u \in User |-> Moves(i)[<<s, u>>]]
    <3>1. m \in [User -> Int]
      BY DeltasAre
    <3> HIDE DEF m
    <3>2. Total(m) \in Int
      BY <3>1, BucketsAreFinite, TotalInt
    <3>3. QED
      BY <3>2 DEF m
  <2>4. QED
    BY <2>1, <2>2, <2>3
<1> HIDE DEF R
<1>5. ASSUME NEW s \in Service, d[s] > 0 PROVE Available(i) = balance + R
  <2>1. SUFFICES ASSUME Available(i) = 0 PROVE FALSE
    BY <1>2, <1>3 DEF Positive
  <2> DEFINE share == Shares(Room(i), Available(i))
             m == [u \in User |-> Moves(i)[<<s, u>>]]
             z == [u \in User |-> 0]
  <2>2. share \in [Bucket -> Nat] /\ Total(share) = 0
    BY <1>2, <2>1, RatedIs DEF Lesser
  <2>3. \A b \in Bucket : Moves(i)[b] = share[b] - Released(i)[b] /\ Released(i)[b] \in Nat
    <3>1. Released(i) \in [Bucket -> Nat]
      BY MovesAre
    <3>2. QED
      BY <3>1 DEF Moves
  <2> HIDE DEF share
  <2>4. \A b \in Bucket : share[b] <= 0 /\ share[b] \in Nat
    BY <2>2, BucketsAreFinite, TotalIncluding
  <2>5. m \in [User -> Int] /\ d[s] = Total(m)
    BY DeltasAre
  <2>6. \A u \in User : m[u] <= z[u]
    <3> TAKE u \in User
    <3>1. <<s, u>> \in Bucket
      BY DEF Bucket
    <3>2. Moves(i)[<<s, u>>] <= 0
      BY <2>3, <2>4, <3>1
    <3>3. QED
      BY <3>2
  <2>7. z \in [User -> Int] /\ \A u \in User : z[u] = 0
    OBVIOUS
  <2> HIDE DEF m, z
  <2>8. Total(z) = 0
    BY <2>7, BucketsAreFinite, TotalOfZeros
  <2>9. Total(m) <= Total(z) /\ Total(m) \in Int
    BY <2>5, <2>6, <2>7, BucketsAreFinite, TotalMonotone, TotalInt
  <2> HIDE DEF d
  <2>10. QED
    BY <1>5, <2>5, <2>8, <2>9
<1> HIDE DEF d
<1>6. ASSUME NEW s \in Service, d[s] > 0
      PROVE  balance - Total([t \in WrittenUpTo(d, s) |-> d[t]]) >= 0
  <2> DEFINE W == WrittenUpTo(d, s)
             rest == Cut(d, Service \ W)
  <2>1. W \in SUBSET Service
    BY DEF WrittenUpTo
  <2>2. \A t \in Service \ W : d[t] \in Nat
    <3> TAKE t \in Service \ W
    <3>1. ~WrittenBefore(d, t, s)
      BY DEF WrittenUpTo
    <3>2. d[t] \in Int /\ d[s] \in Int
      BY <1>4
    <3>3. ~(d[t] < 0)
      BY <1>6, <3>1, <3>2 DEF WrittenBefore
    <3>4. QED
      BY <3>2, <3>3
  <2>3. [t \in WrittenUpTo(d, s) |-> d[t]] = Cut(d, W)
    BY DEF Cut
  <2> HIDE DEF W
  <2>4. Total(d) = Total(Cut(d, W)) + Total(rest) /\ Total(Cut(d, W)) \in Int
    BY <1>4, <2>1, BucketsAreFinite, TotalSplit, CutTotals
  <2>5. rest \in [Service \ W -> Nat] /\ IsFiniteSet(Service \ W)
    BY <2>2, BucketsAreFinite, FS_Subset DEF Cut
  <2> HIDE DEF rest
  <2>6. Total(rest) \in Nat
    BY <2>5, TotalNat
  <2>7. Total(d) <= balance
    BY <1>2, <1>3, <1>4, <1>5, <1>6 DEF Lesser
  <2> DEFINE written == Total(Cut(d, W))
  <2>8. balance - written >= 0
    <3> HIDE DEF written
    <3>1. written \in Int /\ Total(d) = written + Total(rest)
      BY <2>4 DEF written
    <3>2. QED
      BY <1>3, <2>6, <2>7, <3>1
  <2>9. QED
    BY <2>3, <2>8
<1>7. QED
  BY <1>1, <1>6 DEF SettlementAdmitted, EntriesAdmitted, d

(* What a handler computed the triggers admit: the entry trigger never     *)
(* refuses a settlement because services were charged before others gave   *)
(* credits back, and the coherence trigger of payment adjustments never    *)
(* refuses what the handler found under the payment's lock.                *)
THEOREM TriggersAgreeWithHandlers == Spec => []TriggersAgree
<1>1. LedgerInvariant => TriggersAgree
  BY SettlementsAreAdmitted, CommitsAreAdmitted DEF TriggersAgree
<1>2. QED
  BY <1>1, LedgerIsSound, PTL

(* A settlement that leaves credits gave every user all there was room for.*)
LEMMA SettlementsUseCredits ==
  ASSUME LedgerInvariant, NEW i \in 1 .. Len(ledger), SettlePortfolio(i), balance' > 0
  PROVE  \A b \in Bucket : alloc'[b].consumed = alloc'[b].rated \div Unit
<1> USE DEF LedgerInvariant
<1> DEFINE R == Total(Released(i))
           C == Total(Room(i))
           share == Shares(Room(i), Available(i))
           m == Total(Moves(i))
<1>1. m = Lesser(Available(i), C) - R /\ R \in Nat /\ C \in Nat
  BY MovesAre
<1>2. Available(i) = Positive(balance + R) /\ balance \in Int
  BY RatingIs DEF Released, TypeOK
<1>3. balance' = balance - m
  <2> DEFINE d == Deltas(i, RateCreditPortfolio(i))
             F == Moves(i)
  <2>1. balance' = balance - Total(d)
    BY DEF SettlePortfolio
  <2>2. d = [s \in Service |-> Total([u \in User |-> F[<<s, u>>]])]
    BY DeltasAre DEF Deltas
  <2>3. F \in [Bucket -> Int]
    BY MovesAre
  <2> HIDE DEF d, F
  <2>4. Total(F) = Total(d)
    BY <2>2, <2>3, BucketTotals
  <2>5. QED
    BY <2>1, <2>4 DEF F
<1>4. share \in [Bucket -> Nat] /\ Total(share) = Lesser(Available(i), C) /\ Room(i) \in [Bucket -> Nat]
      /\ \A b \in Bucket : share[b] <= Room(i)[b]
  BY RatedIs, RatingIs
<1> HIDE DEF R, C, share, m
<1>5. Lesser(Available(i), C) = C
  BY <1>1, <1>2, <1>3 DEF Positive, Lesser
<1>6. \A b \in Bucket : share[b] = Room(i)[b]
  BY <1>4, <1>5, BucketsAreFinite, TotalTight DEF C
<1>7. \A b \in Bucket : alloc'[b] = IF b[1] \in Involved(i) THEN RateCreditPortfolio(i)[b] ELSE alloc[b]
  BY SettledIs
<1>8. ASSUME NEW b \in Bucket PROVE alloc'[b].consumed = alloc'[b].rated \div Unit
  <2>1. CASE b[1] \in Involved(i)
    <3>1. /\ RateCreditPortfolio(i)[b].rated = RatedUsage(i, b)
          /\ RateCreditPortfolio(i)[b].consumed = Kept(i, b) + Room(i)[b]
      BY <1>6, RatedIs DEF share
    <3>2. Kept(i, b) + Room(i)[b] = Capacity(i, b)
      <4>1. Kept(i, b) \in Nat /\ Capacity(i, b) \in Nat /\ Room(i)[b] = Capacity(i, b) - Kept(i, b)
        BY RatingIs
      <4>2. QED
        BY <4>1
    <3>3. QED
      BY <1>7, <2>1, <3>1, <3>2 DEF Capacity
  <2>2. CASE b[1] \notin Involved(i)
    <3>1. b[1] \in Service /\ b[2] \in User /\ b = <<b[1], b[2]>>
      BY DEF Bucket
    <3>2. chain[b[1]] = {}
      BY <2>2, <3>1 DEF Involved
    <3>3. alloc[b] = [rated |-> 0, consumed |-> 0]
      BY <3>1, <3>2 DEF UnsettledIsBlank
    <3>4. QED
      BY <1>7, <2>2, <3>3, CreditLedgerAssumption
  <2>3. QED
    BY <2>1, <2>2
<1>9. QED
  BY <1>8

LEMMA ChainsMoveBySettling ==
  ASSUME LedgerInvariant, Next
  PROVE  (\E r \in Replica : Settle(r)) \/ (settled' = settled /\ alloc' = alloc /\ chain' = chain)
BY DEF Next, Capture, FetchPortfolio, SettleNothing, IgnoreEvent, PrepareAdjustment, AlreadyAdjusted,
     BeginAdjustment, LockBalance, StripeMoves, Abort, TopUp, CommitAdjustment, usageVars

LEMMA CreditsFirst ==
  ASSUME LedgerInvariant, Next
  PROVE  CreditsAreUsedFirst
<1>1. SUFFICES ASSUME chain' # chain, balance' > 0
               PROVE  \A b \in Bucket : alloc'[b].consumed = alloc'[b].rated \div Unit
  BY DEF CreditsAreUsedFirst
<1>2. PICK r \in Replica : Settle(r)
  BY <1>1, ChainsMoveBySettling
<1>3. PICK i \in 1 .. Len(ledger) : SettlePortfolio(i)
  BY <1>2, SettleIs DEF LedgerInvariant
<1>4. QED
  BY <1>1, <1>3, SettlementsUseCredits

(* A settlement leaves credits on the account only when it paid all the    *)
(* usage that whole credits can pay (rateCreditPortfolio).                 *)
THEOREM CreditsPayFirst == Spec => [][CreditsAreUsedFirst]_vars
<1>1. LedgerInvariant /\ [Next]_vars => [CreditsAreUsedFirst]_vars
  BY CreditsFirst
<1>2. QED
  BY <1>1, LedgerIsSound, PTL DEF Spec

----------------------------------------------------------------------------
(* What is settled is what the latest portfolio says.                      *)

LEMMA KnownIs ==
  ASSUME TypeOK
  PROVE  /\ known \subseteq 1 .. Len(ledger) /\ known \subseteq Int
         /\ \A s \in Service : chain[s] \subseteq known
         /\ \A i \in 1 .. Len(ledger) : Involved(i) \subseteq Service
BY UsageIs DEF TypeOK, Involved

(* What the steps other than settlements leave alone, and what a portfolio *)
(* that settles nothing names.                                             *)
LEMMA KnownChanges ==
  ASSUME LedgerInvariant, KnownIsSettled, Next
  PROVE  \/ \E r \in Replica : Settle(r)
         \/ /\ settled' = settled /\ chain' = chain
            /\ ledger' = ledger \/ (\E x : ledger' = Append(ledger, x))
            /\ \/ known' = known
               \/ \E i \in 1 .. Len(ledger) : Involved(i) = {} /\ (\A k \in known : k < i) /\ known' = known \cup {i}
<1> USE DEF LedgerInvariant, usageVars
<1>1. ASSUME NEW r \in Replica, SettleNothing(r)
      PROVE  \/ known' = known
             \/ \E i \in 1 .. Len(ledger) : Involved(i) = {} /\ (\A k \in known : k < i) /\ known' = known \cup {i}
  <2> DEFINE i == task[r].snap
  <2>1. i \in 1 .. Len(ledger)
    BY <1>1 DEF TasksFit, TaskFits, SettleNothing
  <2>2. \/ known' = known
        \/ ~Superseded(i) /\ (Replays(i) # {} \/ Involved(i) = {}) /\ known' = known \cup {i}
    BY <1>1 DEF SettleNothing
  <2> HIDE DEF i
  <2>3. CASE i \in known
    BY <2>2, <2>3
  <2>4. CASE i \notin known
    <3>1. Replays(i) = {}
      BY <2>4, KnownIs DEF Replays
    <3>2. ~Superseded(i) => \A k \in known : k < i
      BY <2>1, <2>4, KnownIs DEF Superseded
    <3>3. QED
      BY <2>1, <2>2, <3>1, <3>2
  <2>5. QED
    BY <2>3, <2>4
<1>2. ASSUME NEW r \in Replica, SettleNothing(r)
      PROVE  settled' = settled /\ chain' = chain /\ ledger' = ledger
  BY <1>2 DEF SettleNothing
<1>3. \/ \E r \in Replica : Settle(r) \/ SettleNothing(r)
      \/ /\ settled' = settled /\ chain' = chain /\ known' = known
         /\ ledger' = ledger \/ (\E x : ledger' = Append(ledger, x))
  BY DEF Next, Capture, FetchPortfolio, IgnoreEvent, PrepareAdjustment, AlreadyAdjusted,
     BeginAdjustment, LockBalance, StripeMoves, Abort, TopUp, CommitAdjustment
<1>4. QED
  BY <1>1, <1>2, <1>3

(* A portfolio that is settled is the latest known.                        *)
LEMMA SettledIsLatest ==
  ASSUME LedgerInvariant, KnownIsSettled, NEW i \in 1 .. Len(ledger),
         ~Superseded(i), Replays(i) = {}, Involved(i) # {}, SettlementAdmitted(i)
  PROVE  \A k \in known : k < i
<1> USE DEF LedgerInvariant
<1>1. CASE i \notin known
  BY <1>1, KnownIs DEF Superseded
<1>2. CASE i \in known
  <2>1. Named(i) = {}
    BY <1>2 DEF KnownIsSettled, Replays
  <2>2. PICK s \in Service : s \in Involved(i) /\ chain[s] # {}
    BY <2>1 DEF Involved
  <2>3. PICK j \in chain[s] : i <= j
    BY <1>2, <2>2 DEF KnownIsSettled
  <2>4. j < i /\ j \in Int
    BY <2>2, <2>3, KnownIs DEF SettlementAdmitted, ChainAdmits
  <2>5. QED
    BY <2>3, <2>4
<1>3. QED
  BY <1>1, <1>2

LEMMA KnownKept ==
  ASSUME LedgerInvariant, KnownIsSettled, Next
  PROVE  KnownIsSettled'
<1> USE DEF LedgerInvariant
<1>1. ASSUME NEW r \in Replica, Settle(r) PROVE KnownIsSettled'
  <2>1. PICK i \in 1 .. Len(ledger) :
           /\ ~Superseded(i) /\ Replays(i) = {} /\ Involved(i) # {} /\ SettlementAdmitted(i)
           /\ SettlePortfolio(i) /\ known' = known \cup {i} /\ ledger' = ledger
    BY <1>1, SettleIs
  <2>2. \A k \in known : k < i
    BY <2>1, SettledIsLatest
  <2>3. \A s \in Service : chain'[s] = IF s \in Involved(i) THEN chain[s] \cup {i} ELSE chain[s]
    BY <2>1, SettledIs
  <2>4. \A k \in known' : k \in 1 .. Len(ledger) /\ Named(k)' = Named(k)
    BY <2>1, KnownIs, SameRating
  <2>5. ASSUME NEW k \in known', Named(k)' # {} PROVE \E s \in Service : k \in chain'[s]
    <3>1. CASE k = i
      BY <2>1, <2>3, <3>1, KnownIs
    <3>2. CASE k \in known
      <4>1. PICK s \in Service : k \in chain[s]
        BY <2>4, <2>5, <3>2 DEF KnownIsSettled
      <4>2. QED
        BY <2>3, <4>1
    <3>3. QED
      BY <2>1, <3>1, <3>2
  <2>6. ASSUME NEW s \in Service, chain'[s] # {}, NEW k \in known' PROVE \E j \in chain'[s] : k <= j
    <3>1. s \in Involved(i)
      BY <2>3, <2>6 DEF Involved
    <3>2. i \in chain'[s]
      BY <2>3, <3>1
    <3>3. k <= i
      BY <2>1, <2>2, KnownIs
    <3>4. QED
      BY <3>2, <3>3
  <2>7. QED
    BY <2>5, <2>6 DEF KnownIsSettled
<1>2. ASSUME settled' = settled, chain' = chain, ledger' = ledger \/ (\E x : ledger' = Append(ledger, x)),
             known' = known \/ \E i \in 1 .. Len(ledger) : Involved(i) = {} /\ (\A k \in known : k < i) /\ known' = known \cup {i}
      PROVE  KnownIsSettled'
  <2>1. \A k \in 1 .. Len(ledger) : Named(k)' = Named(k)
    BY <1>2, SameRating
  <2>2. CASE known' = known
    BY <1>2, <2>1, <2>2, KnownIs DEF KnownIsSettled
  <2>3. ASSUME NEW i \in 1 .. Len(ledger), Involved(i) = {}, known' = known \cup {i} PROVE KnownIsSettled'
    <3>1. Named(i) = {} /\ \A s \in Service : chain[s] = {}
      BY <2>3 DEF Involved
    <3>2. \A k \in known' : Named(k)' = {} \/ k \in known
      BY <2>1, <2>3, <3>1
    <3>3. \A k \in known : Named(k)' = Named(k)
      BY <2>1, KnownIs
    <3>4. QED
      BY <1>2, <3>1, <3>2, <3>3 DEF KnownIsSettled
  <2>4. QED
    BY <1>2, <2>2, <2>3
<1>3. QED
  BY <1>1, <1>2, KnownChanges

LEMMA UnsettledIsZero ==
  ASSUME LedgerInvariant, NEW s \in Service, chain[s] = {}
  PROVE  settled[s].rated = 0
<1> USE DEF LedgerInvariant
<1> DEFINE f == [u \in User |-> alloc[<<s, u>>].rated]
<1>1. alloc \in [Bucket -> Amounts]
  BY DEF TypeOK, Amounts
<1>2. settled[s].rated = Total(f) /\ f \in [User -> Nat]
  BY <1>1, OfServiceIs DEF CreditsAreAttributed
<1>3. \A u \in User : f[u] = 0
  BY DEF UnsettledIsBlank
<1> HIDE DEF f
<1>4. f \in [User -> Int]
  BY <1>2
<1>5. QED
  BY <1>2, <1>3, <1>4, BucketsAreFinite, TotalOfZeros

LEMMA UnnamedIsZero ==
  ASSUME TypeOK, NEW i \in 1 .. Len(ledger), NEW s \in Service, s \notin Named(i)
  PROVE  Total([u \in User |-> RatedUsage(i, <<s, u>>)]) = 0
<1> DEFINE f == [u \in User |-> RatedUsage(i, <<s, u>>)]
<1>1. \A u \in User : <<s, u>> \in Bucket /\ <<s, u>>[1] = s
  BY DEF Bucket
<1>2. \A u \in User : f[u] = 0
  BY <1>1, UsageIs
<1>3. f \in [User -> Int]
  BY <1>2
<1> HIDE DEF f
<1>4. Total(f) = 0
  BY <1>2, <1>3, BucketsAreFinite, TotalOfZeros
<1>5. QED
  BY <1>4 DEF f

LEMMA LatestKept ==
  ASSUME LedgerInvariant, KnownIsSettled, LatestIsSettled, Next
  PROVE  LatestIsSettled'
<1> USE DEF LedgerInvariant
<1> DEFINE says(k, s) == Total([u \in User |-> RatedUsage(k, <<s, u>>)])
<1>1. ledger' = ledger \/ (\E x : ledger' = Append(ledger, x))
  <2>1. (\E r \in Replica : Settle(r)) => ledger' = ledger
    BY DEF Settle
  <2>2. QED
    BY <2>1, KnownChanges
<1>2. \A k \in 1 .. Len(ledger) : \A s \in Service : says(k, s)' = says(k, s)
  BY <1>1, SameRating
<1>3. ASSUME NEW r \in Replica, Settle(r), NEW k \in known', Latest(k)', NEW s \in Service
      PROVE  settled'[s].rated = says(k, s)'
  <2>1. PICK i \in 1 .. Len(ledger) :
           /\ ~Superseded(i) /\ Replays(i) = {} /\ Involved(i) # {} /\ SettlementAdmitted(i)
           /\ SettlePortfolio(i) /\ known' = known \cup {i}
    BY <1>3, SettleIs
  <2>2. \A j \in known : j < i /\ j \in Int
    BY <2>1, SettledIsLatest, KnownIs
  <2>3. k = i
    <3>1. i \in known' /\ (k \in known \/ k = i)
      BY <1>3, <2>1
    <3>2. i <= k
      BY <1>3, <3>1 DEF Latest
    <3>3. QED
      BY <2>2, <3>1, <3>2
  <2>4. settled'[s] = IF s \in Involved(i) THEN OfService(RateCreditPortfolio(i), s) ELSE settled[s]
    BY <2>1, SettledIs
  <2>5. CASE s \in Involved(i)
    <3>1. RateCreditPortfolio(i) \in [Bucket -> Amounts] /\ \A b \in Bucket : RateCreditPortfolio(i)[b].rated = RatedUsage(i, b)
      BY RatedIs
    <3>2. \A u \in User : <<s, u>> \in Bucket
      BY DEF Bucket
    <3>3. [u \in User |-> RateCreditPortfolio(i)[<<s, u>>].rated] = [u \in User |-> RatedUsage(i, <<s, u>>)]
      BY <3>1, <3>2
    <3>4. OfService(RateCreditPortfolio(i), s).rated = says(i, s)
      BY <3>1, <3>3, OfServiceIs
    <3> HIDE DEF says
    <3>5. QED
      BY <1>2, <2>3, <2>4, <2>5, <3>4
  <2>6. CASE s \notin Involved(i)
    <3>1. s \notin Named(i) /\ chain[s] = {}
      BY <2>6 DEF Involved
    <3>2. settled[s].rated = 0 /\ says(i, s) = 0
      BY <3>1, UnsettledIsZero, UnnamedIsZero
    <3> HIDE DEF says
    <3>3. QED
      BY <1>2, <2>3, <2>4, <2>6, <3>2
  <2>7. QED
    BY <2>5, <2>6
<1>4. ASSUME settled' = settled, chain' = chain,
             known' = known \/ \E i \in 1 .. Len(ledger) : Involved(i) = {} /\ (\A k \in known : k < i) /\ known' = known \cup {i},
             NEW k \in known', Latest(k)', NEW s \in Service
      PROVE  settled'[s].rated = says(k, s)'
  <2>1. CASE known' = known
    <3>1. k \in 1 .. Len(ledger) /\ Latest(k)
      BY <1>4, <2>1, KnownIs DEF Latest
    <3>2. settled[s].rated = says(k, s)
      BY <3>1 DEF LatestIsSettled, Latest
    <3> HIDE DEF says
    <3>3. QED
      BY <1>2, <1>4, <3>1, <3>2
  <2>2. ASSUME NEW i \in 1 .. Len(ledger), Involved(i) = {}, \A j \in known : j < i, known' = known \cup {i}
        PROVE  settled'[s].rated = says(k, s)'
    <3>1. k = i
      BY <1>4, <2>2, KnownIs DEF Latest
    <3>2. s \notin Named(i) /\ chain[s] = {}
      BY <2>2 DEF Involved
    <3>3. settled[s].rated = 0 /\ says(i, s) = 0
      BY <3>2, UnsettledIsZero, UnnamedIsZero
    <3> HIDE DEF says
    <3>4. QED
      BY <1>2, <1>4, <3>1, <3>3
  <2>3. QED
    BY <1>4, <2>1, <2>2
<1>5. ASSUME NEW k \in known', Latest(k)', NEW s \in Service
      PROVE  settled'[s].rated = says(k, s)'
  BY <1>3, <1>4, <1>5, KnownChanges
<1>6. QED
  BY <1>5 DEF LatestIsSettled, Latest

LEMMA KnownHasALatest ==
  ASSUME TypeOK, known # {}
  PROVE  \E k \in known : Latest(k)
<1> DEFINE Bounds == {n \in Nat : \A k \in known : k <= n}
<1>1. known \subseteq 1 .. Len(ledger) /\ Len(ledger) \in Nat
  BY DEF TypeOK
<1>2. Bounds \subseteq Nat /\ Len(ledger) \in Bounds
  BY <1>1
<1>3. PICK m \in Bounds : \A n \in Bounds : m <= n
  <2> HIDE DEF Bounds
  <2>1. QED
    BY <1>2, LeastNatural
<1>4. m \in known
  <2> SUFFICES ASSUME m \notin known PROVE FALSE
    OBVIOUS
  <2>1. \A k \in known : k \in Nat \ {0} /\ k <= m /\ k # m
    BY <1>1, <1>3
  <2>2. m \in Nat /\ m # 0
    <3>1. PICK k \in known : TRUE
      OBVIOUS
    <3>2. k \in Nat \ {0} /\ k <= m
      BY <2>1, <3>1
    <3>3. QED
      BY <3>2, <1>3
  <2>3. m - 1 \in Bounds
    BY <2>1, <2>2
  <2>4. QED
    BY <1>3, <2>2, <2>3
<1>5. QED
  BY <1>3, <1>4 DEF Latest

LEMMA TotalOfOne ==
  ASSUME NEW k, NEW f \in [{k} -> Int]
  PROVE  Total(f) = f[k]
<1>1. IsFiniteSet({k}) /\ k \in {k}
  BY FS_Singleton
<1> DEFINE g == [y \in {k} \ {k} |-> f[y]]
<1>2. Total(f) = f[k] + Total(g)
  BY <1>1, TotalRemove
<1>3. DOMAIN g = {}
  OBVIOUS
<1> HIDE DEF g
<1>4. Total(g) = 0
  BY <1>3, TotalEmpty
<1>5. QED
  BY <1>2, <1>4

(* With one team, what its services are settled for is its usage.          *)
LEMMA OneTeamIsCurrent ==
  ASSUME LedgerInvariant, LatestIsSettled, \A t, u \in Team : t = u
  PROVE  SettledUsageIsCurrent
<1> USE DEF LedgerInvariant
<1> SUFFICES ASSUME NEW s \in Service
             PROVE  settled[s].rated =
                      Total([i \in UNION {LatestOf(t) : t \in Team} |-> Total([u \in User |-> RatedUsage(i, <<s, u>>)])])
  BY DEF SettledUsageIsCurrent
<1> DEFINE says(i) == Total([u \in User |-> RatedUsage(i, <<s, u>>)])
           latest  == UNION {LatestOf(t) : t \in Team}
<1>1. \A i \in known : ledger[i].team \in Team
  BY KnownIs, UsageIs
<1>2. latest = {i \in known : Latest(i)}
  <2>1. \A t \in Team : LatestOf(t) = {i \in known : Latest(i)}
    BY <1>1 DEF LatestOf, Latest
  <2>2. known # {} => Team # {}
    BY <1>1
  <2>3. QED
    BY <2>1, <2>2
<1>3. CASE known = {}
  <2>1. latest = {}
    BY <1>2, <1>3
  <2>2. chain[s] = {}
    BY <1>3, KnownIs
  <2>3. settled[s].rated = 0
    BY <2>2, UnsettledIsZero
  <2> DEFINE f == [i \in latest |-> says(i)]
  <2>4. DOMAIN f = {}
    BY <2>1
  <2> HIDE DEF f
  <2>5. Total(f) = 0
    BY <2>4, TotalEmpty
  <2>6. QED
    BY <2>3, <2>5 DEF f
<1>4. CASE known # {}
  <2>1. PICK k \in known : Latest(k)
    BY <1>4, KnownHasALatest
  <2>2. \A i \in known : Latest(i) => i = k
    BY <2>1, KnownIs DEF Latest
  <2>3. latest = {k}
    BY <1>2, <2>1, <2>2
  <2>4. settled[s].rated = says(k)
    BY <2>1 DEF LatestIsSettled
  <2>5. says(k) \in Int
    BY <2>4 DEF TypeOK
  <2> DEFINE f == [i \in latest |-> says(i)]
  <2>6. f \in [{k} -> Int] /\ f[k] = says(k)
    BY <2>3, <2>5
  <2> HIDE DEF f, says, latest
  <2>7. Total(f) = f[k]
    BY <2>5, <2>6, TotalOfOne
  <2>8. QED
    BY <2>4, <2>6, <2>7 DEF f, says, latest
<1>5. QED
  BY <1>3, <1>4

UsageInvariant == LedgerInvariant /\ KnownIsSettled /\ LatestIsSettled

(* Whatever order portfolios arrive in, what is settled is what the latest *)
(* one known says of each service, of whichever team it is.                *)
THEOREM UsageIsSound == Spec => []UsageInvariant
<1>1. Init => UsageInvariant
  <2>1. Init => LedgerInvariant
    BY StartsFit
  <2>2. Init => known = {} /\ \A s \in Service : chain[s] = {}
    BY DEF Init
  <2>3. QED
    BY <2>1, <2>2 DEF UsageInvariant, KnownIsSettled, LatestIsSettled
<1>2. UsageInvariant /\ [Next]_vars => UsageInvariant'
  <2>1. CASE Next
    <3>1. UsageInvariant /\ Next => KnownIsSettled' /\ LatestIsSettled'
      BY KnownKept, LatestKept DEF UsageInvariant
    <3>2. UsageInvariant /\ Next => LedgerInvariant'
      BY InvariantKept DEF UsageInvariant
    <3>3. QED
      BY <2>1, <3>1, <3>2 DEF UsageInvariant
  <2>2. CASE UNCHANGED vars
    <3>1. UsageInvariant /\ UNCHANGED vars => LedgerInvariant'
      BY NothingChanges DEF UsageInvariant
    <3>2. UsageInvariant /\ UNCHANGED vars => KnownIsSettled' /\ LatestIsSettled'
      BY DEF UsageInvariant, KnownIsSettled, LatestIsSettled, Latest, Named, RatedUsage, vars
    <3>3. QED
      BY <2>2, <3>1, <3>2 DEF UsageInvariant
  <2>3. QED
    BY <2>1, <2>2
<1>3. QED
  BY <1>1, <1>2, PTL DEF Spec

(* An account that pays for one team, as every TEAM account does: each of  *)
(* its settlements pays all it can, and what its services are settled for  *)
(* is the usage of the team's latest portfolio.  The run OrgUsage shows    *)
(* what an account of several teams does.                                  *)
THEOREM SettlementsKeepUp ==
  ASSUME \A t, u \in Team : t = u
  PROVE  Spec => SettlementsAreCurrent
<1>1. UsageInvariant /\ UsageInvariant' /\ [Next]_vars => [CreditsAreUsedFirst /\ SettledUsageIsCurrent']_vars
  <2>1. UsageInvariant => SettledUsageIsCurrent
    BY OneTeamIsCurrent DEF UsageInvariant
  <2>2. UsageInvariant' => SettledUsageIsCurrent'
    BY <2>1, PTL
  <2>3. UsageInvariant /\ Next => CreditsAreUsedFirst
    BY CreditsFirst DEF UsageInvariant
  <2>4. QED
    BY <2>2, <2>3
<1>2. QED
  BY <1>1, UsageIsSound, PTL DEF Spec, SettlementsAreCurrent

=============================================================================
