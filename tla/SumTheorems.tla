--------------------------- MODULE SumTheorems ---------------------------
(***************************************************************************)
(* Facts of mathematics that the proofs of several components rest on:     *)
(* smallest and greatest elements, which stand in for induction, and sums  *)
(* over finite sets.                                                       *)
(***************************************************************************)
EXTENDS Integers, FiniteSetsExt, FiniteSetTheorems, NaturalsInduction,
        WellFoundedInduction, TLAPS

(* Induction over finite sets, by a smallest counterexample: a nonempty    *)
(* family of subsets of a finite set has a member with no smaller one.     *)
LEMMA FinMin ==
  ASSUME NEW S, NEW T, T \subseteq SUBSET S, T # {}, IsFiniteSet(S)
  PROVE \E x \in T : \A y \in T : y \subseteq x => y = x
<1>1. T \subseteq FiniteSubsetsOf(S)
  BY FS_Subset DEF FiniteSubsetsOf
<1>2. \E x \in T : \A y \in T : ~(<<y, x>> \in StrictSubsetOrdering(S))
  BY <1>1, FS_StrictSubsetOrderingWellFounded, WFMin, Zenon
<1>3. QED
  BY <1>2 DEF StrictSubsetOrdering

(* The order of the naturals as a set of pairs *)
Less == {ss \in Nat \X Nat : ss[1] < ss[2]}

(* A set of naturals has a least element. *)
LEMMA LeastNatural ==
  ASSUME NEW T, T \subseteq Nat, T # {}
  PROVE  \E x \in T : \A y \in T : x <= y
<1>1. IsWellFoundedOn(Less, Nat)
  BY NatLessThanWellFounded, Zenon DEF OpToRel, Less
<1>2. PICK x \in T : \A y \in T : ~(<<y, x>> \in Less)
  BY <1>1, WFMin
<1>3. ASSUME NEW y \in T PROVE x <= y
  <2>1. <<y, x>> \notin Less /\ x \in Nat /\ y \in Nat
    BY <1>2, <1>3
  <2>2. QED
    BY <2>1 DEF Less
<1>4. QED
  BY <1>3

(* A finite set of naturals has a greatest element: the smallest nonempty  *)
(* final segment of the set is that element alone.                         *)
LEMMA GreatestNatural ==
  ASSUME NEW T, T \subseteq Nat, T # {}, IsFiniteSet(T)
  PROVE  \E x \in T : \A y \in T : y <= x
<1> DEFINE ends == {U \in SUBSET T :
                      U # {} /\ \A x \in T \ U, y \in U : x < y}
<1>1. T \in ends
  OBVIOUS
<1>2. PICK U \in ends : \A V \in ends : V \subseteq U => V = U
  <2>1. ends \subseteq SUBSET T
    OBVIOUS
  <2>2. ends # {}
    BY <1>1
  <2> HIDE DEF ends
  <2>3. QED
    BY ONLY <2>1, <2>2, IsFiniteSet(T), FinMin
<1>3. PICK x \in U : \A y \in U : x <= y
  BY LeastNatural
<1>4. ASSUME U \ {x} # {} PROVE FALSE
  <2>1. U \ {x} \in ends
    <3>1. ASSUME NEW a \in T \ (U \ {x}), NEW b \in U \ {x} PROVE a < b
      <4>1. CASE a = x
        BY <1>3, <4>1
      <4>2. CASE a # x
        BY <4>2
      <4>3. QED  BY <4>1, <4>2
    <3>2. QED  BY <1>4, <3>1
  <2>2. QED  BY <1>2, <2>1
<1>5. U = {x}
  BY <1>4
<1>6. ASSUME NEW y \in T PROVE y <= x
  BY <1>5, <1>6
<1>7. QED  BY <1>6

(* The element a sum over s takes first *)
Pick(s) == CHOOSE x \in s : TRUE

(* g is the table of the sums of f over the subsets of S. *)
Sums(f, g, S) ==
  g = [s \in SUBSET S |-> IF s = {} THEN 0 ELSE f[Pick(s)] + g[s \ {Pick(s)}]]

Iter(f, S) == CHOOSE g : Sums(f, g, S)

(* SumFunctionOnSet is the value of that table at S. *)
LEMMA SumIsIter ==
  ASSUME NEW f, NEW S PROVE SumFunctionOnSet(f, S) = Iter(f, S)[S]
BY DEF SumFunctionOnSet, FoldFunctionOnSet, MapThenFoldSet, Iter, Sums, Pick

(* The element taken first is an element. *)
LEMMA Picked == ASSUME NEW s, s # {} PROVE Pick(s) \in s
BY DEF Pick

(* Tables of sums agree where both are defined. *)
LEMMA SumsAgree ==
  ASSUME NEW f, NEW S, IsFiniteSet(S), NEW U \in SUBSET S,
         NEW g, Sums(f, g, S), NEW h, Sums(f, h, U)
  PROVE  \A s \in SUBSET U : g[s] = h[s]
<1> DEFINE bad == {s \in SUBSET U : g[s] # h[s]}
<1>1. SUFFICES ASSUME bad # {} PROVE FALSE
  OBVIOUS
<1>2. IsFiniteSet(U)
  BY FS_Subset
<1>3. PICK s \in bad : \A t \in bad : t \subseteq s => t = s
  <2>1. bad \subseteq SUBSET U
    OBVIOUS
  <2> HIDE DEF bad
  <2>2. QED
    BY <1>1, <1>2, <2>1, FinMin
<1>4. /\ g[s] = IF s = {} THEN 0 ELSE f[Pick(s)] + g[s \ {Pick(s)}]
      /\ h[s] = IF s = {} THEN 0 ELSE f[Pick(s)] + h[s \ {Pick(s)}]
  <2>1. s \in SUBSET S /\ s \in SUBSET U
    OBVIOUS
  <2>2. QED
    BY <2>1 DEF Sums
<1>5. CASE s = {}
  BY <1>4, <1>5
<1>6. CASE s # {}
  <2>1. Pick(s) \in s
    BY <1>6, Picked
  <2>2. s \ {Pick(s)} \in SUBSET U /\ s \ {Pick(s)} \notin bad
    BY <1>3, <2>1
  <2>3. g[s \ {Pick(s)}] = h[s \ {Pick(s)}]
    BY <2>2
  <2>4. QED
    BY <1>4, <1>6, <2>3
<1>7. QED
  BY <1>5, <1>6

(* A finite set has a table of sums. *)
LEMMA SumsExist ==
  ASSUME NEW f, NEW S, IsFiniteSet(S)
  PROVE  Sums(f, Iter(f, S), S)
<1> DEFINE bad == {U \in SUBSET S : ~ Sums(f, Iter(f, U), U)}
<1>1. SUFFICES ASSUME bad # {} PROVE FALSE
  OBVIOUS
<1>2. PICK U \in bad : \A t \in bad : t \subseteq U => t = U
  <2>1. bad \subseteq SUBSET S
    OBVIOUS
  <2> HIDE DEF bad
  <2>2. QED
    BY <1>1, <2>1, FinMin
<1>3. ASSUME NEW V \in SUBSET U, V # U
      PROVE  Sums(f, Iter(f, V), V) /\ IsFiniteSet(V)
  BY <1>2, <1>3, FS_Subset
<1> DEFINE g == [s \in SUBSET U |->
     IF s = {} THEN 0 ELSE f[Pick(s)] + Iter(f, s \ {Pick(s)})[s \ {Pick(s)}]]
<1>4. ASSUME NEW s \in SUBSET U, s # {}
      PROVE  g[s \ {Pick(s)}] = Iter(f, s \ {Pick(s)})[s \ {Pick(s)}]
  <2> DEFINE u == s \ {Pick(s)}
             v == u \ {Pick(u)}
  <2>1. u \in SUBSET U /\ u # U
    BY <1>4, Picked
  <2>2. Sums(f, Iter(f, u), u) /\ IsFiniteSet(u)
    BY <1>3, <2>1
  <2>3. Iter(f, u)[u] = IF u = {} THEN 0 ELSE f[Pick(u)] + Iter(f, u)[v]
    <3>1. u \in SUBSET u
      OBVIOUS
    <3> HIDE DEF u
    <3>2. QED
      BY <2>2, <3>1 DEF Sums
  <2>4. g[u] = IF u = {} THEN 0 ELSE f[Pick(u)] + Iter(f, v)[v]
    BY <2>1
  <2>5. CASE u = {}
    BY <2>3, <2>4, <2>5
  <2>6. CASE u # {}
    <3>1. v \in SUBSET U /\ v # U /\ v \in SUBSET u
      BY <2>1, <2>6, Picked
    <3>2. Sums(f, Iter(f, v), v)
      BY <1>3, <3>1
    <3>3. v \in SUBSET v
      OBVIOUS
    <3> HIDE DEF u, v
    <3>4. Iter(f, u)[v] = Iter(f, v)[v]
      BY <2>2, <3>1, <3>2, <3>3, SumsAgree
    <3>5. g[u] = Iter(f, u)[u]
      BY <2>3, <2>4, <3>4, <2>6
    <3>6. QED
      BY <3>5 DEF u
  <2>7. QED
    BY <2>5, <2>6
<1>5. Sums(f, g, U)
  BY <1>4 DEF Sums
<1>6. Sums(f, Iter(f, U), U)
  <2> HIDE DEF g
  <2>1. \E y : Sums(f, y, U)
    BY <1>5
  <2>2. QED
    BY <2>1 DEF Iter
<1>7. QED
  BY <1>2, <1>6

(* A sum is the element taken first and the sum of the rest. *)
LEMMA SumStep ==
  ASSUME NEW f, NEW S, IsFiniteSet(S)
  PROVE  SumFunctionOnSet(f, S) =
           IF S = {} THEN 0
           ELSE f[Pick(S)] + SumFunctionOnSet(f, S \ {Pick(S)})
<1> DEFINE U == S \ {Pick(S)}
<1>1. IsFiniteSet(U) /\ U \in SUBSET S /\ S \in SUBSET S /\ U \in SUBSET U
  BY FS_Subset
<1>2. Sums(f, Iter(f, S), S) /\ Sums(f, Iter(f, U), U)
  BY <1>1, SumsExist
<1>3. Iter(f, S)[U] = Iter(f, U)[U]
  <2> HIDE DEF U
  <2>1. QED BY <1>1, <1>2, SumsAgree
<1>4. Iter(f, S)[S] = IF S = {} THEN 0 ELSE f[Pick(S)] + Iter(f, S)[U]
  BY <1>1, <1>2 DEF Sums
<1>5. QED
  BY <1>3, <1>4, SumIsIter

(* The empty sum *)
LEMMA SumEmpty == \A f : SumFunctionOnSet(f, {}) = 0
BY SumStep, FS_EmptySet

(* Sums of naturals and of integers *)
LEMMA SumType ==
  ASSUME NEW f, NEW S, IsFiniteSet(S), NEW N, N \in {Nat, Int},
         \A x \in S : f[x] \in N
  PROVE  SumFunctionOnSet(f, S) \in N
<1> DEFINE bad == {U \in SUBSET S : SumFunctionOnSet(f, U) \notin N}
<1>1. SUFFICES ASSUME bad # {} PROVE FALSE
  OBVIOUS
<1>2. PICK U \in bad : \A t \in bad : t \subseteq U => t = U
  <2>1. bad \subseteq SUBSET S
    OBVIOUS
  <2> HIDE DEF bad
  <2>2. QED
    BY <1>1, <2>1, FinMin
<1>3. IsFiniteSet(U) /\ U \subseteq S
  BY FS_Subset
<1>4. CASE U = {}
  BY <1>4, SumEmpty
<1>5. CASE U # {}
  <2>1. Pick(U) \in U
    BY <1>5, Picked
  <2>2. SumFunctionOnSet(f, U \ {Pick(U)}) \in N
    BY <1>2, <2>1
  <2>3. SumFunctionOnSet(f, U)
          = f[Pick(U)] + SumFunctionOnSet(f, U \ {Pick(U)})
    BY <1>3, <1>5, SumStep
  <2>4. f[Pick(U)] \in N
    BY <1>3, <2>1
  <2>5. SumFunctionOnSet(f, U) \in N
    BY <2>2, <2>3, <2>4
  <2>6. QED BY <2>5
<1>6. QED
  BY <1>4, <1>5

(* A sum depends on the values at its indices only. *)
LEMMA SumSame ==
  ASSUME NEW f, NEW g, NEW S, IsFiniteSet(S), \A x \in S : f[x] = g[x]
  PROVE  SumFunctionOnSet(f, S) = SumFunctionOnSet(g, S)
<1> DEFINE bad == {U \in SUBSET S :
                     SumFunctionOnSet(f, U) # SumFunctionOnSet(g, U)}
<1>1. SUFFICES ASSUME bad # {} PROVE FALSE
  OBVIOUS
<1>2. PICK U \in bad : \A t \in bad : t \subseteq U => t = U
  <2>1. bad \subseteq SUBSET S
    OBVIOUS
  <2> HIDE DEF bad
  <2>2. QED
    BY <1>1, <2>1, FinMin
<1>3. IsFiniteSet(U) /\ U \subseteq S
  BY FS_Subset
<1>4. CASE U = {}
  BY <1>4, SumEmpty
<1>5. CASE U # {}
  <2>1. Pick(U) \in U
    BY <1>5, Picked
  <2>2. SumFunctionOnSet(f, U \ {Pick(U)}) = SumFunctionOnSet(g, U \ {Pick(U)})
    BY <1>2, <2>1
  <2>3. /\ SumFunctionOnSet(f, U)
             = f[Pick(U)] + SumFunctionOnSet(f, U \ {Pick(U)})
        /\ SumFunctionOnSet(g, U)
             = g[Pick(U)] + SumFunctionOnSet(g, U \ {Pick(U)})
    BY <1>3, <1>5, SumStep
  <2>4. f[Pick(U)] = g[Pick(U)]
    BY <1>3, <2>1
  <2>5. SumFunctionOnSet(f, U) = SumFunctionOnSet(g, U)
    BY <2>2, <2>3, <2>4
  <2>6. QED BY <2>5
<1>6. QED
  BY <1>4, <1>5

(* Any element may be taken first. *)
LEMMA SumTake ==
  ASSUME NEW f, NEW S, IsFiniteSet(S), \A x \in S : f[x] \in Int, NEW e \in S
  PROVE  SumFunctionOnSet(f, S) = f[e] + SumFunctionOnSet(f, S \ {e})
<1> DEFINE Takes(U, a) ==
             SumFunctionOnSet(f, U) = f[a] + SumFunctionOnSet(f, U \ {a})
           bad == {U \in SUBSET S : \E a \in U : ~Takes(U, a)}
<1>1. SUFFICES ASSUME bad # {} PROVE FALSE
  OBVIOUS
<1>2. PICK U \in bad : \A t \in bad : t \subseteq U => t = U
  <2>1. bad \subseteq SUBSET S
    OBVIOUS
  <2> HIDE DEF bad
  <2>2. QED
    BY <1>1, <2>1, FinMin
<1>3. PICK a \in U : ~Takes(U, a)
  OBVIOUS
<1>4. IsFiniteSet(U) /\ U \subseteq S
  BY FS_Subset
<1> DEFINE c == Pick(U)
           W == U \ {c}
           V == U \ {a}
           X == W \ {a}
<1>5. c \in U
  BY Picked
<1>6. Takes(U, c)
  BY <1>4, SumStep
<1>7. c # a
  BY <1>3, <1>6
<1>8. Takes(W, a) /\ Takes(V, c)
  <2>1. W \in SUBSET S /\ W # U /\ W \subseteq U /\ a \in W
    BY <1>4, <1>5, <1>7
  <2>2. V \in SUBSET S /\ V # U /\ V \subseteq U /\ c \in V
    BY <1>4, <1>5, <1>7
  <2>3. QED
    BY <1>2, <2>1, <2>2
<1>9. V \ {c} = X
  OBVIOUS
<1>10. f[a] \in Int /\ f[c] \in Int /\ SumFunctionOnSet(f, X) \in Int
  BY <1>4, <1>5, FS_Subset, SumType
<1>11. /\ SumFunctionOnSet(f, U) = f[c] + SumFunctionOnSet(f, W)
       /\ SumFunctionOnSet(f, W) = f[a] + SumFunctionOnSet(f, X)
       /\ SumFunctionOnSet(f, V) = f[c] + SumFunctionOnSet(f, X)
  BY <1>6, <1>8, <1>9
<1>12. SumFunctionOnSet(f, U) = f[a] + SumFunctionOnSet(f, V)
  BY <1>10, <1>11
<1>13. QED
  BY <1>3, <1>12

(* A new index adds its value. *)
LEMMA SumAdd ==
  ASSUME NEW f, NEW S, IsFiniteSet(S), \A x \in S : f[x] \in Int,
         NEW g, NEW a, a \notin S, g[a] \in Int, \A x \in S : g[x] = f[x]
  PROVE  SumFunctionOnSet(g, S \cup {a}) = SumFunctionOnSet(f, S) + g[a]
<1>1. IsFiniteSet(S \cup {a}) /\ (S \cup {a}) \ {a} = S
  BY FS_AddElement
<1>2. SumFunctionOnSet(g, S \cup {a}) = g[a] + SumFunctionOnSet(g, S)
  BY <1>1, SumTake
<1>3. SumFunctionOnSet(g, S) = SumFunctionOnSet(f, S)
  BY SumSame
<1>4. SumFunctionOnSet(f, S) \in Int
  BY SumType
<1>5. QED
  BY <1>2, <1>3, <1>4

(* A sum of naturals over fewer indices is not greater. *)
LEMMA SumMonotone ==
  ASSUME NEW f, NEW S, IsFiniteSet(S), \A x \in S : f[x] \in Nat,
         NEW T, T \subseteq S
  PROVE  SumFunctionOnSet(f, T) <= SumFunctionOnSet(f, S)
<1> DEFINE bad == {U \in SUBSET S :
             T \subseteq U
             /\ ~(SumFunctionOnSet(f, T) <= SumFunctionOnSet(f, U))}
<1>1. SUFFICES ASSUME bad # {} PROVE FALSE
  OBVIOUS
<1>2. PICK U \in bad : \A t \in bad : t \subseteq U => t = U
  <2>1. bad \subseteq SUBSET S
    OBVIOUS
  <2> HIDE DEF bad
  <2>2. QED
    BY <1>1, <2>1, FinMin
<1>3. /\ IsFiniteSet(U) /\ U \subseteq S /\ T \subseteq U
      /\ IsFiniteSet(T)
  BY FS_Subset
<1>4. /\ SumFunctionOnSet(f, U) \in Nat /\ SumFunctionOnSet(f, T) \in Nat
  BY <1>3, SumType
<1>5. U # T
  BY <1>4
<1>6. PICK e \in U : e \notin T
  BY <1>3, <1>5
<1> DEFINE V == U \ {e}
<1>7. V \in SUBSET S /\ T \subseteq V /\ V # U /\ IsFiniteSet(V)
  BY <1>3, <1>6, FS_Subset
<1>8. SumFunctionOnSet(f, T) <= SumFunctionOnSet(f, V)
  BY <1>2, <1>7
<1>9. SumFunctionOnSet(f, U) = f[e] + SumFunctionOnSet(f, V)
  BY <1>3, SumTake
<1>10. SumFunctionOnSet(f, V) \in Nat /\ f[e] \in Nat
  BY <1>3, <1>7, SumType
<1>11. SumFunctionOnSet(f, T) <= SumFunctionOnSet(f, U)
  <2> HIDE DEF V
  <2>1. QED  BY <1>4, <1>8, <1>9, <1>10
<1>12. QED  BY <1>11

(* The same for one function defined at the new index too *)
LEMMA SumOneMore ==
  ASSUME NEW f, NEW S, IsFiniteSet(S), NEW a, a \notin S,
         \A x \in S \cup {a} : f[x] \in Int
  PROVE  SumFunctionOnSet(f, S \cup {a}) = SumFunctionOnSet(f, S) + f[a]
<1>1. /\ f[a] \in Int
      /\ \A x \in S : f[x] \in Int
      /\ \A x \in S : f[x] = f[x]
  OBVIOUS
<1>2. QED  BY <1>1, SumAdd
=============================================================================
