----------------------------- MODULE SumLemmas -----------------------------
(***************************************************************************)
(* What MapThenSumSet computes on a finite set: the properties of a sum    *)
(* that payments and quantities are added up with.  It is a recursive      *)
(* function, chosen to satisfy its equation; the lemmas say that there is  *)
(* one, that its values are determined, that the order of adding up does   *)
(* not matter, and that the sum grows with what is added up.  Where a      *)
(* proof is by induction, it takes a smallest set that the fact fails for. *)
(***************************************************************************)
EXTENDS Naturals, FiniteSets, FiniteSetsExt, FiniteSetTheorems, WellFoundedInduction, TLAPS

SumOver(v, S) == MapThenSumSet(LAMBDA x : v[x], S)

Chosen(S) == CHOOSE x \in S : TRUE

\* What a table of sums has for the set s.
Entry(v, g, s) == IF s = {} THEN 0 ELSE v[Chosen(s)] + g[s \ {Chosen(s)}]

Adds(v, U, g) == g = [s \in SUBSET U |-> Entry(v, g, s)]

LEMMA Smallest ==
  ASSUME NEW T, T \subseteq Nat, T # {} PROVE \E n \in T : \A k \in T : n <= k
<1>1. PICK n \in T : \A k \in T : ~(<<k, n>> \in OpToRel(<, Nat))
  BY NatLessThanWellFounded, WFMin
<1>2. ASSUME NEW k \in T PROVE n <= k
  <2>1. k \in Nat /\ n \in Nat
    OBVIOUS
  <2>2. k < n => <<k, n>> \in OpToRel(<, Nat)
    BY <2>1 DEF OpToRel
  <2>3. ~(k < n)
    BY <1>1, <2>2, Zenon
  <2> QED
    BY <2>1, <2>3
<1> QED
  BY <1>2

\* A set of finite sets that is not empty has a smallest one.
LEMMA SmallestSet ==
  ASSUME NEW F, F # {}, \A s \in F : IsFiniteSet(s)
  PROVE  \E s \in F : \A r \in F : r \subseteq s => r = s
<1> DEFINE T == {Cardinality(s) : s \in F}
<1>1. T \subseteq Nat /\ T # {}
  BY FS_CardinalityType
<1>2. PICK n \in T : \A k \in T : n <= k
  BY <1>1, Smallest
<1>3. PICK s \in F : n = Cardinality(s)
  BY <1>2
<1>4. ASSUME NEW r \in F, r \subseteq s, r # s PROVE FALSE
  <2>0. IsFiniteSet(s) /\ r \in SUBSET s
    BY <1>4
  <2>1. Cardinality(r) <= Cardinality(s) /\ Cardinality(r) # Cardinality(s)
    BY <1>4, <2>0, FS_Subset
  <2>2. Cardinality(s) <= Cardinality(r)
    BY <1>2, <1>3
  <2> QED
    BY <2>1, <2>2, FS_CardinalityType
<1> QED
  BY <1>4

LEMMA ChosenIn == ASSUME NEW S, S # {} PROVE Chosen(S) \in S
BY DEF Chosen

LEMMA SumIsChosen == ASSUME NEW v, NEW S PROVE SumOver(v, S) = (CHOOSE g : Adds(v, S, g))[S]
BY DEF SumOver, MapThenSumSet, MapThenFoldSet, Adds, Entry, Chosen

\* Two tables agree on a set that both have, where what they add up agrees.
LEMMA TablesAgree ==
  ASSUME NEW U, NEW V, NEW v, NEW w, NEW g, NEW h, Adds(v, U, g), Adds(w, V, h),
         NEW S, IsFiniteSet(S), S \subseteq U, S \subseteq V, \A x \in S : v[x] = w[x]
  PROVE  g[S] = h[S]
<1> DEFINE F == {s \in SUBSET S : g[s] # h[s]}
<1>1. SUFFICES ASSUME F # {} PROVE FALSE
  OBVIOUS
<1>2. \A s \in F : IsFiniteSet(s)
  BY FS_Subset
<1>3. PICK s \in F : \A r \in F : r \subseteq s => r = s
  <2> HIDE DEF F
  <2> QED
    BY <1>1, <1>2, SmallestSet
<1>4. g[s] = Entry(v, g, s) /\ h[s] = Entry(w, h, s)
  BY DEF Adds
<1>5. s # {}
  BY <1>4 DEF Entry
<1>6. Chosen(s) \in s
  BY <1>5, ChosenIn
<1>7. g[s \ {Chosen(s)}] = h[s \ {Chosen(s)}]
  BY <1>3, <1>6
<1> QED
  BY <1>4, <1>5, <1>6, <1>7 DEF Entry

Upto(v, U, n, g) ==
  /\ g \in [SUBSET U -> Nat]
  /\ \A s \in SUBSET U : Cardinality(s) <= n => g[s] = Entry(v, g, s)

\* Up to n elements, a table can be made.
LEMMA TableUpto ==
  ASSUME NEW U, IsFiniteSet(U), NEW v \in [U -> Nat], NEW n \in Nat PROVE \E g : Upto(v, U, n, g)
<1> DEFINE T == {k \in Nat : \A g : ~Upto(v, U, k, g)}
<1>0. \A s \in SUBSET U : IsFiniteSet(s) /\ Cardinality(s) \in Nat
  BY FS_Subset, FS_CardinalityType
<1>1. SUFFICES ASSUME T # {} PROVE FALSE
  OBVIOUS
<1>2. PICK k \in T : \A i \in T : k <= i
  <2>1. T \subseteq Nat
    OBVIOUS
  <2> HIDE DEF T
  <2> QED
    BY <1>1, <2>1, Smallest
<1>3. CASE k = 0
  <2> DEFINE g == [s \in SUBSET U |-> 0]
  <2>1. ASSUME NEW s \in SUBSET U, Cardinality(s) <= 0 PROVE g[s] = Entry(v, g, s)
    <3>1. s = {}
      BY <1>0, <2>1, FS_EmptySet
    <3> QED
      BY <3>1 DEF Entry
  <2>2. Upto(v, U, k, g)
    BY <1>3, <2>1 DEF Upto
  <2> QED
    BY <2>2
<1>4. CASE k # 0
  <2>1. k - 1 \in Nat /\ ~(k <= k - 1)
    BY <1>4
  <2>2. PICK g : Upto(v, U, k - 1, g)
    BY <1>2, <2>1
  <2> DEFINE h == [s \in SUBSET U |-> Entry(v, g, s)]
  <2>3. h \in [SUBSET U -> Nat]
    <3>1. ASSUME NEW s \in SUBSET U PROVE Entry(v, g, s) \in Nat
      <4>1. s # {} => Chosen(s) \in s
        BY ChosenIn
      <4> QED
        BY <2>2, <4>1 DEF Entry, Upto
    <3> QED
      BY <3>1
  <2>4. ASSUME NEW s \in SUBSET U, Cardinality(s) <= k PROVE h[s] = Entry(v, h, s)
    <3>1. CASE s = {}
      BY <3>1 DEF Entry
    <3>2. CASE s # {}
      <4>1. Chosen(s) \in s
        BY <3>2, ChosenIn
      <4> DEFINE r == s \ {Chosen(s)}
      <4>2. r \in SUBSET U /\ Cardinality(r) = Cardinality(s) - 1
        BY <1>0, <4>1, FS_RemoveElement
      <4>3. Cardinality(r) <= k - 1
        BY <1>0, <2>4, <4>2
      <4>4. g[r] = Entry(v, g, r)
        BY <2>2, <4>2, <4>3 DEF Upto
      <4>5. h[r] = g[r]
        BY <4>2, <4>4
      <4> QED
        BY <3>2, <4>5 DEF Entry
    <3> QED
      BY <3>1, <3>2
  <2>5. Upto(v, U, k, h)
    BY <2>3, <2>4 DEF Upto
  <2> QED
    BY <2>5
<1> QED
  BY <1>3, <1>4

\* The sum of a part of U is what any table of U has for it.
IsTable(v, U, g) ==
  /\ g \in [SUBSET U -> Nat]
  /\ Adds(v, U, g)
  /\ \A s \in SUBSET U : SumOver(v, s) = g[s]

LEMMA SumsTable == ASSUME NEW U, IsFiniteSet(U), NEW v \in [U -> Nat] PROVE \E g : IsTable(v, U, g)
<1>0. \A s \in SUBSET U : IsFiniteSet(s) /\ Cardinality(s) \in Nat /\ Cardinality(s) <= Cardinality(U)
  BY FS_Subset, FS_CardinalityType
<1>n. PICK n \in Nat : n = Cardinality(U)
  BY FS_CardinalityType
<1>1. PICK g : Upto(v, U, n, g)
  BY TableUpto
<1>2. Adds(v, U, g)
  BY <1>0, <1>1, <1>n DEF Adds, Upto
<1>3. ASSUME NEW s \in SUBSET U PROVE SumOver(v, s) = g[s]
  <2>1. \E h : Adds(v, s, h)
    <3> DEFINE h == [r \in SUBSET s |-> g[r]]
    <3>1. ASSUME NEW r \in SUBSET s PROVE h[r] = Entry(v, h, r)
      <4>1. g[r] = Entry(v, g, r) /\ (r # {} => r \ {Chosen(r)} \in SUBSET s)
        BY <1>0, <1>1, <1>n DEF Upto
      <4> QED
        BY <4>1 DEF Entry
    <3>2. Adds(v, s, h)
      BY <3>1 DEF Adds
    <3> QED
      BY <3>2
  <2>2. PICK h : h = (CHOOSE f : Adds(v, s, f))
    OBVIOUS
  <2>3. Adds(v, s, h)
    BY <2>1, <2>2, Zenon
  <2>4. SumOver(v, s) = h[s]
    BY <2>2, SumIsChosen
  <2> QED
    BY <1>0, <1>2, <2>3, <2>4, TablesAgree
<1> QED
  BY <1>1, <1>2, <1>3 DEF IsTable, Upto

LEMMA SumEmpty == ASSUME NEW v PROVE SumOver(v, {}) = 0
<1> DEFINE g == [s \in SUBSET {} |-> 0]
<1>1. Adds(v, {}, g)
  BY DEF Adds, Entry
<1>2. Adds(v, {}, CHOOSE h : Adds(v, {}, h))
  BY <1>1, Zenon
<1>3. PICK h : h = (CHOOSE f : Adds(v, {}, f))
  OBVIOUS
<1>4. h[{}] = 0
  BY <1>2, <1>3 DEF Adds, Entry
<1> QED
  BY <1>3, <1>4, SumIsChosen

LEMMA SumType ==
  ASSUME NEW U, IsFiniteSet(U), NEW v \in [U -> Nat], NEW S \in SUBSET U PROVE SumOver(v, S) \in Nat
<1>1. PICK g : IsTable(v, U, g)
  BY SumsTable
<1> QED
  BY <1>1 DEF IsTable

LEMMA SumSame ==
  ASSUME NEW U, IsFiniteSet(U), NEW v \in [U -> Nat], NEW V, IsFiniteSet(V), NEW w \in [V -> Nat],
         NEW S, S \subseteq U, S \subseteq V, \A x \in S : v[x] = w[x]
  PROVE  SumOver(v, S) = SumOver(w, S)
<1>1. PICK g : IsTable(v, U, g)
  BY SumsTable
<1>2. PICK h : IsTable(w, V, h)
  BY SumsTable
<1>3. IsFiniteSet(S)
  BY FS_Subset
<1> QED
  BY <1>1, <1>2, <1>3, TablesAgree DEF IsTable

\* Whichever element is taken first.
LEMMA SumTakes ==
  ASSUME NEW U, IsFiniteSet(U), NEW v \in [U -> Nat], NEW S \in SUBSET U, NEW x \in S
  PROVE  SumOver(v, S) = v[x] + SumOver(v, S \ {x})
<1>0. PICK g : IsTable(v, U, g)
  BY SumsTable
<1>1. g \in [SUBSET U -> Nat] /\ Adds(v, U, g) /\ \A s \in SUBSET U : SumOver(v, s) = g[s]
  BY <1>0 DEF IsTable
<1> DEFINE F == {s \in SUBSET U : \E y \in s : g[s] # v[y] + g[s \ {y}]}
<1>2. CASE F = {}
  <2>1. g[S] = v[x] + g[S \ {x}]
    BY <1>2
  <2> QED
    BY <1>1, <2>1
<1>3. ASSUME F # {} PROVE FALSE
  <2>1. \A s \in F : IsFiniteSet(s)
    BY FS_Subset
  <2>2. PICK s \in F : \A r \in F : r \subseteq s => r = s
    <3> HIDE DEF F
    <3> QED
      BY <1>3, <2>1, SmallestSet
  <2>3. PICK y \in s : g[s] # v[y] + g[s \ {y}]
    OBVIOUS
  <2>4. PICK c \in s : c = Chosen(s)
    BY ChosenIn
  <2>5. g[s] = v[c] + g[s \ {c}]
    BY <1>1, <2>3, <2>4 DEF Adds, Entry
  <2>6. c # y
    BY <2>3, <2>5
  <2>7. s \ {c} \in SUBSET U /\ s \ {c} \notin F /\ y \in s \ {c}
    BY <2>2, <2>6
  <2>8. g[s \ {c}] = v[y] + g[(s \ {c}) \ {y}]
    BY <2>7
  <2>9. s \ {y} \in SUBSET U /\ s \ {y} \notin F /\ c \in s \ {y}
    BY <2>2, <2>6
  <2>10. g[s \ {y}] = v[c] + g[(s \ {y}) \ {c}]
    BY <2>9
  <2>11. (s \ {c}) \ {y} \in SUBSET U /\ (s \ {c}) \ {y} = (s \ {y}) \ {c}
    OBVIOUS
  <2>n. v[c] \in Nat /\ v[y] \in Nat /\ g[(s \ {c}) \ {y}] \in Nat
    BY <1>1, <2>4, <2>11
  <2>12. PICK a \in Nat, b \in Nat, n \in Nat : a = v[c] /\ b = v[y] /\ n = g[(s \ {c}) \ {y}]
    BY <2>n
  <2>13. g[s] = a + (b + n) /\ g[s \ {y}] = a + n
    BY <2>5, <2>8, <2>10, <2>11, <2>12
  <2> QED
    BY <2>3, <2>12, <2>13
<1> QED
  BY <1>2, <1>3

LEMMA SumAdds ==
  ASSUME NEW U, IsFiniteSet(U), NEW v \in [U -> Nat], NEW S \in SUBSET U, NEW x \in U \ S
  PROVE  SumOver(v, S \cup {x}) = v[x] + SumOver(v, S)
<1>1. (S \cup {x}) \ {x} = S
  OBVIOUS
<1> QED
  BY <1>1, SumTakes

\* More of more is more.
LEMMA SumGrows ==
  ASSUME NEW U, IsFiniteSet(U), NEW v \in [U -> Nat], NEW V, IsFiniteSet(V), NEW w \in [V -> Nat],
         NEW S, S \subseteq U, NEW T, T \subseteq V, S \subseteq T, \A x \in S : v[x] <= w[x]
  PROVE  SumOver(v, S) <= SumOver(w, T)
<1> DEFINE F == {t \in SUBSET T : ~(SumOver(v, S \cap t) <= SumOver(w, t))}
<1>1. SUFFICES ASSUME F # {} PROVE FALSE
  <2>1. T \notin F /\ S \cap T = S
    BY <1>1
  <2> QED
    BY <2>1
<1>2. \A t \in F : IsFiniteSet(t)
  BY FS_Subset
<1>3. PICK t \in F : \A r \in F : r \subseteq t => r = t
  <2> HIDE DEF F
  <2> QED
    BY <1>1, <1>2, SmallestSet
<1>4. CASE t = {}
  <2>1. S \cap t = {}
    BY <1>4
  <2>2. SumOver(v, S \cap t) = 0 /\ SumOver(w, t) = 0
    BY <1>4, <2>1, SumEmpty
  <2> QED
    BY <1>3, <2>2
<1>5. ASSUME NEW x \in t PROVE FALSE
  <2>1. t \ {x} \notin F /\ t \ {x} \subseteq T
    BY <1>3, <1>5
  <2>2. PICK a \in Nat, b \in Nat : a = SumOver(v, S \cap (t \ {x})) /\ b = SumOver(w, t \ {x}) /\ a <= b
    <3>1. SumOver(v, S \cap (t \ {x})) \in Nat /\ SumOver(w, t \ {x}) \in Nat
      BY SumType
    <3> QED
      BY <2>1, <3>1
  <2>3. SumOver(w, t) = w[x] + b /\ w[x] \in Nat
    BY <1>5, <2>2, SumTakes
  <2>4. CASE x \in S
    <3>1. (S \cap t) \ {x} = S \cap (t \ {x}) /\ S \cap t \in SUBSET U /\ x \in S \cap t
      BY <2>4
    <3>2. SumOver(v, S \cap t) = v[x] + a
      BY <2>2, <3>1, SumTakes
    <3>3. v[x] \in Nat /\ v[x] <= w[x]
      BY <2>4
    <3> QED
      BY <1>3, <2>2, <2>3, <3>2, <3>3
  <2>5. CASE x \notin S
    <3>1. S \cap (t \ {x}) = S \cap t
      BY <2>5
    <3>2. SumOver(v, S \cap t) = a
      BY <2>2, <3>1
    <3> QED
      BY <1>3, <2>2, <2>3, <3>2
  <2> QED
    BY <2>4, <2>5
<1> QED
  BY <1>4, <1>5


\* One entry changes.
LEMMA SumChanges ==
  ASSUME NEW U, IsFiniteSet(U), NEW v \in [U -> Nat], NEW w \in [U -> Nat], NEW S \in SUBSET U, NEW x \in S,
         \A y \in S \ {x} : v[y] = w[y]
  PROVE  SumOver(v, S) + w[x] = SumOver(w, S) + v[x]
<1>1. SumOver(v, S) = v[x] + SumOver(v, S \ {x}) /\ SumOver(w, S) = w[x] + SumOver(w, S \ {x})
  BY SumTakes
<1>2. SumOver(v, S \ {x}) = SumOver(w, S \ {x})
  BY SumSame
<1>3. v[x] \in Nat /\ w[x] \in Nat /\ SumOver(v, S \ {x}) \in Nat /\ SumOver(w, S \ {x}) \in Nat
  BY SumType
<1> QED
  BY <1>1, <1>2, <1>3

LEMMA SumCovers ==
  ASSUME NEW U, IsFiniteSet(U), NEW v \in [U -> Nat], NEW x \in U PROVE v[x] <= SumOver(v, U)
<1>1. SumOver(v, U) = v[x] + SumOver(v, U \ {x}) /\ SumOver(v, U \ {x}) \in Nat
  BY SumTakes, SumType
<1> QED
  BY <1>1

LEMMA OneMoreTimes == \A n, k \in Nat : (n + 1) * k = n * k + k
OBVIOUS

\* As many times the most that there is.
LEMMA SumWithin ==
  ASSUME NEW U, IsFiniteSet(U), NEW v \in [U -> Nat], NEW S \in SUBSET U, NEW k \in Nat, \A x \in S : v[x] <= k
  PROVE  SumOver(v, S) <= Cardinality(S) * k
<1> DEFINE F == {t \in SUBSET S : ~(SumOver(v, t) <= Cardinality(t) * k)}
<1>0. \A t \in SUBSET S : IsFiniteSet(t) /\ Cardinality(t) \in Nat /\ SumOver(v, t) \in Nat
  BY FS_Subset, FS_CardinalityType, SumType
<1>1. SUFFICES ASSUME F # {} PROVE FALSE
  <2>1. S \notin F
    BY <1>1
  <2> QED
    BY <2>1
<1>2. PICK t \in F : \A r \in F : r \subseteq t => r = t
  <2>1. \A t \in F : IsFiniteSet(t)
    BY <1>0
  <2> HIDE DEF F
  <2> QED
    BY <1>1, <2>1, SmallestSet
<1>3. t # {}
  <2>1. SumOver(v, {}) = 0 /\ Cardinality({}) = 0
    BY SumEmpty, FS_EmptySet
  <2>2. 0 <= 0 * k
    OBVIOUS
  <2> QED
    BY <2>1, <2>2
<1>4. PICK x \in t : TRUE
  BY <1>3
<1>5. SumOver(v, t \ {x}) <= Cardinality(t \ {x}) * k
  BY <1>2, <1>4
<1>6. SumOver(v, t) = v[x] + SumOver(v, t \ {x})
  BY <1>4, SumTakes
<1>7. Cardinality(t) = Cardinality(t \ {x}) + 1
  BY <1>0, <1>4, FS_RemoveElement
<1>8. PICK n \in Nat : n = Cardinality(t \ {x})
  BY <1>0
<1>9. (n + 1) * k = n * k + k /\ n * k \in Nat
  BY <1>8, OneMoreTimes
<1>10. v[x] <= k /\ v[x] \in Nat /\ SumOver(v, t \ {x}) \in Nat
  BY <1>0, <1>4
<1>11. SumOver(v, t) <= n * k + k
  BY <1>5, <1>6, <1>8, <1>9, <1>10
<1> QED
  BY <1>2, <1>7, <1>8, <1>9, <1>11
=============================================================================
