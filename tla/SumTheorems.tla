----------------------------- MODULE SumTheorems -----------------------------
(***************************************************************************)
(* What the sums of the models (SumFunctionOnSet) are: how they change     *)
(* with one summand.  The library's induction theorems take a predicate as *)
(* a parameter, which the provers cannot instantiate; here induction is    *)
(* over a set of good cases instead.                                       *)
(***************************************************************************)
EXTENDS Integers, FiniteSetsExt, FiniteSetTheorems, WellFoundedInduction, TLAPS

-----------------------------------------------------------------------------
(* Induction over finite sets and natural numbers *)

LEMMA SetsAreGood ==
  ASSUME NEW S, IsFiniteSet(S), NEW G,
         \A T \in SUBSET S : (\A U \in SUBSET T : U # T => U \in G) => T \in G
  PROVE  \A T \in SUBSET S : T \in G
<1> DEFINE R == StrictSubsetOrdering(S)
           B == {T \in SUBSET S : T \notin G}
<1>1. IsWellFoundedOn(R, SUBSET S)
  BY FS_StrictSubsetOrderingWellFounded, FS_FiniteSubsetsOfFinite
<1>2. ASSUME B # {} PROVE FALSE
  <2>1. PICK T \in B : \A U \in B : <<U, T>> \notin R
    <3> HIDE DEF B, R
    <3>1. B \subseteq SUBSET S
      BY DEF B
    <3> QED
      BY <1>1, <1>2, <3>1, WFMin
  <2>2. \A U \in SUBSET T : U # T => U \in G
    BY <2>1 DEF StrictSubsetOrdering
  <2> QED
    BY <2>2
<1> QED
  BY <1>2

LEMMA NumbersAreGood ==
  ASSUME NEW G, 0 \in G, \A n \in Nat : n \in G => n + 1 \in G
  PROVE  \A n \in Nat : n \in G
<1> DEFINE R == OpToRel(<, Nat)
           B == {n \in Nat : n \notin G}
<1>1. IsWellFoundedOn(R, Nat)
  BY NatLessThanWellFounded
<1>2. ASSUME B # {} PROVE FALSE
  <2>1. PICK n \in B : \A m \in B : <<m, n>> \notin R
    <3> HIDE DEF B, R
    <3>1. B \subseteq Nat
      BY DEF B
    <3> QED
      BY <1>1, <1>2, <3>1, WFMin
  <2>2. \A m \in Nat : m < n => m \in G
    BY <2>1 DEF OpToRel
  <2>3. n \in Nat /\ n \notin G
    OBVIOUS
  <2>4. n - 1 \in Nat /\ n - 1 < n /\ (n - 1) + 1 = n
    BY <2>3
  <2> QED
    BY <2>2, <2>3, <2>4
<1> QED
  BY <1>2

-----------------------------------------------------------------------------
(* The recursive function behind a sum *)

Pick(s) == CHOOSE x \in s : TRUE

(* g sums v over every subset of S. *)
Sums(g, v, S) ==
  g = [s \in SUBSET S |-> IF s = {} THEN 0 ELSE v[Pick(s)] + g[s \ {Pick(s)}]]

LEMMA PickedIsMember == ASSUME NEW s, s # {} PROVE Pick(s) \in s
BY DEF Pick

(* There is such a function: layer by layer, by the size of the subsets.   *)
LEMMA SumsExist ==
  ASSUME NEW v, NEW S, IsFiniteSet(S)
  PROVE  \E g : Sums(g, v, S)
<1> DEFINE L(n) == {s \in SUBSET S : Cardinality(s) <= n}
           Partial(g, n) ==
             g = [s \in L(n) |-> IF s = {} THEN 0 ELSE v[Pick(s)] + g[s \ {Pick(s)}]]
           G == {n \in Nat : \E g : Partial(g, n)}
<1>1. \A s \in SUBSET S : IsFiniteSet(s) /\ Cardinality(s) \in Nat
                          /\ Cardinality(s) <= Cardinality(S)
  BY FS_Subset, FS_CardinalityType
<1>2. \A s \in SUBSET S : s # {} =>
        /\ s \ {Pick(s)} \in SUBSET S
        /\ Cardinality(s \ {Pick(s)}) = Cardinality(s) - 1
  BY <1>1, PickedIsMember, FS_RemoveElement
<1>3. 0 \in G
  <2>1. L(0) = {{}}
    BY <1>1, FS_EmptySet
  <2>2. Partial([s \in {{}} |-> 0], 0)
    BY <2>1
  <2> QED
    BY <2>2
<1>4. ASSUME NEW n \in Nat, n \in G PROVE n + 1 \in G
  <2>1. PICK g : Partial(g, n)
    BY <1>4
  <2> DEFINE h == [s \in L(n + 1) |-> IF s = {} THEN 0
                     ELSE v[Pick(s)] + g[s \ {Pick(s)}]]
  <2>2. \A s \in L(n) : h[s] = g[s]
    <3>1. \A s \in L(n) : s \in L(n + 1)
      BY <1>1
    <3>2. \A s \in L(n) : g[s] = IF s = {} THEN 0 ELSE v[Pick(s)] + g[s \ {Pick(s)}]
      BY <2>1
    <3> QED
      BY <3>1, <3>2
  <2>3. \A s \in L(n + 1) : s # {} => s \ {Pick(s)} \in L(n)
    BY <1>1, <1>2
  <2>4. \A s \in L(n + 1) : h[s] = IF s = {} THEN 0 ELSE v[Pick(s)] + h[s \ {Pick(s)}]
    BY <2>2, <2>3
  <2>5. Partial(h, n + 1)
    <3> DEFINE k == [s \in L(n + 1) |-> IF s = {} THEN 0 ELSE v[Pick(s)] + h[s \ {Pick(s)}]]
    <3>1. DOMAIN h = L(n + 1) /\ DOMAIN k = L(n + 1) /\ \A s \in L(n + 1) : h[s] = k[s]
      BY <2>4
    <3>2. h = [s \in L(n + 1) |-> h[s]] /\ k = [s \in L(n + 1) |-> k[s]]
      OBVIOUS
    <3>3. h = k
      <4> HIDE DEF h, k, L
      <4> QED
        BY <3>1, <3>2
    <3> QED
      BY <3>3
  <2> HIDE DEF Partial, h
  <2> QED
    BY <2>5
<1>5. Cardinality(S) \in G
  <2>1. \A n \in Nat : n \in G
    <3> HIDE DEF G
    <3> QED
      BY <1>3, <1>4, NumbersAreGood
  <2> HIDE DEF G
  <2> QED
    BY <2>1, FS_CardinalityType
<1>6. L(Cardinality(S)) = SUBSET S
  BY <1>1
<1>7. PICK g : Partial(g, Cardinality(S))
  BY <1>5
<1> QED
  BY <1>6, <1>7 DEF Sums

(* Only one: two of them agree on the subsets they share. *)
LEMMA SumsAgree ==
  ASSUME NEW v, NEW S, IsFiniteSet(S), NEW T \in SUBSET S, NEW g, NEW h,
         Sums(g, v, S), Sums(h, v, T)
  PROVE  g[T] = h[T]
<1> DEFINE G == {U \in SUBSET T : g[U] = h[U]}
<1>1. ASSUME NEW U \in SUBSET T, \A V \in SUBSET U : V # U => V \in G
      PROVE  U \in G
  <2>1. /\ g[U] = IF U = {} THEN 0 ELSE v[Pick(U)] + g[U \ {Pick(U)}]
        /\ h[U] = IF U = {} THEN 0 ELSE v[Pick(U)] + h[U \ {Pick(U)}]
    BY DEF Sums
  <2>2. CASE U = {}
    BY <2>1, <2>2
  <2>3. CASE U # {}
    <3>1. U \ {Pick(U)} \in SUBSET U /\ U \ {Pick(U)} # U
      BY <2>3, PickedIsMember
    <3>2. g[U \ {Pick(U)}] = h[U \ {Pick(U)}]
      BY <1>1, <3>1
    <3> QED
      BY <2>1, <3>2
  <2> QED
    BY <2>2, <2>3
<1>2. IsFiniteSet(T)
  BY FS_Subset
<1>3. T \in G
  <2> HIDE DEF G
  <2> QED
    BY <1>1, <1>2, SetsAreGood
<1> QED
  BY <1>3

-----------------------------------------------------------------------------
(* Sums of functions *)

LEMMA SumOfParts ==
  ASSUME NEW v, NEW S, IsFiniteSet(S), NEW g, Sums(g, v, S), NEW T \in SUBSET S
  PROVE  g[T] = SumFunctionOnSet(v, T)
<1> DEFINE pick(s) == CHOOSE x \in s : TRUE
           is(h) == h = [s \in SUBSET T |-> IF s = {} THEN 0
                                            ELSE v[pick(s)] + h[s \ {pick(s)}]]
           iter == CHOOSE h : is(h)
<1>1. SumFunctionOnSet(v, T) = iter[T]
  BY DEF SumFunctionOnSet, FoldFunctionOnSet, MapThenFoldSet
<1>2. \A h : is(h) <=> Sums(h, v, T)
  BY DEF Sums, Pick
<1>3. IsFiniteSet(T)
  BY FS_Subset
<1>4. \E h : is(h)
  <2> HIDE DEF is
  <2> QED
    BY <1>2, <1>3, SumsExist
<1>5. is(iter)
  <2> HIDE DEF is
  <2> QED
    BY <1>4
<1>6. Sums(iter, v, T)
  <2> HIDE DEF is, iter
  <2> QED
    BY <1>2, <1>5
<1> HIDE DEF iter
<1> QED
  BY <1>1, <1>6, SumsAgree

LEMMA SumEmpty == ASSUME NEW v PROVE SumFunctionOnSet(v, {}) = 0
<1>1. PICK g : Sums(g, v, {})
  BY SumsExist, FS_EmptySet
<1>2. g[{}] = 0
  BY <1>1 DEF Sums
<1> QED
  BY <1>1, <1>2, SumOfParts, FS_EmptySet

LEMMA SumPicks ==
  ASSUME NEW v, NEW S, IsFiniteSet(S), S # {}
  PROVE  SumFunctionOnSet(v, S) = v[Pick(S)] + SumFunctionOnSet(v, S \ {Pick(S)})
<1>1. PICK g : Sums(g, v, S)
  BY SumsExist
<1>2. g[S] = v[Pick(S)] + g[S \ {Pick(S)}]
  BY <1>1 DEF Sums
<1>3. g[S] = SumFunctionOnSet(v, S)
  BY <1>1, SumOfParts
<1>4. g[S \ {Pick(S)}] = SumFunctionOnSet(v, S \ {Pick(S)})
  <2> S \ {Pick(S)} \in SUBSET S
    OBVIOUS
  <2> HIDE DEF Pick
  <2> QED
    BY <1>1, SumOfParts
<1> QED
  BY <1>2, <1>3, <1>4

LEMMA SumsAreIntegers ==
  ASSUME NEW v, NEW S, IsFiniteSet(S), \A x \in S : v[x] \in Int
  PROVE  SumFunctionOnSet(v, S) \in Int
<1> DEFINE G == {T \in SUBSET S : SumFunctionOnSet(v, T) \in Int}
<1>1. ASSUME NEW T \in SUBSET S, \A U \in SUBSET T : U # T => U \in G
      PROVE  T \in G
  <2>1. CASE T = {}
    BY <2>1, SumEmpty
  <2>2. CASE T # {}
    <3>1. Pick(T) \in T /\ T \ {Pick(T)} \in SUBSET T /\ T \ {Pick(T)} # T
      BY <2>2, PickedIsMember
    <3>2. SumFunctionOnSet(v, T \ {Pick(T)}) \in Int /\ v[Pick(T)] \in Int
      BY <1>1, <3>1
    <3>3. SumFunctionOnSet(v, T) = v[Pick(T)] + SumFunctionOnSet(v, T \ {Pick(T)})
      BY <2>2, FS_Subset, SumPicks
    <3> QED
      BY <3>2, <3>3
  <2> QED
    BY <2>1, <2>2
<1>2. S \in G
  <2> HIDE DEF G
  <2> QED
    BY <1>1, SetsAreGood
<1> QED
  BY <1>2

(* One summand more or less, whichever it is. *)
LEMMA SumWithout ==
  ASSUME NEW v, NEW S, IsFiniteSet(S), \A x \in S : v[x] \in Int, NEW e \in S
  PROVE  SumFunctionOnSet(v, S) = v[e] + SumFunctionOnSet(v, S \ {e})
<1> DEFINE P(T) == \A x \in T : SumFunctionOnSet(v, T) = v[x] + SumFunctionOnSet(v, T \ {x})
           G == {T \in SUBSET S : P(T)}
<1>0. \A T \in SUBSET S : IsFiniteSet(T) /\ SumFunctionOnSet(v, T) \in Int
  BY FS_Subset, SumsAreIntegers
<1>1. ASSUME NEW T \in SUBSET S, \A U \in SUBSET T : U # T => U \in G
      PROVE  T \in G
  <2> SUFFICES ASSUME NEW x \in T PROVE SumFunctionOnSet(v, T) = v[x] + SumFunctionOnSet(v, T \ {x})
    OBVIOUS
  <2> DEFINE p == Pick(T)
  <2>1. p \in T /\ SumFunctionOnSet(v, T) = v[p] + SumFunctionOnSet(v, T \ {p})
    BY <1>0, PickedIsMember, SumPicks
  <2>2. CASE x = p
    BY <2>1, <2>2
  <2>3. CASE x # p
    <3>1. T \ {p} \in G /\ T \ {x} \in G /\ x \in T \ {p} /\ p \in T \ {x}
      <4> HIDE DEF G, p
      <4>1. T \ {p} # T /\ T \ {x} # T
        BY <2>1
      <4> QED
        BY <1>1, <2>1, <2>3, <4>1
    <3>2. /\ SumFunctionOnSet(v, T \ {p}) = v[x] + SumFunctionOnSet(v, (T \ {p}) \ {x})
          /\ SumFunctionOnSet(v, T \ {x}) = v[p] + SumFunctionOnSet(v, (T \ {x}) \ {p})
      BY <3>1
    <3>3. (T \ {p}) \ {x} = (T \ {x}) \ {p} /\ (T \ {p}) \ {x} \in SUBSET S
      OBVIOUS
    <3>4. v[x] \in Int /\ v[p] \in Int /\ SumFunctionOnSet(v, (T \ {p}) \ {x}) \in Int
      BY <1>0, <2>1, <3>3
    <3>5. SumFunctionOnSet(v, T \ {x}) = v[p] + SumFunctionOnSet(v, (T \ {p}) \ {x})
      BY <3>2, <3>3
    <3>6. \A a, b, c, k, l, m \in Int :
            k = a + l /\ l = b + c /\ m = a + c => k = b + m
      OBVIOUS
    <3>7. /\ SumFunctionOnSet(v, T) \in Int /\ SumFunctionOnSet(v, T \ {p}) \in Int /\ SumFunctionOnSet(v, T \ {x}) \in Int
      <4> T \ {p} \in SUBSET S /\ T \ {x} \in SUBSET S
        OBVIOUS
      <4> QED
        BY <1>0
    <3>8. SumFunctionOnSet(v, T) = v[p] + SumFunctionOnSet(v, T \ {p})
      BY <2>1
    <3>9. SumFunctionOnSet(v, T \ {p}) = v[x] + SumFunctionOnSet(v, (T \ {p}) \ {x})
      BY <3>2
    <3> HIDE DEF p
    <3> QED
      BY <3>4, <3>5, <3>6, <3>7, <3>8, <3>9
  <2> QED
    BY <2>2, <2>3
<1>2. S \in G
  <2> HIDE DEF G
  <2> QED
    BY <1>1, SetsAreGood
<1> QED
  BY <1>2

LEMMA SumWith ==
  ASSUME NEW v, NEW S, IsFiniteSet(S), NEW e, e \notin S, \A x \in S \cup {e} : v[x] \in Int
  PROVE  SumFunctionOnSet(v, S \cup {e}) = SumFunctionOnSet(v, S) + v[e]
<1>1. IsFiniteSet(S \cup {e}) /\ (S \cup {e}) \ {e} = S
  BY FS_AddElement
<1>2. SumFunctionOnSet(v, S \cup {e}) = v[e] + SumFunctionOnSet(v, S)
  BY <1>1, SumWithout
<1> QED
  BY <1>2, SumsAreIntegers

(* Only the summands matter. *)
LEMMA SumsOfTheSame ==
  ASSUME NEW v, NEW w, NEW S, IsFiniteSet(S), \A x \in S : v[x] = w[x]
  PROVE  SumFunctionOnSet(v, S) = SumFunctionOnSet(w, S)
<1>1. ASSUME NEW g PROVE Sums(g, v, S) <=> Sums(g, w, S)
  <2>1. \A s \in SUBSET S : s # {} => v[Pick(s)] = w[Pick(s)]
    BY PickedIsMember
  <2>2. [s \in SUBSET S |-> IF s = {} THEN 0 ELSE v[Pick(s)] + g[s \ {Pick(s)}]]
        = [s \in SUBSET S |-> IF s = {} THEN 0 ELSE w[Pick(s)] + g[s \ {Pick(s)}]]
    BY <2>1
  <2> QED
    BY <2>2 DEF Sums
<1>2. PICK g : Sums(g, v, S)
  BY SumsExist
<1> QED
  BY <1>1, <1>2, SumOfParts

LEMMA SumsAreNatural ==
  ASSUME NEW v, NEW S, IsFiniteSet(S), \A x \in S : v[x] \in Nat
  PROVE  SumFunctionOnSet(v, S) \in Nat
<1> DEFINE G == {T \in SUBSET S : SumFunctionOnSet(v, T) \in Nat}
<1>1. ASSUME NEW T \in SUBSET S, \A U \in SUBSET T : U # T => U \in G
      PROVE  T \in G
  <2>1. CASE T = {}
    BY <2>1, SumEmpty
  <2>2. CASE T # {}
    <3>1. Pick(T) \in T /\ T \ {Pick(T)} \in SUBSET T /\ T \ {Pick(T)} # T
      BY <2>2, PickedIsMember
    <3>2. SumFunctionOnSet(v, T \ {Pick(T)}) \in Nat /\ v[Pick(T)] \in Nat
      BY <1>1, <3>1
    <3>3. SumFunctionOnSet(v, T) = v[Pick(T)] + SumFunctionOnSet(v, T \ {Pick(T)})
      BY <2>2, FS_Subset, SumPicks
    <3> QED
      BY <3>2, <3>3
  <2> QED
    BY <2>1, <2>2
<1>2. S \in G
  <2> HIDE DEF G
  <2> QED
    BY <1>1, SetsAreGood
<1> QED
  BY <1>2

=============================================================================
