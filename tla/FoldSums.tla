------------------------------- MODULE FoldSums -------------------------------
(***************************************************************************)
(* Sums of a function over a finite set, as the community modules define   *)
(* them (SumFunctionOnSet): the order in which the fold takes the elements *)
(* does not matter, and an update of one element changes the sum by the    *)
(* difference.  Then the same for the elements of a sequence (Range), the  *)
(* other collection of the models that grows and shrinks by one.           *)
(***************************************************************************)
EXTENDS Integers, Sequences, FiniteSets, Functions, FiniteSetTheorems, TLAPS

(* Induction on finite sets by way of a smallest counterexample. *)
LEMMA SmallestSet ==
  ASSUME NEW S, IsFiniteSet(S), NEW F, F \subseteq SUBSET S, F # {}
  PROVE  \E T \in F : \A U \in F : U \subseteq T => U = T
<1>1. F \subseteq FiniteSubsetsOf(S)
  BY FS_FiniteSubsetsOfFinite
<1>2. \E T \in F : \A U \in F : ~ (<<U, T>> \in StrictSubsetOrdering(S))
  BY <1>1, FS_StrictSubsetOrderingWellFounded, WFMin
<1> QED
  BY <1>2 DEF StrictSubsetOrdering

(* The element that the fold takes first, and the equation that it solves. *)
First(s) == CHOOSE x \in s : TRUE
Solves(h, g, S) == h = [s \in SUBSET S |-> IF s = {} THEN 0
                                           ELSE g[First(s)] + h[s \ {First(s)}]]

LEMMA FirstIsIn == ASSUME NEW s, s # {} PROVE First(s) \in s
BY DEF First

LEMMA SumIsSolution ==
  ASSUME NEW g, NEW S
  PROVE  SumFunctionOnSet(g, S) = (CHOOSE h : Solves(h, g, S))[S]
BY DEF SumFunctionOnSet, FoldFunctionOnSet, MapThenFoldSet, Solves, First

LEMMA SolutionAt ==
  ASSUME NEW g, NEW S, NEW h, Solves(h, g, S), NEW s \in SUBSET S
  PROVE  h[s] = IF s = {} THEN 0 ELSE g[First(s)] + h[s \ {First(s)}]
BY DEF Solves

(* Two solutions agree where both are defined. *)
LEMMA SolutionsAgree ==
  ASSUME NEW g, NEW S, NEW T, IsFiniteSet(S), NEW h, NEW k,
         Solves(h, g, S), Solves(k, g, T), NEW s \in SUBSET S, s \in SUBSET T
  PROVE  h[s] = k[s]
<1> DEFINE Differ == {u \in SUBSET S : u \in SUBSET T /\ h[u] # k[u]}
<1> SUFFICES ASSUME Differ # {} PROVE FALSE
  OBVIOUS
<1> Differ \subseteq SUBSET S
  OBVIOUS
<1> HIDE DEF Differ
<1>1. PICK u \in Differ : \A v \in Differ : v \subseteq u => v = u
  BY SmallestSet
<1> USE DEF Differ
<1>2. u \in SUBSET S /\ u \in SUBSET T /\ h[u] # k[u]
  BY <1>1
<1>3. h[u] = IF u = {} THEN 0 ELSE g[First(u)] + h[u \ {First(u)}]
  BY <1>2, SolutionAt
<1>4. k[u] = IF u = {} THEN 0 ELSE g[First(u)] + k[u \ {First(u)}]
  BY <1>2 DEF Solves
<1>5. u # {}
  BY <1>2, <1>3, <1>4
<1>6. u \ {First(u)} # u
  BY <1>5, FirstIsIn
<1>7. u \ {First(u)} \notin Differ
  BY <1>1, <1>6
<1>8. h[u \ {First(u)}] = k[u \ {First(u)}]
  BY <1>2, <1>7
<1> QED
  BY <1>2, <1>3, <1>4, <1>5, <1>8

(* A set all of whose smaller subsets have a solution has one. *)
LEMMA SolutionExtends ==
  ASSUME NEW g, NEW S, IsFiniteSet(S),
         \A T \in SUBSET S : T # S => \E h : Solves(h, g, T)
  PROVE  \E h : Solves(h, g, S)
<1> DEFINE sol(T) == CHOOSE h : Solves(h, g, T)
           first(s) == IF s = {} THEN 0
                       ELSE g[First(s)] + sol(s \ {First(s)})[s \ {First(s)}]
           h == [s \in SUBSET S |-> first(s)]
<1>1. \A T \in SUBSET S : T # S => Solves(sol(T), g, T)
  OBVIOUS
<1> HIDE DEF sol
<1>2. ASSUME NEW u \in SUBSET S, u # S PROVE h[u] = sol(u)[u]
  <2>1. Solves(sol(u), g, u) /\ IsFiniteSet(u)
    BY <1>1, <1>2, FS_Subset
  <2>2. sol(u)[u] = IF u = {} THEN 0 ELSE g[First(u)] + sol(u)[u \ {First(u)}]
    BY <2>1, SolutionAt
  <2>3. CASE u = {}
    BY <2>2, <2>3
  <2>4. CASE u # {}
    <3> DEFINE v == u \ {First(u)}
    <3>1. v \in SUBSET S /\ v # S /\ v \in SUBSET u
      BY <1>2, <2>4, FirstIsIn
    <3>2. Solves(sol(v), g, v)
      BY <1>1, <3>1
    <3> HIDE DEF v
    <3>3. sol(u)[v] = sol(v)[v]
      BY <2>1, <3>1, <3>2, SolutionsAgree
    <3> QED
      BY <2>2, <2>4, <3>3 DEF v
  <2> QED
    BY <2>3, <2>4
<1>3. \A s \in SUBSET S : s # {} => s \ {First(s)} \in SUBSET S /\ s \ {First(s)} # S
  BY FirstIsIn
<1>4. \A s \in SUBSET S : h[s] = IF s = {} THEN 0 ELSE g[First(s)] + h[s \ {First(s)}]
  <2> SUFFICES ASSUME NEW s \in SUBSET S
               PROVE  first(s) = IF s = {} THEN 0 ELSE g[First(s)] + h[s \ {First(s)}]
    OBVIOUS
  <2>1. s # {} => h[s \ {First(s)}] = sol(s \ {First(s)})[s \ {First(s)}]
    BY <1>2, <1>3
  <2> HIDE DEF h
  <2> QED
    BY <2>1
<1>5. Solves(h, g, S)
  <2> DEFINE k == [s \in SUBSET S |-> IF s = {} THEN 0 ELSE g[First(s)] + h[s \ {First(s)}]]
  <2> HIDE DEF first
  <2>1. h = k
    BY <1>4
  <2> QED
    BY <2>1 DEF Solves
<1> QED
  BY <1>5

LEMMA SolutionExists ==
  ASSUME NEW g, NEW S, IsFiniteSet(S)
  PROVE  \E h : Solves(h, g, S)
<1> DEFINE Unsolved == {T \in SUBSET S : ~ \E h : Solves(h, g, T)}
<1> SUFFICES ASSUME Unsolved # {} PROVE FALSE
  OBVIOUS
<1>1. PICK T \in Unsolved : \A U \in Unsolved : U \subseteq T => U = T
  <2>1. Unsolved \subseteq SUBSET S
    OBVIOUS
  <2> HIDE DEF Unsolved
  <2> QED
    BY <2>1, SmallestSet
<1>2. IsFiniteSet(T) /\ T \in SUBSET S
  BY <1>1, FS_Subset
<1>3. \A U \in SUBSET T : U # T => \E h : Solves(h, g, U)
  BY <1>1, <1>2
<1> QED
  BY <1>1, <1>2, <1>3, SolutionExtends

LEMMA SumSolves ==
  ASSUME NEW g, NEW S, IsFiniteSet(S), NEW T \in SUBSET S, NEW h, Solves(h, g, S)
  PROVE  SumFunctionOnSet(g, T) = h[T]
<1> DEFINE k == CHOOSE k : Solves(k, g, T)
<1>1. IsFiniteSet(T)
  BY FS_Subset
<1>2. Solves(k, g, T)
  BY <1>1, SolutionExists
<1>3. SumFunctionOnSet(g, T) = k[T]
  BY SumIsSolution
<1> HIDE DEF k
<1>4. k[T] = h[T]
  BY <1>1, <1>2, SolutionsAgree
<1> QED
  BY <1>3, <1>4
-----------------------------------------------------------------------------
LEMMA SumEmpty == ASSUME NEW g PROVE SumFunctionOnSet(g, {}) = 0
<1>1. IsFiniteSet({})
  BY FS_EmptySet
<1>2. PICK h : Solves(h, g, {})
  BY <1>1, SolutionExists
<1>3. SumFunctionOnSet(g, {}) = h[{}]
  BY <1>1, <1>2, SumSolves
<1> QED
  BY <1>2, <1>3, SolutionAt

LEMMA SumFirst ==
  ASSUME NEW g, NEW S, IsFiniteSet(S), S # {}
  PROVE  SumFunctionOnSet(g, S) = g[First(S)] + SumFunctionOnSet(g, S \ {First(S)})
<1>1. PICK h : Solves(h, g, S)
  BY SolutionExists
<1>2. SumFunctionOnSet(g, S) = h[S] /\ SumFunctionOnSet(g, S \ {First(S)}) = h[S \ {First(S)}]
  BY <1>1, SumSolves
<1> QED
  BY <1>1, <1>2, SolutionAt

LEMMA SumInt ==
  ASSUME NEW S, IsFiniteSet(S), NEW g, \A x \in S : g[x] \in Int
  PROVE  SumFunctionOnSet(g, S) \in Int
<1> DEFINE Untyped == {T \in SUBSET S : SumFunctionOnSet(g, T) \notin Int}
<1> SUFFICES ASSUME Untyped # {} PROVE FALSE
  OBVIOUS
<1>1. PICK T \in Untyped : \A U \in Untyped : U \subseteq T => U = T
  <2>1. Untyped \subseteq SUBSET S
    OBVIOUS
  <2> HIDE DEF Untyped
  <2> QED
    BY <2>1, SmallestSet
<1>2. IsFiniteSet(T) /\ T \in SUBSET S /\ T # {}
  <2>1. SumFunctionOnSet(g, {}) \in Int
    BY SumEmpty
  <2> QED
    BY <1>1, <2>1, FS_Subset
<1>3. First(T) \in T /\ T \ {First(T)} \notin Untyped
  BY <1>1, <1>2, FirstIsIn
<1>4. SumFunctionOnSet(g, T) = g[First(T)] + SumFunctionOnSet(g, T \ {First(T)})
  BY <1>2, SumFirst
<1> QED
  BY <1>1, <1>2, <1>3, <1>4

(* Any element can be taken out first. *)
LEMMA SumTakes ==
  ASSUME NEW S, IsFiniteSet(S), NEW g, \A x \in S : g[x] \in Int, NEW x \in S
  PROVE  SumFunctionOnSet(g, S) = g[x] + SumFunctionOnSet(g, S \ {x})
<1> DEFINE Sum(T) == SumFunctionOnSet(g, T)
           Wrong == {T \in SUBSET S : \E y \in T : Sum(T) # g[y] + Sum(T \ {y})}
<1> SUFFICES ASSUME Wrong # {} PROVE FALSE
  OBVIOUS
<1>0. \A T \in SUBSET S : Sum(T) \in Int
  BY SumInt, FS_Subset
<1>1. PICK T \in Wrong : \A U \in Wrong : U \subseteq T => U = T
  <2>1. Wrong \subseteq SUBSET S
    OBVIOUS
  <2> HIDE DEF Wrong
  <2> QED
    BY <2>1, SmallestSet
<1>2. PICK y \in T : Sum(T) # g[y] + Sum(T \ {y})
  BY <1>1
<1>3. IsFiniteSet(T) /\ T \in SUBSET S /\ First(T) \in T
  BY <1>1, <1>2, FS_Subset, FirstIsIn
<1> DEFINE c == First(T)
<1>4. Sum(T) = g[c] + Sum(T \ {c})
  BY <1>3, SumFirst
<1> HIDE DEF Sum, c
<1>5. y # c
  BY <1>2, <1>4
<1>6. T \ {c} \notin Wrong /\ T \ {y} \notin Wrong
  BY <1>1, <1>2, <1>3 DEF c
<1>7. Sum(T \ {c}) = g[y] + Sum((T \ {c}) \ {y})
  BY <1>3, <1>5, <1>6
<1>8. Sum(T \ {y}) = g[c] + Sum((T \ {y}) \ {c})
  BY <1>3, <1>5, <1>6 DEF c
<1>9. PICK r : r = Sum((T \ {c}) \ {y})
  OBVIOUS
<1>10. Sum((T \ {y}) \ {c}) = r
  <2>1. (T \ {y}) \ {c} = (T \ {c}) \ {y}
    OBVIOUS
  <2> QED
    BY <1>9, <2>1
<1>11. r \in Int /\ g[c] \in Int /\ g[y] \in Int
  BY <1>0, <1>3, <1>9 DEF c
<1>12. Sum(T) = g[c] + (g[y] + r)
  BY <1>4, <1>7, <1>9
<1>13. g[y] + Sum(T \ {y}) = g[y] + (g[c] + r)
  BY <1>8, <1>10
<1> QED
  BY <1>2, <1>11, <1>12, <1>13

LEMMA SumAdds ==
  ASSUME NEW S, IsFiniteSet(S), NEW x, x \notin S, NEW g, \A y \in S \cup {x} : g[y] \in Int
  PROVE  SumFunctionOnSet(g, S \cup {x}) = SumFunctionOnSet(g, S) + g[x]
<1> DEFINE T == S \cup {x}
<1>1. IsFiniteSet(T) /\ T \ {x} = S /\ x \in T /\ \A y \in T : g[y] \in Int
  BY FS_AddElement
<1> HIDE DEF T
<1>2. SumFunctionOnSet(g, T) = g[x] + SumFunctionOnSet(g, T \ {x})
  BY <1>1, SumTakes
<1>3. SumFunctionOnSet(g, S) \in Int /\ g[x] \in Int
  BY <1>1, SumInt
<1>4. SumFunctionOnSet(g, T) = SumFunctionOnSet(g, S) + g[x]
  <2>1. SumFunctionOnSet(g, T \ {x}) = SumFunctionOnSet(g, S)
    BY <1>1
  <2> QED
    BY <1>2, <1>3, <2>1
<1> QED
  BY <1>4 DEF T

(* Equal functions have equal sums. *)
LEMMA SumAgrees ==
  ASSUME NEW S, IsFiniteSet(S), NEW f, NEW g, \A x \in S : f[x] = g[x]
  PROVE  SumFunctionOnSet(f, S) = SumFunctionOnSet(g, S)
<1> DEFINE Differ == {T \in SUBSET S : SumFunctionOnSet(f, T) # SumFunctionOnSet(g, T)}
<1> SUFFICES ASSUME Differ # {} PROVE FALSE
  OBVIOUS
<1>1. PICK T \in Differ : \A U \in Differ : U \subseteq T => U = T
  <2>1. Differ \subseteq SUBSET S
    OBVIOUS
  <2> HIDE DEF Differ
  <2> QED
    BY <2>1, SmallestSet
<1>2. IsFiniteSet(T) /\ T \in SUBSET S /\ T # {}
  BY <1>1, FS_Subset, SumEmpty
<1>3. First(T) \in T /\ T \ {First(T)} \notin Differ
  BY <1>1, <1>2, FirstIsIn
<1>4. SumFunctionOnSet(f, T) = f[First(T)] + SumFunctionOnSet(f, T \ {First(T)})
  BY <1>2, SumFirst
<1>5. SumFunctionOnSet(g, T) = g[First(T)] + SumFunctionOnSet(g, T \ {First(T)})
  BY <1>2, SumFirst
<1> QED
  BY <1>1, <1>2, <1>3, <1>4, <1>5

(* One element changes: the sum changes by the difference. *)
LEMMA SumChanges ==
  ASSUME NEW S, IsFiniteSet(S), NEW x \in S, NEW f, NEW g,
         \A y \in S : f[y] \in Int /\ g[y] \in Int, \A y \in S : y # x => f[y] = g[y]
  PROVE  SumFunctionOnSet(g, S) = SumFunctionOnSet(f, S) + g[x] - f[x]
<1>1. SumFunctionOnSet(f, S) = f[x] + SumFunctionOnSet(f, S \ {x})
  BY SumTakes
<1>2. SumFunctionOnSet(g, S) = g[x] + SumFunctionOnSet(g, S \ {x})
  BY SumTakes
<1>3. IsFiniteSet(S \ {x})
  BY FS_RemoveElement
<1>4. SumFunctionOnSet(f, S \ {x}) = SumFunctionOnSet(g, S \ {x})
  BY <1>3, SumAgrees
<1>5. SumFunctionOnSet(f, S \ {x}) \in Int
  BY <1>3, SumInt
<1> QED
  BY <1>1, <1>2, <1>4, <1>5

LEMMA SumZero ==
  ASSUME NEW S, IsFiniteSet(S), NEW g, \A x \in S : g[x] = 0
  PROVE  SumFunctionOnSet(g, S) = 0
<1> DEFINE Wrong == {T \in SUBSET S : SumFunctionOnSet(g, T) # 0}
<1> SUFFICES ASSUME Wrong # {} PROVE FALSE
  OBVIOUS
<1>1. PICK T \in Wrong : \A U \in Wrong : U \subseteq T => U = T
  <2>1. Wrong \subseteq SUBSET S
    OBVIOUS
  <2> HIDE DEF Wrong
  <2> QED
    BY <2>1, SmallestSet
<1>2. IsFiniteSet(T) /\ T \in SUBSET S /\ T # {}
  BY <1>1, FS_Subset, SumEmpty
<1>3. First(T) \in T /\ T \ {First(T)} \notin Wrong
  BY <1>1, <1>2, FirstIsIn
<1>4. SumFunctionOnSet(g, T) = g[First(T)] + SumFunctionOnSet(g, T \ {First(T)})
  BY <1>2, SumFirst
<1> QED
  BY <1>1, <1>2, <1>3, <1>4

LEMMA SumNat ==
  ASSUME NEW S, IsFiniteSet(S), NEW g, \A x \in S : g[x] \in Nat
  PROVE  SumFunctionOnSet(g, S) \in Nat
<1> DEFINE Negative == {T \in SUBSET S : SumFunctionOnSet(g, T) \notin Nat}
<1> SUFFICES ASSUME Negative # {} PROVE FALSE
  OBVIOUS
<1>1. PICK T \in Negative : \A U \in Negative : U \subseteq T => U = T
  <2>1. Negative \subseteq SUBSET S
    OBVIOUS
  <2> HIDE DEF Negative
  <2> QED
    BY <2>1, SmallestSet
<1>2. IsFiniteSet(T) /\ T \in SUBSET S /\ T # {}
  <2>1. SumFunctionOnSet(g, {}) \in Nat
    BY SumEmpty
  <2> QED
    BY <1>1, <2>1, FS_Subset
<1>3. First(T) \in T /\ T \ {First(T)} \notin Negative
  BY <1>1, <1>2, FirstIsIn
<1>4. SumFunctionOnSet(g, T) = g[First(T)] + SumFunctionOnSet(g, T \ {First(T)})
  BY <1>2, SumFirst
<1> QED
  BY <1>1, <1>2, <1>3, <1>4

(* No term is greater than the sum. *)
LEMMA SumBoundsTerm ==
  ASSUME NEW S, IsFiniteSet(S), NEW g, \A y \in S : g[y] \in Nat, NEW x \in S
  PROVE  g[x] <= SumFunctionOnSet(g, S)
<1>1. SumFunctionOnSet(g, S) = g[x] + SumFunctionOnSet(g, S \ {x})
  BY SumTakes
<1>2. IsFiniteSet(S \ {x})
  BY FS_RemoveElement
<1>3. SumFunctionOnSet(g, S \ {x}) \in Nat
  BY <1>2, SumNat
<1> QED
  BY <1>1, <1>3
-----------------------------------------------------------------------------
(* The elements of a sequence without repetitions, at whose end one is      *)
(* added and from whose head one is taken.                                 *)
LEMMA RangeOfAppend ==
  ASSUME NEW S, NEW s \in Seq(S), NEW x \in S
  PROVE  Range(Append(s, x)) = Range(s) \cup {x}
<1>1. /\ Len(s) \in Nat /\ DOMAIN s = 1 .. Len(s) /\ DOMAIN Append(s, x) = 1 .. Len(s) + 1
      /\ \A i \in 1 .. Len(s) : Append(s, x)[i] = s[i]
      /\ Append(s, x)[Len(s) + 1] = x
  OBVIOUS
<1> DEFINE t == Append(s, x)
<1>2. Range(s) = {s[i] : i \in 1 .. Len(s)} /\ Range(t) = {t[i] : i \in 1 .. Len(s) + 1}
  BY <1>1 DEF Range
<1> HIDE DEF t
<1>3. {t[i] : i \in 1 .. Len(s) + 1} = {s[i] : i \in 1 .. Len(s)} \cup {x}
  BY <1>1 DEF t
<1> QED
  BY <1>2, <1>3 DEF t

LEMMA RangeOfTail ==
  ASSUME NEW S, NEW s \in Seq(S), s # <<>>, \A i, j \in 1 .. Len(s) : s[i] = s[j] => i = j
  PROVE  /\ Range(s) = Range(Tail(s)) \cup {Head(s)}
         /\ Head(s) \notin Range(Tail(s))
         /\ \A i, j \in 1 .. Len(s) - 1 : Tail(s)[i] = Tail(s)[j] => i = j
<1> DEFINE t == Tail(s)
<1>1. /\ Len(t) = Len(s) - 1 /\ Len(s) \in Nat /\ Len(s) > 0
      /\ \A i \in 1 .. Len(s) - 1 : t[i] = s[i + 1]
      /\ DOMAIN t = 1 .. Len(s) - 1 /\ DOMAIN s = 1 .. Len(s) /\ Head(s) = s[1]
  OBVIOUS
<1> HIDE DEF t
<1>2. Range(t) \subseteq Range(s) /\ Head(s) \in Range(s) /\ Head(s) \notin Range(t)
  <2>1. \A i \in 1 .. Len(s) - 1 : i + 1 \in 1 .. Len(s) /\ i + 1 # 1 /\ t[i] = s[i + 1]
    BY <1>1
  <2>2. 1 \in 1 .. Len(s)
    BY <1>1
  <2>3. \A i \in 1 .. Len(s) - 1 : t[i] \in Range(s) /\ t[i] # Head(s)
    BY <1>1, <2>1, <2>2 DEF Range
  <2> QED
    BY <1>1, <2>2, <2>3 DEF Range
<1>3. ASSUME NEW y \in Range(s), y # Head(s) PROVE y \in Range(t)
  <2>1. PICK i \in 1 .. Len(s) : y = s[i]
    BY <1>1 DEF Range
  <2>2. i - 1 \in 1 .. Len(s) - 1 /\ t[i - 1] = s[(i - 1) + 1] /\ (i - 1) + 1 = i
    BY <1>1, <1>3, <2>1
  <2> QED
    BY <1>1, <2>1, <2>2 DEF Range
<1>4. \A i, j \in 1 .. Len(s) - 1 : t[i] = t[j] => i = j
  <2> SUFFICES ASSUME NEW i \in 1 .. Len(s) - 1, NEW j \in 1 .. Len(s) - 1, t[i] = t[j]
               PROVE  i = j
    OBVIOUS
  <2>1. s[i + 1] = s[j + 1] /\ i + 1 \in 1 .. Len(s) /\ j + 1 \in 1 .. Len(s)
    BY <1>1
  <2> QED
    BY <2>1
<1> QED
  BY <1>2, <1>3, <1>4 DEF t
=============================================================================
