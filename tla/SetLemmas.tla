----------------------------- MODULE SetLemmas -----------------------------
(***************************************************************************)
(* Facts about numbers and finite sets that the proofs of this project     *)
(* need: induction in the form of sets (a set of numbers that has 0 and    *)
(* the successors of its members has all of them), Min, and the sum of a   *)
(* function over a finite set.                                             *)
(***************************************************************************)
EXTENDS Integers, FiniteSetsExt, FiniteSetTheorems, WellFoundedInduction, TLAPS

(* A set of numbers that is not empty has a least member. *)
LEMMA LeastMember == ASSUME NEW S \in SUBSET Nat, S # {} PROVE \E x \in S : \A y \in S : x <= y
<1> DEFINE R == {ss \in Nat \X Nat : ss[1] < ss[2]}
<1>1. R = OpToRel(<, Nat)
  BY DEF OpToRel
<1>2. IsWellFoundedOn(R, Nat)
  BY <1>1, NatLessThanWellFounded
<1> HIDE DEF R
<1>3. PICK x \in S : \A y \in S : <<y, x>> \notin R
  BY <1>2, WFMin
<1>4. \A y \in S : x <= y
  <2> SUFFICES ASSUME NEW y \in S, y < x PROVE FALSE
    OBVIOUS
  <2>1. <<y, x>> \in Nat \X Nat /\ <<y, x>>[1] < <<y, x>>[2]
    OBVIOUS
  <2>2. <<y, x>> \in R
    BY <2>1 DEF R
  <2> QED
    BY <1>3, <2>2
<1> QED
  BY <1>4

(* Min of the community modules picks a member. *)
LEMMA MinMember == ASSUME NEW S \in SUBSET Nat, S # {} PROVE Min(S) \in S
  BY LeastMember, Zenon DEF Min

(* Induction: what holds of 0 and passes from every number to the next holds of all. *)
LEMMA SetInduction ==
    ASSUME NEW T \in SUBSET Nat, 0 \in T, \A n \in T : n + 1 \in T
    PROVE  T = Nat
<1> SUFFICES ASSUME Nat \ T # {} PROVE FALSE
  OBVIOUS
<1>1. PICK x \in Nat \ T : \A y \in Nat \ T : x <= y
  BY LeastMember
<1>2. x # 0 /\ x - 1 \in Nat /\ x - 1 < x
  OBVIOUS
<1>3. x - 1 \in T
  BY <1>1, <1>2
<1> QED
  BY <1>2, <1>3

-----------------------------------------------------------------------------
(* The equation of the recursive function inside a sum of w. *)
Adds(g, w, D) ==
    g = [s \in D |-> IF s = {} THEN 0 ELSE w[CHOOSE x \in s : TRUE] + g[s \ {CHOOSE x \in s : TRUE}]]

(* The sets of at most n members. *)
Small(S, n) == {s \in SUBSET S : Cardinality(s) <= n}

(* A set that has a member has one that is chosen, and is smaller without it. *)
LEMMA Chosen ==
    ASSUME NEW S, IsFiniteSet(S), NEW s \in SUBSET S, s # {}
    PROVE  LET x == CHOOSE x \in s : TRUE
           IN  /\ x \in s /\ s \ {x} \in SUBSET S
               /\ Cardinality(s) \in Nat /\ Cardinality(s \ {x}) = Cardinality(s) - 1
<1>1. IsFiniteSet(s)
  BY FS_Subset
<1>2. (CHOOSE x \in s : TRUE) \in s
  OBVIOUS
<1> QED
  BY <1>1, <1>2, FS_RemoveElement, FS_CardinalityType

(* The recursion is well founded: a function solves its equation. *)
LEMMA AddsExists == ASSUME NEW S, IsFiniteSet(S), NEW w PROVE \E g : Adds(g, w, SUBSET S)
<1> DEFINE T == {n \in Nat : \E g : Adds(g, w, Small(S, n))}
<1>1. 0 \in T
  <2> DEFINE g == [s \in Small(S, 0) |-> 0]
  <2>1. \A s \in Small(S, 0) : s = {}
    BY FS_Subset, FS_EmptySet, FS_CardinalityType DEF Small
  <2>2. Adds(g, w, Small(S, 0))
    BY <2>1, Zenon DEF Adds
  <2> QED
    BY <2>2
<1>2. ASSUME NEW n \in T PROVE n + 1 \in T
  <2>1. PICK g : Adds(g, w, Small(S, n))
    OBVIOUS
  <2> DEFINE rest(s) == s \ {CHOOSE x \in s : TRUE}
             h == [s \in Small(S, n + 1) |-> IF s = {} THEN 0 ELSE w[CHOOSE x \in s : TRUE] + g[rest(s)]]
  <2>2. ASSUME NEW s \in Small(S, n + 1), s # {} PROVE rest(s) \in Small(S, n) /\ rest(s) \in Small(S, n + 1)
    BY <2>2, Chosen DEF Small
  <2>3. \A s \in Small(S, n) : s # {} => rest(s) \in Small(S, n)
    <3> SUFFICES ASSUME NEW s \in Small(S, n), s # {} PROVE rest(s) \in Small(S, n)
      OBVIOUS
    <3> QED
      BY Chosen DEF Small
  <2>4. \A s \in Small(S, n) : s \in Small(S, n + 1) /\ h[s] = g[s]
    <3> SUFFICES ASSUME NEW s \in Small(S, n) PROVE s \in Small(S, n + 1) /\ h[s] = g[s]
      OBVIOUS
    <3>0. Cardinality(s) \in Nat
      BY FS_Subset, FS_CardinalityType DEF Small
    <3>1. s \in Small(S, n + 1)
      BY <3>0 DEF Small
    <3>2. g[s] = IF s = {} THEN 0 ELSE w[CHOOSE x \in s : TRUE] + g[rest(s)]
      BY <2>1, Zenon DEF Adds
    <3> QED
      BY <3>1, <3>2
  <2>5. \A s \in Small(S, n + 1) : s # {} => h[rest(s)] = g[rest(s)]
    BY <2>2, <2>4
  <2>6. /\ h = [s \in Small(S, n + 1) |-> h[s]]
        /\ \A s \in Small(S, n + 1) : h[s] = IF s = {} THEN 0 ELSE w[CHOOSE x \in s : TRUE] + g[rest(s)]
    OBVIOUS
  <2> HIDE DEF h
  <2>7. \A s \in Small(S, n + 1) : h[s] = IF s = {} THEN 0 ELSE w[CHOOSE x \in s : TRUE] + h[rest(s)]
    BY <2>5, <2>6, Zenon
  <2>8. Adds(h, w, Small(S, n + 1))
    BY <2>6, <2>7, Zenon DEF Adds
  <2> QED
    BY <2>8
<1> HIDE DEF T
<1>3. T = Nat
  BY <1>1, <1>2, SetInduction DEF T
<1>4. Cardinality(S) \in T
  BY <1>3, FS_CardinalityType
<1>5. Small(S, Cardinality(S)) = SUBSET S
  BY FS_Subset DEF Small
<1> QED
  BY <1>4, <1>5 DEF T

(* The sum of the community modules is a solution of that equation. *)
LEMMA SumUnfold ==
    ASSUME NEW S, IsFiniteSet(S), NEW w
    PROVE  \E g : Adds(g, w, SUBSET S) /\ SumFunctionOnSet(w, S) = g[S]
<1> DEFINE G == CHOOSE g : Adds(g, w, SUBSET S)
<1>1. SumFunctionOnSet(w, S) = G[S]
  BY DEF SumFunctionOnSet, FoldFunctionOnSet, MapThenFoldSet, Adds
<1>2. Adds(G, w, SUBSET S)
  BY AddsExists
<1> QED
  BY <1>1, <1>2

(* Two functions that add the same up agree. *)
LEMMA AddsUnique ==
    ASSUME NEW S, IsFiniteSet(S), NEW T \in SUBSET S, NEW w, NEW v, \A x \in T : w[x] = v[x]
    PROVE  \A g, h : Adds(g, w, SUBSET S) /\ Adds(h, v, SUBSET T) => g[T] = h[T]
<1> SUFFICES ASSUME NEW g, NEW h, Adds(g, w, SUBSET S), Adds(h, v, SUBSET T) PROVE g[T] = h[T]
  OBVIOUS
<1> DEFINE N == {n \in Nat : \A s \in SUBSET T : Cardinality(s) <= n => g[s] = h[s]}
           rest(s) == s \ {CHOOSE x \in s : TRUE}
<1>0. IsFiniteSet(T)
  BY FS_Subset
<1>1. \A s \in SUBSET S : g[s] = IF s = {} THEN 0 ELSE w[CHOOSE x \in s : TRUE] + g[rest(s)]
  BY Zenon DEF Adds
<1>2. \A s \in SUBSET T : h[s] = IF s = {} THEN 0 ELSE v[CHOOSE x \in s : TRUE] + h[rest(s)]
  BY Zenon DEF Adds
<1>3. \A s \in SUBSET T : s # {} =>
        /\ (CHOOSE x \in s : TRUE) \in T /\ rest(s) \in SUBSET T
        /\ Cardinality(s) \in Nat /\ Cardinality(rest(s)) = Cardinality(s) - 1
  BY <1>0, Chosen
<1> HIDE DEF rest
<1>4. 0 \in N
  <2> SUFFICES ASSUME NEW s \in SUBSET T, Cardinality(s) <= 0 PROVE g[s] = h[s]
    OBVIOUS
  <2>1. s = {}
    BY <1>0, FS_Subset, FS_EmptySet, FS_CardinalityType
  <2> QED
    BY <1>1, <1>2, <2>1
<1>5. ASSUME NEW n \in N PROVE n + 1 \in N
  <2> SUFFICES ASSUME NEW s \in SUBSET T, Cardinality(s) <= n + 1, s # {} PROVE g[s] = h[s]
    BY <1>1, <1>2
  <2>1. rest(s) \in SUBSET T /\ Cardinality(rest(s)) <= n /\ (CHOOSE x \in s : TRUE) \in T
    BY <1>3
  <2>2. g[rest(s)] = h[rest(s)]
    BY <2>1
  <2> QED
    BY <1>1, <1>2, <2>1, <2>2
<1> HIDE DEF N
<1>6. N = Nat
  BY <1>4, <1>5, SetInduction DEF N
<1>7. Cardinality(T) \in N
  BY <1>0, <1>6, FS_CardinalityType
<1> QED
  BY <1>0, <1>7, FS_CardinalityType DEF N

(* Functions that agree on a set have the same sum over it. *)
LEMMA SumSame ==
    ASSUME NEW S, IsFiniteSet(S), NEW w, NEW v, \A x \in S : w[x] = v[x]
    PROVE  SumFunctionOnSet(w, S) = SumFunctionOnSet(v, S)
<1>1. PICK g : Adds(g, w, SUBSET S) /\ SumFunctionOnSet(w, S) = g[S]
  BY SumUnfold
<1>2. PICK h : Adds(h, v, SUBSET S) /\ SumFunctionOnSet(v, S) = h[S]
  BY SumUnfold
<1>3. \A i, j : Adds(i, w, SUBSET S) /\ Adds(j, v, SUBSET S) => i[S] = j[S]
  BY AddsUnique
<1>4. g[S] = h[S]
  BY <1>1, <1>2, <1>3
<1> QED
  BY <1>1, <1>2, <1>4

(* A sum is the chosen member's value and the sum of the rest. *)
LEMMA SumChosen ==
    ASSUME NEW S, IsFiniteSet(S), NEW w
    PROVE  SumFunctionOnSet(w, S) =
             IF S = {} THEN 0 ELSE w[CHOOSE x \in S : TRUE] + SumFunctionOnSet(w, S \ {CHOOSE x \in S : TRUE})
<1> DEFINE R == S \ {CHOOSE x \in S : TRUE}
<1>0. R \in SUBSET S /\ IsFiniteSet(R)
  BY FS_RemoveElement
<1>1. PICK g : Adds(g, w, SUBSET S) /\ SumFunctionOnSet(w, S) = g[S]
  BY SumUnfold
<1>2. PICK h : Adds(h, w, SUBSET R) /\ SumFunctionOnSet(w, R) = h[R]
  BY <1>0, SumUnfold
<1> HIDE DEF R
<1>3. \A i, j : Adds(i, w, SUBSET S) /\ Adds(j, w, SUBSET R) => i[R] = j[R]
  BY <1>0, AddsUnique
<1>4. g[R] = h[R]
  BY <1>1, <1>2, <1>3
<1>5. g[S] = IF S = {} THEN 0 ELSE w[CHOOSE x \in S : TRUE] + g[R]
  BY <1>1, Zenon DEF Adds, R
<1> QED
  BY <1>1, <1>2, <1>4, <1>5 DEF R

(* The sum of nothing is 0. *)
LEMMA SumEmpty == ASSUME NEW w PROVE SumFunctionOnSet(w, {}) = 0
  BY SumChosen, FS_EmptySet

(* A sum of numbers is a number; a sum of zeros is 0. *)
LEMMA SumType ==
    ASSUME NEW S, IsFiniteSet(S), NEW w, NEW K \in {Nat, Int, {0}}, \A x \in S : w[x] \in K
    PROVE  SumFunctionOnSet(w, S) \in K
<1> DEFINE N == {n \in Nat : \A s \in SUBSET S : Cardinality(s) <= n => SumFunctionOnSet(w, s) \in K}
           rest(s) == s \ {CHOOSE x \in s : TRUE}
<1>1. \A s \in SUBSET S : s # {} =>
        /\ (CHOOSE x \in s : TRUE) \in S /\ rest(s) \in SUBSET S
        /\ Cardinality(s) \in Nat /\ Cardinality(rest(s)) = Cardinality(s) - 1
  BY Chosen
<1>2. \A s \in SUBSET S : SumFunctionOnSet(w, s) =
        IF s = {} THEN 0 ELSE w[CHOOSE x \in s : TRUE] + SumFunctionOnSet(w, rest(s))
  BY FS_Subset, SumChosen
<1> HIDE DEF rest
<1>3. 0 \in N
  <2> SUFFICES ASSUME NEW s \in SUBSET S, Cardinality(s) <= 0 PROVE SumFunctionOnSet(w, s) \in K
    OBVIOUS
  <2>1. s = {}
    BY FS_Subset, FS_EmptySet, FS_CardinalityType
  <2> QED
    BY <1>2, <2>1
<1>4. ASSUME NEW n \in N PROVE n + 1 \in N
  <2> SUFFICES ASSUME NEW s \in SUBSET S, Cardinality(s) <= n + 1 PROVE SumFunctionOnSet(w, s) \in K
    OBVIOUS
  <2>1. CASE s = {}
    BY <1>2, <2>1
  <2>2. CASE s # {}
    <3>1. SumFunctionOnSet(w, rest(s)) \in K
      BY <1>1, <2>2
    <3>2. w[CHOOSE x \in s : TRUE] \in K
      BY <1>1, <2>2
    <3> QED
      BY <1>2, <2>2, <3>1, <3>2
  <2> QED
    BY <2>1, <2>2
<1> HIDE DEF N
<1>5. N = Nat
  BY <1>3, <1>4, SetInduction DEF N
<1>6. Cardinality(S) \in N
  BY <1>5, FS_CardinalityType
<1> QED
  BY <1>6, FS_CardinalityType DEF N

(* Any member's value may be taken out of a sum. *)
LEMMA SumWithout ==
    ASSUME NEW S, IsFiniteSet(S), NEW w, \A x \in S : w[x] \in Int, NEW a \in S
    PROVE  /\ SumFunctionOnSet(w, S) = w[a] + SumFunctionOnSet(w, S \ {a})
           /\ SumFunctionOnSet(w, S \ {a}) \in Int
<1> DEFINE sum(s) == SumFunctionOnSet(w, s)
           chosen(s) == CHOOSE x \in s : TRUE
           N == {n \in Nat : \A s \in SUBSET S : Cardinality(s) <= n => \A x \in s : sum(s) = w[x] + sum(s \ {x})}
<1>1. \A s \in SUBSET S : s # {} =>
        /\ chosen(s) \in s
        /\ Cardinality(s) \in Nat /\ \A x \in s : Cardinality(s \ {x}) = Cardinality(s) - 1
  BY Chosen, FS_Subset, FS_RemoveElement
<1>2. \A s \in SUBSET S : s # {} => sum(s) = w[chosen(s)] + sum(s \ {chosen(s)})
  BY FS_Subset, SumChosen
<1>3. \A s \in SUBSET S : sum(s) \in Int
  BY FS_Subset, SumType
<1> HIDE DEF sum, chosen
<1>4. 0 \in N
  <2> SUFFICES ASSUME NEW s \in SUBSET S, Cardinality(s) <= 0, s # {} PROVE FALSE
    OBVIOUS
  <2>1. Cardinality(s) = 0 /\ IsFiniteSet(s)
    BY <1>1, FS_Subset
  <2> QED
    BY <2>1, FS_EmptySet
<1>5. ASSUME NEW n \in N PROVE n + 1 \in N
  <2> SUFFICES ASSUME NEW s \in SUBSET S, Cardinality(s) <= n + 1, NEW x \in s
               PROVE  sum(s) = w[x] + sum(s \ {x})
    OBVIOUS
  <2> DEFINE c == chosen(s)
  <2>0. c \in s /\ c \in S /\ x \in S /\ w[c] \in Int /\ w[x] \in Int
    BY <1>1
  <2>1. CASE c = x
    BY <1>2, <2>1
  <2>2. CASE c # x
    <3>1. s \ {c} \in SUBSET S /\ s \ {x} \in SUBSET S /\ x \in s \ {c} /\ c \in s \ {x}
      BY <2>0, <2>2
    <3>2. Cardinality(s \ {c}) <= n /\ Cardinality(s \ {x}) <= n
      BY <1>1, <2>0
    <3>3. sum(s \ {c}) = w[x] + sum((s \ {c}) \ {x})
      BY <3>1, <3>2
    <3>4. sum(s \ {x}) = w[c] + sum((s \ {x}) \ {c})
      BY <3>1, <3>2
    <3>5. (s \ {c}) \ {x} = (s \ {x}) \ {c} /\ (s \ {c}) \ {x} \in SUBSET S
      OBVIOUS
    <3> DEFINE r == (s \ {c}) \ {x}
    <3>6. sum(s) = w[c] + sum(s \ {c})
      BY <1>2, <2>0
    <3>7. sum((s \ {c}) \ {x}) \in Int
      BY <1>3, <3>5
    <3>8. sum(s \ {c}) = w[x] + sum(r) /\ sum(s \ {x}) = w[c] + sum(r) /\ sum(r) \in Int
      BY <3>3, <3>4, <3>5, <3>7
    <3> HIDE DEF c, r
    <3> QED
      BY <2>0, <3>6, <3>8
  <2> QED
    BY <2>1, <2>2
<1> HIDE DEF N
<1>6. N = Nat
  BY <1>4, <1>5, SetInduction DEF N
<1>7. Cardinality(S) \in N
  BY <1>6, FS_CardinalityType
<1>8. sum(S) = w[a] + sum(S \ {a}) /\ sum(S \ {a}) \in Int
  BY <1>3, <1>7, FS_CardinalityType DEF N
<1> QED
  BY <1>8 DEF sum

(* A sum in which one value, or one member, changes. *)
PartOf(w, S, a) == IF a \in S THEN w[a] ELSE 0

(* Sums over two sets that differ in at most one member differ by what it counts for. *)
LEMMA SumChange ==
    ASSUME NEW S, IsFiniteSet(S), NEW w, \A x \in S : w[x] \in Int,
           NEW T, NEW v, \A x \in T : v[x] \in Int,
           NEW a, S \ {a} = T \ {a}, \A x \in S \ {a} : w[x] = v[x]
    PROVE  SumFunctionOnSet(v, T) = SumFunctionOnSet(w, S) - PartOf(w, S, a) + PartOf(v, T, a)
<1>1. IsFiniteSet(S \ {a}) /\ IsFiniteSet(T)
  <2>1. IsFiniteSet(S \ {a}) /\ T \in SUBSET ((S \ {a}) \cup {a})
    BY FS_RemoveElement
  <2> QED
    BY <2>1, FS_AddElement, FS_Subset
<1>2. SumFunctionOnSet(w, S \ {a}) = SumFunctionOnSet(v, T \ {a}) /\ SumFunctionOnSet(w, S \ {a}) \in Int
  BY <1>1, SumSame, SumType
<1>3. SumFunctionOnSet(w, S) = PartOf(w, S, a) + SumFunctionOnSet(w, S \ {a})
  <2>1. CASE a \in S
    BY <2>1, SumWithout DEF PartOf
  <2>2. CASE a \notin S
    <3>1. S \ {a} = S
      BY <2>2
    <3>2. SumFunctionOnSet(w, S \ {a}) = SumFunctionOnSet(w, S)
      BY <3>1, Zenon
    <3> QED
      BY <1>2, <2>2, <3>2 DEF PartOf
  <2> QED
    BY <2>1, <2>2
<1>4. SumFunctionOnSet(v, T) = PartOf(v, T, a) + SumFunctionOnSet(v, T \ {a})
  <2>1. CASE a \in T
    BY <1>1, <2>1, SumWithout DEF PartOf
  <2>2. CASE a \notin T
    <3>1. T \ {a} = T
      BY <2>2
    <3>2. SumFunctionOnSet(v, T \ {a}) = SumFunctionOnSet(v, T)
      BY <3>1, Zenon
    <3> QED
      BY <1>2, <2>2, <3>2 DEF PartOf
  <2> QED
    BY <2>1, <2>2
<1>5. PartOf(w, S, a) \in Int /\ PartOf(v, T, a) \in Int
  BY DEF PartOf
<1> QED
  BY <1>2, <1>3, <1>4, <1>5
=============================================================================
