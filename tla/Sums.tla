-------------------------------- MODULE Sums --------------------------------
(***************************************************************************)
(* Facts about SumFunction, the sum of the values of a function with a     *)
(* finite domain: what quantities bought and amounts billed are added with *)
(* (routes_purchase_results.py, routes_invoices.py).  They are shown by    *)
(* induction on the number of elements.                                    *)
(***************************************************************************)
EXTENDS Functions, FiniteSetTheorems, WellFoundedInduction, TLAPS

(* Induction on the natural numbers, for a set instead of a predicate.     *)
LEMMA NatSetInduction ==
    ASSUME NEW S, 0 \in S, \A n \in Nat : n \in S => n + 1 \in S
    PROVE  Nat \subseteq S
  <1> SUFFICES ASSUME Nat \ S # {} PROVE FALSE
    OBVIOUS
  <1>1. PICK n \in Nat \ S : \A m \in Nat \ S : <<m, n>> \notin OpToRel(<, Nat)
    <2>1. Nat \ S \subseteq Nat
      OBVIOUS
    <2>2. \E x \in Nat \ S : \A y \in Nat \ S : ~(<<y, x>> \in OpToRel(<, Nat))
      BY <2>1, WFMin, NatLessThanWellFounded
    <2>3. QED
      BY <2>2
  <1>2. n - 1 \in Nat /\ n - 1 < n /\ (n - 1) + 1 = n
    OBVIOUS
  <1>3. n - 1 \in S
    BY <1>1, <1>2 DEF OpToRel
  <1>4. QED
    BY <1>2, <1>3

(* The definition of a sum: some element is added to the sum of the rest.  *)
Choice(S) == CHOOSE x \in S : TRUE
Rest(S) == S \ {Choice(S)}

AddsOn(g, f, Q) == g = [S \in Q |-> IF S = {} THEN 0 ELSE f[Choice(S)] + g[Rest(S)]]
Adds(g, f, D) == AddsOn(g, f, SUBSET D)

LEMMA SumDefinition ==
    ASSUME NEW f, NEW S
    PROVE  SumFunctionOnSet(f, S) = (CHOOSE g : Adds(g, f, S))[S]
  BY DEF SumFunctionOnSet, FoldFunctionOnSet, MapThenFoldSet, Adds, AddsOn, Choice, Rest

LEMMA RestIsSmaller ==
    ASSUME NEW S, IsFiniteSet(S), S # {}
    PROVE  /\ Choice(S) \in S /\ Rest(S) \subseteq S /\ IsFiniteSet(Rest(S))
           /\ Cardinality(S) \in Nat /\ Cardinality(Rest(S)) \in Nat
           /\ Cardinality(Rest(S)) + 1 = Cardinality(S)
  <1>1. Choice(S) \in S
    BY DEF Choice
  <1>2. QED
    BY <1>1, FS_RemoveElement, FS_CardinalityType DEF Rest

(* There is a function as the definition asks for. *)
LEMMA AddsExists ==
    ASSUME NEW f, NEW D, IsFiniteSet(D)
    PROVE  \E g : Adds(g, f, D)
  <1> DEFINE Small(n) == {S \in SUBSET D : Cardinality(S) <= n}
             Holds(n) == \E g : AddsOn(g, f, Small(n))
  <1>1. \A S \in SUBSET D : IsFiniteSet(S) /\ Cardinality(S) \in Nat /\ Cardinality(S) <= Cardinality(D)
    BY FS_Subset, FS_CardinalityType
  <1>2. Holds(0)
    <2> DEFINE g == [S \in Small(0) |-> 0]
    <2>1. \A S \in Small(0) : S = {}
      BY <1>1, FS_EmptySet
    <2>2. AddsOn(g, f, Small(0))
      BY <2>1 DEF AddsOn
    <2>3. QED
      BY <2>2
  <1>3. ASSUME NEW n \in Nat, Holds(n)
        PROVE  Holds(n + 1)
    <2>1. PICK g : AddsOn(g, f, Small(n))
      BY <1>3
    <2> DEFINE h == [S \in Small(n + 1) |-> IF S = {} THEN 0 ELSE f[Choice(S)] + g[Rest(S)]]
    <2>2. ASSUME NEW S \in Small(n + 1), S # {}
          PROVE  Rest(S) \in Small(n)
      BY <1>1, <2>2, RestIsSmaller
    <2>3. ASSUME NEW S \in Small(n)
          PROVE  h[S] = g[S]
      <3>1. S \in Small(n + 1)
        BY <1>1, <2>3
      <3>2. QED
        BY <2>1, <3>1 DEF AddsOn
    <2>4. h = [S \in Small(n + 1) |-> IF S = {} THEN 0 ELSE f[Choice(S)] + h[Rest(S)]]
      <3> HIDE DEF h
      <3>1. ASSUME NEW S \in Small(n + 1), S # {}
            PROVE  f[Choice(S)] + g[Rest(S)] = f[Choice(S)] + h[Rest(S)]
        BY <3>1, <2>2, <2>3
      <3>2. QED
        BY <3>1 DEF h
    <2>5. QED
      BY <2>4 DEF AddsOn
  <1>4. Holds(Cardinality(D))
    <2> HIDE DEF Holds
    <2> DEFINE N == {n \in Nat : Holds(n)}
    <2>1. 0 \in N /\ \A n \in Nat : n \in N => n + 1 \in N
      BY <1>2, <1>3
    <2>2. Nat \subseteq N
      <3> HIDE DEF N
      <3>1. QED
        BY <2>1, NatSetInduction
    <2>3. QED
      BY <2>2, FS_CardinalityType
  <1>5. Small(Cardinality(D)) = SUBSET D
    BY <1>1
  <1>6. QED
    BY <1>4, <1>5 DEF Adds

(* Two such functions agree on the sets on which the summands agree.       *)
LEMMA AddsUnique ==
    ASSUME NEW f, NEW g, NEW D, Adds(g, f, D),
           NEW e, NEW h, NEW E, Adds(h, e, E),
           NEW U, IsFiniteSet(U), U \subseteq D, U \subseteq E, \A x \in U : f[x] = e[x]
    PROVE  g[U] = h[U]
  <1> DEFINE Holds(n) == \A S \in SUBSET U : Cardinality(S) = n => g[S] = h[S]
  <1>1. \A S \in SUBSET U : IsFiniteSet(S) /\ Cardinality(S) \in Nat
    BY FS_Subset, FS_CardinalityType
  <1>2. Holds(0)
    <2>1. \A S \in SUBSET U : Cardinality(S) = 0 => S = {}
      BY <1>1, FS_EmptySet
    <2>2. g[{}] = 0 /\ h[{}] = 0
      BY DEF Adds, AddsOn
    <2>3. QED
      BY <2>1, <2>2
  <1>3. ASSUME NEW n \in Nat, Holds(n)
        PROVE  Holds(n + 1)
    <2>1. SUFFICES ASSUME NEW S \in SUBSET U, Cardinality(S) = n + 1
                   PROVE  g[S] = h[S]
      OBVIOUS
    <2>2. S # {}
      BY <2>1, FS_EmptySet
    <2>3. g[Rest(S)] = h[Rest(S)] /\ Choice(S) \in U /\ Rest(S) \in SUBSET U
      BY <1>1, <1>3, <2>1, <2>2, RestIsSmaller
    <2>4. g[S] = f[Choice(S)] + g[Rest(S)] /\ h[S] = e[Choice(S)] + h[Rest(S)]
      BY <2>2 DEF Adds, AddsOn
    <2>5. QED
      BY <2>3, <2>4
  <1>4. \A n \in Nat : Holds(n)
    <2> HIDE DEF Holds
    <2> DEFINE N == {n \in Nat : Holds(n)}
    <2>1. 0 \in N /\ \A n \in Nat : n \in N => n + 1 \in N
      BY <1>2, <1>3
    <2>2. Nat \subseteq N
      <3> HIDE DEF N
      <3>1. QED
        BY <2>1, NatSetInduction
    <2>3. QED
      BY <2>2
  <1>5. QED
    BY <1>1, <1>4

(* A sum over no element, and over some. *)
LEMMA SumRecursion ==
    ASSUME NEW f, NEW S, IsFiniteSet(S)
    PROVE  SumFunctionOnSet(f, S) =
             IF S = {} THEN 0 ELSE f[Choice(S)] + SumFunctionOnSet(f, Rest(S))
  <1> DEFINE Adder(T) == CHOOSE g : Adds(g, f, T)
  <1>1. \A T : IsFiniteSet(T) => Adds(Adder(T), f, T)
    BY AddsExists
  <1>2. Adds(Adder(S), f, S)
    BY <1>1
  <1> HIDE DEF Adder
  <1>3. Adder(S)[S] = IF S = {} THEN 0 ELSE f[Choice(S)] + Adder(S)[Rest(S)]
    BY <1>2 DEF Adds, AddsOn
  <1>4. S # {} => Adder(S)[Rest(S)] = Adder(Rest(S))[Rest(S)]
    <2> SUFFICES ASSUME S # {} PROVE Adder(S)[Rest(S)] = Adder(Rest(S))[Rest(S)]
      OBVIOUS
    <2>1. IsFiniteSet(Rest(S)) /\ Rest(S) \subseteq S
      BY RestIsSmaller
    <2> DEFINE R == Rest(S)
    <2>2. IsFiniteSet(R) /\ R \subseteq S /\ R \subseteq R /\ \A x \in R : f[x] = f[x]
      BY <2>1
    <2>3. Adds(Adder(R), f, R)
      BY <1>1, <2>1
    <2> HIDE DEF R
    <2>4. Adder(S)[R] = Adder(R)[R]
      BY <1>2, <2>2, <2>3, AddsUnique
    <2>5. QED
      BY <2>4 DEF R
  <1>5. \A T : SumFunctionOnSet(f, T) = Adder(T)[T]
    BY SumDefinition DEF Adder
  <1>6. QED
    BY <1>3, <1>4, <1>5

LEMMA SumsAgree ==
    ASSUME NEW f, NEW e, NEW S, IsFiniteSet(S), \A x \in S : f[x] = e[x]
    PROVE  SumFunctionOnSet(f, S) = SumFunctionOnSet(e, S)
  <1> DEFINE g == CHOOSE g : Adds(g, f, S)
             h == CHOOSE h : Adds(h, e, S)
  <1>1. Adds(g, f, S) /\ Adds(h, e, S)
    BY AddsExists
  <1>2. SumFunctionOnSet(f, S) = g[S] /\ SumFunctionOnSet(e, S) = h[S]
    BY SumDefinition
  <1> HIDE DEF g, h
  <1>3. g[S] = h[S]
    <2>1. S \subseteq S
      OBVIOUS
    <2>2. QED
      BY <1>1, <2>1, AddsUnique
  <1>4. QED
    BY <1>2, <1>3

(* A sum of natural numbers is one. *)
LEMMA SumOnSetIsNat ==
    ASSUME NEW f, NEW D, IsFiniteSet(D), \A x \in D : f[x] \in Nat
    PROVE  SumFunctionOnSet(f, D) \in Nat
  <1> DEFINE Sum(S) == SumFunctionOnSet(f, S)
             Holds(n) == \A S \in SUBSET D : Cardinality(S) = n => Sum(S) \in Nat
  <1>1. \A S \in SUBSET D : IsFiniteSet(S) /\ Cardinality(S) \in Nat
    BY FS_Subset, FS_CardinalityType
  <1>2. \A S \in SUBSET D : Sum(S) = IF S = {} THEN 0 ELSE f[Choice(S)] + Sum(Rest(S))
    BY <1>1, SumRecursion
  <1> HIDE DEF Sum
  <1>3. Holds(0)
    <2>1. \A S \in SUBSET D : Cardinality(S) = 0 => S = {}
      BY <1>1, FS_EmptySet
    <2>2. Sum({}) = 0
      BY <1>2
    <2>3. QED
      BY <2>1, <2>2
  <1>4. ASSUME NEW n \in Nat, Holds(n)
        PROVE  Holds(n + 1)
    <2>1. SUFFICES ASSUME NEW S \in SUBSET D, Cardinality(S) = n + 1
                   PROVE  Sum(S) \in Nat
      OBVIOUS
    <2>2. S # {}
      BY <2>1, FS_EmptySet
    <2>3. Choice(S) \in D /\ Rest(S) \in SUBSET D /\ Cardinality(Rest(S)) = n
      BY <1>1, <2>1, <2>2, RestIsSmaller
    <2>4. Sum(S) = f[Choice(S)] + Sum(Rest(S))
      BY <1>2, <2>2
    <2>5. QED
      BY <1>4, <2>3, <2>4
  <1>5. \A n \in Nat : Holds(n)
    <2> HIDE DEF Holds
    <2> DEFINE N == {n \in Nat : Holds(n)}
    <2>1. 0 \in N /\ \A n \in Nat : n \in N => n + 1 \in N
      BY <1>3, <1>4
    <2>2. Nat \subseteq N
      <3> HIDE DEF N
      <3>1. QED
        BY <2>1, NatSetInduction
    <2>3. QED
      BY <2>2
  <1>6. Sum(D) \in Nat
    BY <1>1, <1>5
  <1>7. QED
    BY <1>6 DEF Sum

(* Any element may be added last, not only the one the definition chooses. *)
LEMMA AnyAddedLast ==
    ASSUME NEW f, NEW D, IsFiniteSet(D), \A x \in D : f[x] \in Nat
    PROVE  \A x \in D : SumFunctionOnSet(f, D) = f[x] + SumFunctionOnSet(f, D \ {x})
  <1> DEFINE Sum(S) == SumFunctionOnSet(f, S)
             Holds(n) == \A S \in SUBSET D : Cardinality(S) = n =>
                           \A x \in S : Sum(S) = f[x] + Sum(S \ {x})
  <1>1. \A S \in SUBSET D : IsFiniteSet(S) /\ Cardinality(S) \in Nat
    BY FS_Subset, FS_CardinalityType
  <1>2. \A S \in SUBSET D : Sum(S) = IF S = {} THEN 0 ELSE f[Choice(S)] + Sum(Rest(S))
    BY <1>1, SumRecursion
  <1>9. \A S \in SUBSET D : Sum(S) \in Nat
    BY <1>1, SumOnSetIsNat
  <1> HIDE DEF Sum
  <1>3. Holds(0)
    <2>1. \A S \in SUBSET D : Cardinality(S) = 0 => S = {}
      BY <1>1, FS_EmptySet
    <2>2. QED
      BY <2>1
  <1>4. ASSUME NEW n \in Nat, Holds(n)
        PROVE  Holds(n + 1)
    <2>1. SUFFICES ASSUME NEW S \in SUBSET D, Cardinality(S) = n + 1
                   PROVE  \A x \in S : Sum(S) = f[x] + Sum(S \ {x})
      OBVIOUS
    <2>2. S # {}
      BY <2>1, FS_EmptySet
    <2> DEFINE c == Choice(S)
    <2>3. c \in S /\ Rest(S) = S \ {c}
      BY <1>1, <2>2, RestIsSmaller DEF Rest
    <2> HIDE DEF c
    <2>4. \A x \in S : IsFiniteSet(S \ {x}) /\ Cardinality(S \ {x}) = n /\ S \ {x} \in SUBSET D
      BY <1>1, <2>1, FS_RemoveElement
    <2>5. \A x \in S : \A y \in S \ {x} : Sum(S \ {x}) = f[y] + Sum((S \ {x}) \ {y})
      BY <1>4, <2>4
    <2>6. Sum(S) = f[c] + Sum(S \ {c})
      BY <1>2, <2>2, <2>3 DEF c
    <2>7. ASSUME NEW x \in S, x # c
          PROVE  Sum(S) = f[x] + Sum(S \ {x})
      <3>1. Sum(S \ {c}) = f[x] + Sum((S \ {c}) \ {x}) /\ Sum(S \ {x}) = f[c] + Sum((S \ {x}) \ {c})
        BY <2>3, <2>5, <2>7
      <3>2. (S \ {c}) \ {x} = (S \ {x}) \ {c}
        OBVIOUS
      <3>3. Sum((S \ {x}) \ {c}) \in Nat
        BY <1>9
      <3>4. f[x] \in Nat /\ f[c] \in Nat
        BY <2>3
      <3>5. QED
        BY <2>6, <3>1, <3>2, <3>3, <3>4
    <2>8. QED
      BY <2>3, <2>5, <2>6, <2>7
  <1>5. \A n \in Nat : Holds(n)
    <2> HIDE DEF Holds
    <2> DEFINE N == {n \in Nat : Holds(n)}
    <2>1. 0 \in N /\ \A n \in Nat : n \in N => n + 1 \in N
      BY <1>3, <1>4
    <2>2. Nat \subseteq N
      <3> HIDE DEF N
      <3>1. QED
        BY <2>1, NatSetInduction
    <2>3. QED
      BY <2>2
  <1>6. \A x \in D : Sum(D) = f[x] + Sum(D \ {x})
    BY <1>1, <1>5
  <1>7. QED
    BY <1>6 DEF Sum

-----------------------------------------------------------------------------
(* The same for a whole function. *)
LEMMA SumIsNat ==
    ASSUME NEW f, IsFiniteSet(DOMAIN f), \A x \in DOMAIN f : f[x] \in Nat
    PROVE  SumFunction(f) \in Nat
  BY SumOnSetIsNat DEF SumFunction

LEMMA SumSplit ==
    ASSUME NEW f, IsFiniteSet(DOMAIN f), \A x \in DOMAIN f : f[x] \in Nat, NEW x \in DOMAIN f
    PROVE  SumFunction(f) = f[x] + SumFunction([y \in DOMAIN f \ {x} |-> f[y]])
  <1> DEFINE g == [y \in DOMAIN f \ {x} |-> f[y]]
  <1>1. IsFiniteSet(DOMAIN f \ {x})
    BY FS_RemoveElement
  <1>2. SumFunctionOnSet(f, DOMAIN f \ {x}) = SumFunctionOnSet(g, DOMAIN f \ {x})
    <2>1. \A y \in DOMAIN f \ {x} : f[y] = g[y]
      OBVIOUS
    <2> HIDE DEF g
    <2>2. QED
      BY <1>1, <2>1, SumsAgree
  <1>3. SumFunctionOnSet(f, DOMAIN f) = f[x] + SumFunctionOnSet(f, DOMAIN f \ {x})
    BY AnyAddedLast
  <1>4. DOMAIN g = DOMAIN f \ {x}
    OBVIOUS
  <1> HIDE DEF g
  <1>5. SumFunction(g) = SumFunctionOnSet(g, DOMAIN f \ {x})
    BY <1>4 DEF SumFunction
  <1>6. SumFunction(f) = f[x] + SumFunction(g)
    BY <1>2, <1>3, <1>5 DEF SumFunction
  <1>7. QED
    BY <1>6 DEF g

=============================================================================
