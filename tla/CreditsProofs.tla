--------------------------- MODULE CreditsProofs ---------------------------
(***************************************************************************)
(* What the credit arithmetic of Credits guarantees for every balance,     *)
(* price and batch size.                                                   *)
(*                                                                         *)
(* The sums over finite sets that the other modules add up are here too.   *)
(* A sum is a fold, and what a fold is of each set cannot be had by an     *)
(* induction theorem: the induction is done on the sets themselves         *)
(* (SubsetInduction), for the functions that hold a set's partial sums.    *)
(***************************************************************************)
EXTENDS Credits, Functions, FiniteSetTheorems, TLAPS

\* Integer division rounds down.
LEMMA DivisionRoundsDown ==
    ASSUME NEW a \in Nat, NEW n \in Nat, n > 0
    PROVE  /\ a \div n \in Nat
           /\ (a \div n) * n <= a
           /\ a - (a \div n) * n < n
BY SMT

\* spend_credits_up_to never grants more than was asked for, nor more than
\* the two pools can pay.
THEOREM GrantIsAffordable ==
    ASSUME NEW p \in Pool, NEW cost \in Nat, NEW wanted \in Nat
    PROVE  /\ Granted(p, cost, wanted) \in 0 .. wanted
           /\ cost * Granted(p, cost, wanted) \in 0 .. Total(p)
<1> DEFINE q == Total(p) \div cost
<1>1. Total(p) \in Nat
    BY DEF Pool, Total
<1>2. CASE cost = 0
    BY <1>1, <1>2 DEF Granted
<1>3. CASE cost > 0
    <2>1. q \in Nat /\ q * cost <= Total(p)
        BY <1>1, <1>3, DivisionRoundsDown
    <2>2. Granted(p, cost, wanted) = Lesser(wanted, q)
        BY <1>3 DEF Granted
    <2> HIDE DEF q
    <2>3. Lesser(wanted, q) \in Nat /\ Lesser(wanted, q) <= wanted
                                    /\ Lesser(wanted, q) <= q
        BY <2>1 DEF Lesser
    <2>4. cost * Lesser(wanted, q) <= cost * q
        BY <2>1, <2>3
    <2> QED
        BY <1>1, <2>1, <2>2, <2>3, <2>4
<1> QED
    BY <1>2, <1>3

\* A charge the pools can pay overdraws neither of them, adds up to the
\* price, and takes no top-up credit while a subscription credit is left.
THEOREM TakenWithinPools ==
    ASSUME NEW p \in Pool, NEW amount \in 0 .. Total(p)
    PROVE  /\ Taken(p, amount) \in Pool
           /\ Minus(p, Taken(p, amount)) \in Pool
           /\ Total(Taken(p, amount)) = amount
           /\ Taken(p, amount).top > 0 => Taken(p, amount).sub = p.sub
BY DEF Pool, Total, Taken, Minus, Lesser

\* A refund of a charge leaves a pair of balances.
LEMMA PlusInPool ==
    ASSUME NEW p \in Pool, NEW c \in Pool
    PROVE  Plus(p, c) \in Pool
BY DEF Pool, Plus

\* A job's part of a charge is the rounded-down part, or that and the
\* remainder; it is never negative and never more than the whole.
LEMMA PartBounds ==
    ASSUME NEW a \in Nat, NEW n \in Nat, n > 0, NEW i \in Nat
    PROVE  /\ PartOf(a, n, i) \in Nat
           /\ i # 1 => PartOf(a, n, i) = a \div n
           /\ i = 1 => PartOf(a, n, i) \in (a \div n) .. ((a \div n) + n - 1)
<1> DEFINE q == a \div n
<1>1. q \in Nat /\ q * n <= a /\ a - q * n < n
    BY DivisionRoundsDown
<1>2. PartOf(a, n, i) = q + (IF i = 1 THEN a - q * n ELSE 0)
    BY DEF PartOf
<1> HIDE DEF q
<1>3. q * n \in Nat
    BY <1>1
<1>4. PartOf(a, n, i) \in Nat /\ (i # 1 => PartOf(a, n, i) = q)
                             /\ (i = 1 => PartOf(a, n, i) \in q .. (q + n - 1))
    BY <1>1, <1>2, <1>3
<1> QED
    BY <1>4 DEF q

\* A job's share of a batch's charge is a charge: no part of it is negative.
LEMMA ShareInPool ==
    ASSUME NEW c \in Pool, NEW n \in Nat, n > 0, NEW i \in Nat
    PROVE  Share(c, n, i) \in Pool
<1>1. c.sub \in Nat /\ c.top \in Nat
    BY DEF Pool
<1>2. PartOf(c.sub, n, i) \in Nat /\ PartOf(c.top, n, i) \in Nat
    BY <1>1, PartBounds
<1> QED
    BY <1>2 DEF Share, Pool

\* A factor both sides share can be cancelled.
LEMMA CancelFactor ==
    ASSUME NEW x \in Int, NEW y \in Int, NEW n \in Nat, n > 0, x * n < y * n
    PROVE  x < y
<1>1. SUFFICES ASSUME y <= x PROVE FALSE
    OBVIOUS
<1>2. x - y \in Nat
    BY <1>1
<1>3. (x - y) * n \in Nat
    BY <1>2
<1> QED
    BY <1>3

\* In a batch of n outputs at `cost` credits each, every job but the first
\* is charged its price or one credit less, and the first one at most one
\* credit more for each of the others: no job's refund is far from its
\* price, however the batch was spread over the two pools.
THEOREM SharesNearThePrice ==
    ASSUME NEW c \in Pool, NEW cost \in Nat, NEW n \in Nat, n > 0,
           Total(c) = cost * n, NEW i \in 1 .. n
    PROVE  LET s == Total(Share(c, n, i)) IN
           IF i = 1 THEN s \in cost .. (cost + n - 1) ELSE s \in {cost - 1, cost}
<1> DEFINE a == c.sub \div n
           b == c.top \div n
           d == c.sub - a * n
           e == c.top - b * n
<1>1. c.sub \in Nat /\ c.top \in Nat
    BY DEF Pool
<1>2. /\ a \in Nat /\ a * n <= c.sub /\ c.sub - a * n < n
      /\ b \in Nat /\ b * n <= c.top /\ c.top - b * n < n
    BY <1>1, DivisionRoundsDown
<1>3. Share(c, n, i) = [sub |-> a + (IF i = 1 THEN d ELSE 0),
                        top |-> b + (IF i = 1 THEN e ELSE 0)]
    BY DEF Share, PartOf
<1>4. Total(Share(c, n, i)) = a + b + (IF i = 1 THEN d + e ELSE 0)
    BY <1>1, <1>2, <1>3 DEF Total
<1> HIDE DEF a, b
<1>5. a * n \in Nat /\ b * n \in Nat /\ cost * n \in Nat
    BY <1>2
<1>6. d \in Nat /\ e \in Nat /\ d < n /\ e < n /\ cost * n = a * n + b * n + d + e
    BY <1>1, <1>2, <1>5 DEF Total
<1>7. /\ cost * n < (a + b + 2) * n
      /\ (a + b - 1) * n < cost * n
    BY <1>2, <1>5, <1>6
<1>8. cost < a + b + 2 /\ a + b - 1 < cost
    BY <1>2, <1>7, CancelFactor
<1>9. d + e = (cost - a - b) * n
    BY <1>2, <1>5, <1>6
<1>10. CASE cost = a + b
    <2>1. d + e = 0
        BY <1>2, <1>9, <1>10
    <2> QED
        BY <1>2, <1>4, <1>10, <2>1
<1>11. CASE cost = a + b + 1
    <2>1. d + e = n
        BY <1>2, <1>9, <1>11
    <2> QED
        BY <1>2, <1>4, <1>11, <2>1
<1> QED
    BY <1>2, <1>8, <1>10, <1>11
-----------------------------------------------------------------------------
(* Sums over finite sets: SumFunctionOnSet of Functions, a fold whose order *)
(* is chosen and does not matter.                                          *)

\* Induction on the natural numbers, for a set in the place of a predicate.
LEMMA NatSetInduction ==
    ASSUME NEW P, 0 \in P, \A n \in Nat : n \in P => n + 1 \in P
    PROVE  \A n \in Nat : n \in P
<1> DEFINE Rest == Nat \ P
<1> SUFFICES ASSUME Rest # {} PROVE FALSE
    OBVIOUS
<1>1. \A m, n \in Nat : m < n => <<m, n>> \in OpToRel(<, Nat)
    BY DEF OpToRel
<1>2. PICK x \in Rest : \A y \in Rest : ~(<<y, x>> \in OpToRel(<, Nat))
    <2>1. Rest \subseteq Nat
        OBVIOUS
    <2> HIDE DEF Rest
    <2> QED
        BY <2>1, WFMin, NatLessThanWellFounded
<1>3. x \in Nat /\ x # 0
    BY <1>2
<1>4. x - 1 \in Nat /\ x - 1 < x /\ (x - 1) + 1 = x
    BY <1>3
<1>5. x - 1 \in P
    BY <1>1, <1>2, <1>3, <1>4
<1> QED
    BY <1>2, <1>4, <1>5

\* A set of n + 1 elements has n others than any of them.
LEMMA RemoveOne ==
    ASSUME NEW T, IsFiniteSet(T), NEW n \in Nat, Cardinality(T) = n + 1, NEW x \in T
    PROVE  IsFiniteSet(T \ {x}) /\ Cardinality(T \ {x}) = n
BY FS_RemoveElement

\* Induction on the subsets of a finite set.
LEMMA SubsetInduction ==
    ASSUME NEW S, IsFiniteSet(S), NEW P, {} \in P,
           \A T \in SUBSET S, x \in S : T \in P /\ x \notin T => T \union {x} \in P
    PROVE  \A T \in SUBSET S : T \in P
<1> DEFINE N == {n \in Nat : \A T \in SUBSET S : Cardinality(T) = n => T \in P}
<1>1. \A T \in SUBSET S : IsFiniteSet(T) /\ Cardinality(T) \in Nat
    BY FS_Subset, FS_CardinalityType
<1>2. 0 \in N
    BY <1>1, FS_EmptySet
<1>3. ASSUME NEW n \in Nat, n \in N
      PROVE  n + 1 \in N
    <2> SUFFICES ASSUME NEW T \in SUBSET S, Cardinality(T) = n + 1
                 PROVE  T \in P
        OBVIOUS
    <2>0. T # {} /\ IsFiniteSet(T)
        BY <1>1, FS_EmptySet
    <2>1. PICK x : x \in T
        BY <2>0
    <2>2. Cardinality(T \ {x}) = n
        BY <2>0, <2>1, RemoveOne
    <2>3. T \ {x} \in P
        BY <1>3, <2>2
    <2>4. (T \ {x}) \union {x} \in P
        BY <2>1, <2>3
    <2>5. (T \ {x}) \union {x} = T
        BY <2>1
    <2> QED
        BY <2>4, <2>5
<1> HIDE DEF N
<1>4. \A n \in Nat : n \in N
    BY <1>2, <1>3, NatSetInduction
<1> QED
    BY <1>1, <1>4 DEF N

\* The recursion that SumFunctionOnSet(f, S) solves.
Adds(f, S, g) ==
    g = [T \in SUBSET S |-> IF T = {} THEN 0
                            ELSE LET x == CHOOSE x \in T : TRUE IN f[x] + g[T \ {x}]]

\* The sum is the value of a solution.
LEMMA SumIsFold ==
    ASSUME NEW f, NEW S
    PROVE  SumFunctionOnSet(f, S) = (CHOOSE g : Adds(f, S, g))[S]
BY DEF SumFunctionOnSet, FoldFunctionOnSet, MapThenFoldSet, Adds

\* The element that is taken out of a set.
First(T) == CHOOSE x \in T : TRUE

\* A solution takes the elements out one by one.
LEMMA AddsStep ==
    ASSUME NEW f, NEW S, NEW g, Adds(f, S, g), NEW T \in SUBSET S
    PROVE  /\ T = {} => g[T] = 0
           /\ T # {} => First(T) \in T /\ g[T] = f[First(T)] + g[T \ {First(T)}]
BY DEF Adds, First

\* The recursion has a solution.
LEMMA AddsExists ==
    ASSUME NEW S, IsFiniteSet(S), NEW f
    PROVE  \E g : Adds(f, S, g)
<1> DEFINE Small(n) == {T \in SUBSET S : Cardinality(T) <= n}
           Sums(g, n) == g = [T \in Small(n) |-> IF T = {} THEN 0
                                ELSE f[First(T)] + g[T \ {First(T)}]]
           N == {n \in Nat : \E g : Sums(g, n)}
<1>0. \A T \in SUBSET S : IsFiniteSet(T) /\ Cardinality(T) \in Nat
                            /\ Cardinality(T) <= Cardinality(S)
    BY FS_Subset, FS_CardinalityType
<1>1. \A T \in SUBSET S : T # {} =>
         /\ First(T) \in T /\ T \ {First(T)} \in SUBSET S
         /\ Cardinality(T \ {First(T)}) = Cardinality(T) - 1
    BY <1>0, FS_RemoveElement DEF First
<1>2. 0 \in N
    <2>1. Small(0) = {{}}
        BY <1>0, FS_EmptySet
    <2>2. Sums([T \in {{}} |-> 0], 0)
        BY <2>1
    <2> QED
        BY <2>2
<1>3. ASSUME NEW n \in Nat, n \in N
      PROVE  n + 1 \in N
    <2>1. PICK g : Sums(g, n)
        BY <1>3
    <2> DEFINE h == [T \in Small(n + 1) |-> IF T = {} THEN 0
                                            ELSE f[First(T)] + g[T \ {First(T)}]]
    <2>2. \A T \in Small(n) : h[T] = g[T]
        <3>1. \A T \in Small(n) : T \in Small(n + 1)
            BY <1>0
        <3>2. \A T \in Small(n) : g[T] = IF T = {} THEN 0 ELSE f[First(T)] + g[T \ {First(T)}]
            BY <2>1
        <3> HIDE DEF Small
        <3> QED
            BY <3>1, <3>2
    <2>3. \A T \in Small(n + 1) : T # {} => T \ {First(T)} \in Small(n)
        BY <1>0, <1>1
    <2>4. \A T \in Small(n + 1) : T # {} => h[T \ {First(T)}] = g[T \ {First(T)}]
        BY <2>2, <2>3
    <2>5. Sums(h, n + 1)
        <3>1. \A T \in Small(n + 1) :
                h[T] = IF T = {} THEN 0 ELSE f[First(T)] + h[T \ {First(T)}]
            BY <2>4
        <3>2. h = [T \in Small(n + 1) |-> h[T]]
            OBVIOUS
        <3> HIDE DEF Small, h
        <3> QED
            BY <3>1, <3>2
    <2> HIDE DEF h, Sums
    <2> QED
        BY <2>5
<1> HIDE DEF N
<1>4. Cardinality(S) \in N
    BY <1>0, <1>2, <1>3, NatSetInduction
<1>5. Small(Cardinality(S)) = SUBSET S
    BY <1>0
<1>6. PICK g : Sums(g, Cardinality(S))
    BY <1>4 DEF N
<1>7. Adds(f, S, g)
    BY <1>5, <1>6 DEF Adds, First
<1> QED
    BY <1>7

\* The sum of a finite set is a solution's value there, whatever larger set
\* the solution is for.
LEMMA AddsSame ==
    ASSUME NEW S, IsFiniteSet(S), NEW f,
           NEW A \in SUBSET S, NEW g, NEW h, Adds(f, S, g), Adds(f, A, h)
    PROVE  \A T \in SUBSET A : g[T] = h[T]
<1> DEFINE P == {T \in SUBSET A : g[T] = h[T]}
           N == {n \in Nat : \A T \in SUBSET A : Cardinality(T) = n => g[T] = h[T]}
<1>0. \A T \in SUBSET A : IsFiniteSet(T) /\ Cardinality(T) \in Nat
    BY FS_Subset, FS_CardinalityType
<1>1. \A T \in SUBSET A : T # {} =>
         /\ First(T) \in T /\ T \ {First(T)} \in SUBSET A
         /\ Cardinality(T \ {First(T)}) = Cardinality(T) - 1
    BY <1>0, FS_RemoveElement DEF First
<1>2. 0 \in N
    <2>1. \A T \in SUBSET A : Cardinality(T) = 0 => T = {}
        BY <1>0, FS_EmptySet
    <2>2. {} \in SUBSET A /\ {} \in SUBSET S
        OBVIOUS
    <2>3. g[{}] = 0 /\ h[{}] = 0
        BY <2>2, AddsStep
    <2> QED
        BY <2>1, <2>3
<1>3. ASSUME NEW n \in Nat, n \in N
      PROVE  n + 1 \in N
    <2> SUFFICES ASSUME NEW T \in SUBSET A, Cardinality(T) = n + 1
                 PROVE  g[T] = h[T]
        OBVIOUS
    <2>1. T # {}
        BY FS_EmptySet
    <2>2. g[T \ {First(T)}] = h[T \ {First(T)}]
        BY <1>1, <1>3, <2>1
    <2> QED
        BY <2>1, <2>2, AddsStep
<1> HIDE DEF N
<1>4. \A n \in Nat : n \in N
    BY <1>2, <1>3, NatSetInduction
<1> QED
    BY <1>0, <1>4 DEF N

\* SumFunctionOnSet, for the subsets of a finite set.
LEMMA SumIsSolution ==
    ASSUME NEW S, IsFiniteSet(S), NEW f
    PROVE  \E g : Adds(f, S, g) /\ \A T \in SUBSET S : SumFunctionOnSet(f, T) = g[T]
<1>1. PICK g : Adds(f, S, g)
    BY AddsExists
<1>2. ASSUME NEW T \in SUBSET S
      PROVE  SumFunctionOnSet(f, T) = g[T]
    <2> DEFINE h == CHOOSE h : Adds(f, T, h)
    <2>1. IsFiniteSet(T)
        BY FS_Subset
    <2>2. Adds(f, T, h)
        BY <2>1, AddsExists
    <2> HIDE DEF h
    <2>3. g[T] = h[T]
        BY <1>1, <2>2, AddsSame
    <2> QED
        BY <2>3, SumIsFold DEF h
<1> QED
    BY <1>1, <1>2

\* The empty sum is 0, and sums of integers are integers.
LEMMA SumType ==
    ASSUME NEW S, IsFiniteSet(S), NEW f, \A x \in S : f[x] \in Int
    PROVE  /\ SumFunctionOnSet(f, {}) = 0
           /\ SumFunctionOnSet(f, S) \in Int
<1>1. PICK g : Adds(f, S, g) /\ \A T \in SUBSET S : SumFunctionOnSet(f, T) = g[T]
    BY SumIsSolution
<1> DEFINE N == {n \in Nat : \A T \in SUBSET S : Cardinality(T) = n => g[T] \in Int}
<1>2. \A T \in SUBSET S : IsFiniteSet(T) /\ Cardinality(T) \in Nat
    BY FS_Subset, FS_CardinalityType
<1>3. 0 \in N
    <2>1. \A T \in SUBSET S : Cardinality(T) = 0 => T = {}
        BY <1>2, FS_EmptySet
    <2> QED
        BY <1>1, <2>1, AddsStep
<1>4. ASSUME NEW n \in Nat, n \in N
      PROVE  n + 1 \in N
    <2> SUFFICES ASSUME NEW T \in SUBSET S, Cardinality(T) = n + 1
                 PROVE  g[T] \in Int
        OBVIOUS
    <2>1. T # {} /\ IsFiniteSet(T)
        BY <1>2, FS_EmptySet
    <2>2. First(T) \in T /\ g[T] = f[First(T)] + g[T \ {First(T)}]
        BY <1>1, <2>1, AddsStep
    <2>3. Cardinality(T \ {First(T)}) = n
        BY <2>1, <2>2, RemoveOne
    <2>4. g[T \ {First(T)}] \in Int
        BY <1>4, <2>3
    <2> QED
        BY <2>2, <2>4
<1> HIDE DEF N
<1>5. \A n \in Nat : n \in N
    BY <1>3, <1>4, NatSetInduction
<1>6. g[S] \in Int
    BY <1>2, <1>5 DEF N
<1>7. g[{}] = 0
    BY <1>1, AddsStep
<1> QED
    BY <1>1, <1>6, <1>7

\* One more element adds its value, whatever the order the fold chooses.
LEMMA SumAdd ==
    ASSUME NEW S, IsFiniteSet(S), NEW f, NEW z, z \notin S,
           \A x \in S \union {z} : f[x] \in Int
    PROVE  SumFunctionOnSet(f, S \union {z}) = SumFunctionOnSet(f, S) + f[z]
<1> DEFINE A == S \union {z}
<1>1. IsFiniteSet(A)
    BY FS_AddElement
<1>0. /\ \A x \in A : f[x] \in Int
      /\ S \in SUBSET A /\ z \in A /\ S \union {z} = A
    OBVIOUS
<1> HIDE DEF A
<1>2. PICK g : Adds(f, A, g) /\ \A T \in SUBSET A : SumFunctionOnSet(f, T) = g[T]
    BY <1>1, SumIsSolution
<1>3. \A T \in SUBSET A : IsFiniteSet(T) /\ Cardinality(T) \in Nat
    BY <1>1, FS_Subset, FS_CardinalityType
<1>4. \A T \in SUBSET A : g[T] \in Int
    <2> SUFFICES ASSUME NEW T \in SUBSET A PROVE SumFunctionOnSet(f, T) \in Int
        BY <1>2
    <2>1. IsFiniteSet(T) /\ \A x \in T : f[x] \in Int
        BY <1>0, <1>3
    <2> QED
        BY <2>1, SumType
<1> DEFINE N == {n \in Nat : \A T \in SUBSET A, x \in A :
                    Cardinality(T) = n /\ x \notin T => g[T \union {x}] = g[T] + f[x]}
<1>5. \A T \in SUBSET A : T # {} => First(T) \in T /\ g[T] = f[First(T)] + g[T \ {First(T)}]
    BY <1>2, AddsStep
<1>6. g[{}] = 0
    BY <1>2, AddsStep
<1>7. 0 \in N
    <2> SUFFICES ASSUME NEW T \in SUBSET A, NEW x \in A, Cardinality(T) = 0, x \notin T
                 PROVE  g[T \union {x}] = g[T] + f[x]
        OBVIOUS
    <2>1. T = {}
        BY <1>3, FS_EmptySet
    <2>2. First({x}) = x
        BY DEF First
    <2>3. g[{x}] = f[x] + g[{x} \ {x}]
        BY <1>5, <2>2
    <2>4. {x} \ {x} = {} /\ {} \union {x} = {x}
        OBVIOUS
    <2>5. f[x] \in Int
        BY <1>0
    <2>6. g[{x}] = f[x] + 0
        BY <1>6, <2>3, <2>4
    <2>7. g[{} \union {x}] = g[{}] + f[x]
        BY <1>6, <2>4, <2>5, <2>6
    <2> QED
        BY <2>1, <2>7
<1>8. ASSUME NEW n \in Nat, n \in N
      PROVE  n + 1 \in N
    <2> SUFFICES ASSUME NEW T \in SUBSET A, NEW x \in A, Cardinality(T) = n + 1, x \notin T
                 PROVE  g[T \union {x}] = g[T] + f[x]
        OBVIOUS
    <2> DEFINE U == T \union {x}
               c == First(U)
    <2>1. U \in SUBSET A /\ c \in U /\ g[U] = f[c] + g[U \ {c}]
        BY <1>5
    <2> HIDE DEF c, U
    <2>2. f[x] \in Int /\ f[c] \in Int
        BY <1>0, <2>1 DEF U
    <2>3. CASE c = x
        <3>1. U \ {c} = T
            BY <2>3 DEF U
        <3>2. g[U] = f[x] + g[T] /\ g[T] \in Int
            BY <1>4, <2>1, <2>3, <3>1
        <3> QED
            BY <2>2, <3>2 DEF U
    <2>4. CASE c # x
        <3> DEFINE V == T \ {c}
        <3>1. c \in T /\ V \in SUBSET A /\ x \notin V /\ c \notin V
            BY <2>1, <2>4 DEF U
        <3>2. Cardinality(V) = n
            BY <1>3, <3>1, RemoveOne
        <3>3. U \ {c} = V \union {x} /\ T = V \union {c}
            BY <2>4, <3>1 DEF U
        <3> HIDE DEF V
        <3>4. g[V \union {x}] = g[V] + f[x] /\ g[V \union {c}] = g[V] + f[c]
            BY <1>8, <3>1, <3>2
        <3>5. g[V] \in Int
            BY <1>4, <3>1
        <3>6. g[U] = f[c] + (g[V] + f[x]) /\ g[T] = g[V] + f[c]
            BY <2>1, <3>3, <3>4
        <3> QED
            BY <2>2, <3>5, <3>6 DEF U
    <2> QED
        BY <2>3, <2>4
<1> HIDE DEF N
<1>9. \A n \in Nat : n \in N
    BY <1>7, <1>8, NatSetInduction
<1>10. g[S \union {z}] = g[S] + f[z]
    BY <1>0, <1>3, <1>9 DEF N
<1>11. S \union {z} \in SUBSET A
    BY <1>0
<1> QED
    BY <1>0, <1>2, <1>10, <1>11

\* Two functions with the same values have the same sum.
LEMMA SumSame ==
    ASSUME NEW S, IsFiniteSet(S), NEW f, NEW g, \A x \in S : f[x] \in Int /\ g[x] = f[x]
    PROVE  SumFunctionOnSet(g, S) = SumFunctionOnSet(f, S)
<1> DEFINE P == {T \in SUBSET S : SumFunctionOnSet(g, T) = SumFunctionOnSet(f, T)}
<1>1. {} \in P
    <2>1. SumFunctionOnSet(g, {}) = 0 /\ SumFunctionOnSet(f, {}) = 0
        BY FS_EmptySet, SumType
    <2> QED
        BY <2>1
<1>2. ASSUME NEW T \in SUBSET S, NEW x \in S, T \in P, x \notin T
      PROVE  T \union {x} \in P
    <2>1. IsFiniteSet(T)
        BY FS_Subset
    <2>2. /\ SumFunctionOnSet(f, T \union {x}) = SumFunctionOnSet(f, T) + f[x]
          /\ SumFunctionOnSet(g, T \union {x}) = SumFunctionOnSet(g, T) + g[x]
        BY <2>1, <1>2, SumAdd
    <2> QED
        BY <1>2, <2>2
<1> HIDE DEF P
<1>3. \A T \in SUBSET S : T \in P
    BY <1>1, <1>2, SubsetInduction
<1> QED
    BY <1>3 DEF P

\* A sum of zeros is zero.
LEMMA SumZero ==
    ASSUME NEW S, IsFiniteSet(S), NEW f, \A x \in S : f[x] = 0
    PROVE  SumFunctionOnSet(f, S) = 0
<1> DEFINE P == {T \in SUBSET S : SumFunctionOnSet(f, T) = 0}
<1>1. {} \in P
    BY FS_EmptySet, SumType
<1>2. ASSUME NEW T \in SUBSET S, NEW x \in S, T \in P, x \notin T
      PROVE  T \union {x} \in P
    <2>1. IsFiniteSet(T)
        BY FS_Subset
    <2>2. SumFunctionOnSet(f, T \union {x}) = SumFunctionOnSet(f, T) + f[x]
        <3>1. \A y \in T \union {x} : f[y] \in Int
            OBVIOUS
        <3> HIDE DEF P
        <3> QED
            BY <1>2, <2>1, <3>1, SumAdd
    <2>3. f[x] = 0 /\ SumFunctionOnSet(f, T) = 0
        BY <1>2
    <2> QED
        BY <2>2, <2>3
<1> HIDE DEF P
<1>3. \A T \in SUBSET S : T \in P
    BY <1>1, <1>2, SubsetInduction
<1> QED
    BY <1>3 DEF P

\* The sum over two sets without a common element.
LEMMA SumUnion ==
    ASSUME NEW S, IsFiniteSet(S), NEW R, IsFiniteSet(R), S \cap R = {},
           NEW f, \A x \in S \union R : f[x] \in Int
    PROVE  SumFunctionOnSet(f, R \union S) = SumFunctionOnSet(f, R) + SumFunctionOnSet(f, S)
<1> DEFINE P == {T \in SUBSET S : SumFunctionOnSet(f, R \union T) =
                                  SumFunctionOnSet(f, R) + SumFunctionOnSet(f, T)}
<1>0. \A T \in SUBSET S : /\ IsFiniteSet(T) /\ IsFiniteSet(R \union T)
                           /\ SumFunctionOnSet(f, T) \in Int
    <2> SUFFICES ASSUME NEW T \in SUBSET S
                 PROVE  /\ IsFiniteSet(T) /\ IsFiniteSet(R \union T)
                        /\ SumFunctionOnSet(f, T) \in Int
        OBVIOUS
    <2>1. IsFiniteSet(T)
        BY FS_Subset
    <2> QED
        BY <2>1, FS_Union, SumType
<1>00. SumFunctionOnSet(f, R) \in Int
    BY SumType
<1>1. {} \in P
    <2>1. SumFunctionOnSet(f, {}) = 0 /\ R \union {} = R
        BY FS_EmptySet, SumType
    <2> QED
        BY <1>00, <2>1
<1>2. ASSUME NEW T \in SUBSET S, NEW x \in S, T \in P, x \notin T
      PROVE  T \union {x} \in P
    <2>0. SumFunctionOnSet(f, R \union T) = SumFunctionOnSet(f, R) + SumFunctionOnSet(f, T)
        BY <1>2
    <2> HIDE DEF P
    <2>1. SumFunctionOnSet(f, T \union {x}) = SumFunctionOnSet(f, T) + f[x]
        <3>1. \A y \in T \union {x} : f[y] \in Int
            OBVIOUS
        <3>2. IsFiniteSet(T)
            BY <1>0
        <3> QED
            BY <1>2, <3>1, <3>2, SumAdd
    <2>2. SumFunctionOnSet(f, (R \union T) \union {x}) = SumFunctionOnSet(f, R \union T) + f[x]
        <3>1. x \notin R \union T
            BY <1>2
        <3>2. \A y \in (R \union T) \union {x} : f[y] \in Int
            OBVIOUS
        <3>3. IsFiniteSet(R \union T)
            BY <1>0
        <3> QED
            BY <3>1, <3>2, <3>3, SumAdd
    <2>3. (R \union T) \union {x} = R \union (T \union {x}) /\ f[x] \in Int
        OBVIOUS
    <2>4. SumFunctionOnSet(f, T) \in Int /\ SumFunctionOnSet(f, R) \in Int
        BY <1>0, <1>00
    <2>5. SumFunctionOnSet(f, R \union (T \union {x})) =
             SumFunctionOnSet(f, R) + SumFunctionOnSet(f, T \union {x})
        <3>1. SumFunctionOnSet(f, R \union (T \union {x})) = SumFunctionOnSet(f, R \union T) + f[x]
            BY <2>2, <2>3
        <3> DEFINE all == SumFunctionOnSet(f, R \union (T \union {x}))
                   r == SumFunctionOnSet(f, R)
                   t == SumFunctionOnSet(f, T)
        <3>2. all = (r + t) + f[x] /\ r \in Int /\ t \in Int /\ f[x] \in Int
            BY <2>0, <2>3, <2>4, <3>1
        <3>3. SumFunctionOnSet(f, T \union {x}) = t + f[x]
            BY <2>1
        <3> HIDE DEF all, r, t
        <3>4. all = r + (t + f[x])
            BY <3>2
        <3> QED
            BY <3>3, <3>4 DEF all, r
    <2> QED
        BY <2>5 DEF P
<1> HIDE DEF P
<1>3. \A T \in SUBSET S : T \in P
    BY <1>1, <1>2, SubsetInduction
<1> QED
    BY <1>3 DEF P

\* A sum is its value at one element and the sum of the rest.
LEMMA SumRemove ==
    ASSUME NEW S, IsFiniteSet(S), NEW f, \A x \in S : f[x] \in Int, NEW z \in S
    PROVE  SumFunctionOnSet(f, S) = SumFunctionOnSet(f, S \ {z}) + f[z]
<1> DEFINE T == S \ {z}
<1>1. IsFiniteSet(T)
    BY FS_RemoveElement
<1>2. z \notin T /\ \A x \in T \union {z} : f[x] \in Int
    OBVIOUS
<1>3. T \union {z} = S
    OBVIOUS
<1> HIDE DEF T
<1>4. SumFunctionOnSet(f, T \union {z}) = SumFunctionOnSet(f, T) + f[z]
    BY <1>1, <1>2, SumAdd
<1> QED
    BY <1>3, <1>4 DEF T

\* A value that changes changes the sum by as much.
LEMMA SumChange ==
    ASSUME NEW S, IsFiniteSet(S), NEW f, NEW g, NEW z \in S,
           \A x \in S : f[x] \in Int /\ g[x] \in Int,
           \A x \in S \ {z} : g[x] = f[x]
    PROVE  SumFunctionOnSet(g, S) = SumFunctionOnSet(f, S) - f[z] + g[z]
<1> DEFINE T == S \ {z}
<1>1. IsFiniteSet(T)
    BY FS_RemoveElement
<1>2. /\ SumFunctionOnSet(f, S) = SumFunctionOnSet(f, T) + f[z]
      /\ SumFunctionOnSet(g, S) = SumFunctionOnSet(g, T) + g[z]
    BY SumRemove
<1>3. \A x \in T : f[x] \in Int /\ g[x] = f[x]
    OBVIOUS
<1> HIDE DEF T
<1>4. SumFunctionOnSet(g, T) = SumFunctionOnSet(f, T) /\ SumFunctionOnSet(f, T) \in Int
    BY <1>1, <1>3, SumSame, SumType
<1> QED
    BY <1>2, <1>4

\* The parts of a charge of one pool, in whatever order they are kept, add
\* up to that charge.
LEMMA PartsAddUp ==
    ASSUME NEW a \in Nat, NEW n \in Nat, n > 0, NEW e, NEW f,
           \A i, k \in 1 .. n : e[i] = e[k] => i = k,
           \A i \in 1 .. n : f[e[i]] = PartOf(a, n, i)
    PROVE  SumFunctionOnSet(f, {e[i] : i \in 1 .. n}) = a
<1> DEFINE q == a \div n
           S(m) == {e[i] : i \in 1 .. m}
           sum(m) == IF m = 0 THEN 0 ELSE a - q * n + q * m
           N == {m \in Nat : m <= n => /\ IsFiniteSet(S(m))
                                      /\ SumFunctionOnSet(f, S(m)) = sum(m)}
<1>0. q \in Nat /\ q * n <= a /\ q * n \in Nat
    BY DivisionRoundsDown
<1>1. \A i \in 1 .. n : f[e[i]] = q + (IF i = 1 THEN a - q * n ELSE 0)
    BY DEF PartOf
<1> HIDE DEF q
<1>2. 0 \in N
    <2>1. S(0) = {}
        OBVIOUS
    <2> HIDE DEF S
    <2> QED
        BY <2>1, FS_EmptySet, SumType
<1>3. ASSUME NEW m \in Nat, m \in N
      PROVE  m + 1 \in N
    <2> SUFFICES ASSUME m + 1 <= n
                 PROVE  /\ IsFiniteSet(S(m + 1))
                        /\ SumFunctionOnSet(f, S(m + 1)) = sum(m + 1)
        OBVIOUS
    <2> DEFINE z == e[m + 1]
    <2>1. S(m + 1) = S(m) \union {z} /\ z \notin S(m)
        OBVIOUS
    <2>2. \A x \in S(m) \union {z} : f[x] \in Int
        BY <1>0, <1>1
    <2>3. IsFiniteSet(S(m)) /\ SumFunctionOnSet(f, S(m)) = sum(m)
        BY <1>3
    <2>4. f[z] = q + (IF m = 0 THEN a - q * n ELSE 0)
        BY <1>1
    <2> HIDE DEF S, z
    <2>5. IsFiniteSet(S(m + 1))
        BY <2>1, <2>3, FS_AddElement
    <2>6. SumFunctionOnSet(f, S(m + 1)) = sum(m) + f[z]
        <3>1. SumFunctionOnSet(f, S(m) \union {z}) = SumFunctionOnSet(f, S(m)) + f[z]
            <4>1. z \notin S(m) /\ IsFiniteSet(S(m))
                BY <2>1, <2>3
            <4> HIDE DEF sum
            <4> QED
                BY <2>2, <4>1, SumAdd
        <3> QED
            BY <2>1, <2>3, <3>1
    <2>7. q * m \in Nat /\ q * (m + 1) = q * m + q
        BY <1>0
    <2>8. sum(m) + f[z] = sum(m + 1)
        BY <1>0, <2>4, <2>7
    <2> QED
        BY <2>5, <2>6, <2>8
<1> HIDE DEF N
<1>4. n \in N
    BY <1>2, <1>3, NatSetInduction
<1>5. SumFunctionOnSet(f, S(n)) = a
    BY <1>0, <1>4 DEF N
<1> QED
    BY <1>5

\* Between f and g, n jobs of r are inserted with the parts of the charge a.
ChargesBatch(J, r, n, a, f, g) ==
    /\ n \in Nat /\ n > 0 /\ a \in Nat
    /\ {r} \X (1 .. n) \subseteq J
    /\ \A j \in J : f[j] \in Int
    /\ \A j \in J \ ({r} \X (1 .. n)) : g[j] = f[j]
    /\ \A i \in 1 .. n : f[<<r, i>>] = 0 /\ g[<<r, i>>] = PartOf(a, n, i)

\* They add that charge to what all the jobs were charged.
LEMMA SharesAreAdded ==
    ASSUME NEW J, IsFiniteSet(J), NEW r, NEW n, NEW a, NEW f, NEW g,
           ChargesBatch(J, r, n, a, f, g)
    PROVE  SumFunctionOnSet(g, J) = SumFunctionOnSet(f, J) + a
<1> USE DEF ChargesBatch
<1> DEFINE B == {r} \X (1 .. n)
           R == J \ B
           e == [i \in 1 .. n |-> <<r, i>>]
<1>1. B = {e[i] : i \in 1 .. n}
    OBVIOUS
<1>2. \A i, k \in 1 .. n : e[i] = e[k] => i = k
    OBVIOUS
<1>3. \A i \in 1 .. n : e[i] = <<r, i>>
    OBVIOUS
<1>4. \A i \in 1 .. n : PartOf(a, n, i) \in Nat /\ PartOf(0, n, i) = 0
    <2>1. 0 \div n = 0
        OBVIOUS
    <2> QED
        BY <2>1, PartBounds DEF PartOf
<1>5. \A j \in J : g[j] \in Int
    BY <1>4
<1>6. J = R \union B /\ B \cap R = {} /\ R \subseteq J /\ B \subseteq J
    OBVIOUS
<1> HIDE DEF B, R, e
<1>7. SumFunctionOnSet(f, B) = 0
    <2>1. \A i \in 1 .. n : f[e[i]] = PartOf(0, n, i)
        BY <1>3, <1>4
    <2>2. SumFunctionOnSet(f, {e[i] : i \in 1 .. n}) = 0
        BY <1>2, <2>1, PartsAddUp
    <2> QED
        BY <1>1, <2>2
<1>8. SumFunctionOnSet(g, B) = a
    <2>1. \A i \in 1 .. n : g[e[i]] = PartOf(a, n, i)
        BY <1>3
    <2>2. SumFunctionOnSet(g, {e[i] : i \in 1 .. n}) = a
        BY <1>2, <2>1, PartsAddUp
    <2> QED
        BY <1>1, <2>2
<1>9. IsFiniteSet(R) /\ IsFiniteSet(B)
    BY <1>6, FS_Subset
<1>10. /\ SumFunctionOnSet(f, R \union B) = SumFunctionOnSet(f, R) + SumFunctionOnSet(f, B)
       /\ SumFunctionOnSet(g, R \union B) = SumFunctionOnSet(g, R) + SumFunctionOnSet(g, B)
    BY <1>5, <1>6, <1>9, SumUnion
<1>11. SumFunctionOnSet(g, R) = SumFunctionOnSet(f, R) /\ SumFunctionOnSet(f, R) \in Int
    <2>1. \A j \in R : f[j] \in Int /\ g[j] = f[j]
        BY DEF R, B
    <2> QED
        BY <1>9, <2>1, SumSame, SumType
<1> QED
    BY <1>6, <1>7, <1>8, <1>10, <1>11
=============================================================================
