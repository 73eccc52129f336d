---------------------------- MODULE SumTheorems ----------------------------
(* Facts about sums over finite sets, induction and ranks in an order.      *)
EXTENDS Sums, FiniteSetTheorems, WellFoundedInduction, TLAPS

\* A unit is an element of the set and a number up to its value.
LEMMA UnitIs ==
  ASSUME NEW f, NEW S, NEW u
  PROVE  u \in Units(f, S) <=> u = <<u[1], u[2]>> /\ u[1] \in S /\ u[2] \in 1 .. f[u[1]]
  BY DEF Units

\* There are finitely many.
LEMMA UnitsFinite ==
  ASSUME NEW S, IsFiniteSet(S), NEW f, \A c \in S : f[c] \in Nat
  PROVE  IsFiniteSet(Units(f, S))
<1> DEFINE T == {{c} \X (1 .. f[c]) : c \in S}
           g == [c \in S |-> {c} \X (1 .. f[c])]
<1>1. g \in Surjection(S, T)
  BY DEF Surjection
<1>2. IsFiniteSet(T)
  BY <1>1, FS_Surjection
<1>3. ASSUME NEW c \in S PROVE IsFiniteSet({c} \X (1 .. f[c]))
  <2>1. IsFiniteSet({c})
    BY FS_Singleton
  <2>2. IsFiniteSet(1 .. f[c])
    BY FS_Interval
  <2> QED BY <2>1, <2>2, FS_Product
<1>4. \A t \in T : IsFiniteSet(t)
  BY <1>3
<1> QED BY <1>2, <1>4, FS_UNION DEF Units

\* A sum of natural numbers is one.
THEOREM SumNat ==
  ASSUME NEW S, IsFiniteSet(S), NEW f, \A c \in S : f[c] \in Nat
  PROVE  Sum(f, S) \in Nat
  BY UnitsFinite, FS_CardinalityType DEF Sum

\* Only the values count.
THEOREM SumSame ==
  ASSUME NEW S, NEW f, NEW g, \A c \in S : f[c] = g[c]
  PROVE  Sum(f, S) = Sum(g, S)
<1>1. Units(f, S) = Units(g, S)
  BY DEF Units
<1> QED BY <1>1 DEF Sum

\* A sum is no larger than one of larger values over more elements; elements
\* of no value may be missing there.
THEOREM SumMonotone ==
  ASSUME NEW S, NEW T, IsFiniteSet(T), NEW f, NEW g,
         \A c \in T : g[c] \in Nat,
         \A c \in S : f[c] \in Nat /\ (f[c] > 0 => c \in T /\ f[c] <= g[c])
  PROVE  Sum(f, S) <= Sum(g, T)
<1>1. ASSUME NEW u \in Units(f, S) PROVE u \in Units(g, T)
  <2>1. u = <<u[1], u[2]>> /\ u[1] \in S /\ u[2] \in 1 .. f[u[1]]
    BY UnitIs
  <2>2. u[1] \in T /\ u[2] \in 1 .. g[u[1]]
    BY <2>1
  <2> QED BY <2>1, <2>2, UnitIs
<1>2. Units(f, S) \in SUBSET Units(g, T)
  BY <1>1
<1> QED BY <1>2, UnitsFinite, FS_Subset DEF Sum

\* One more element adds its value.
THEOREM SumAdd ==
  ASSUME NEW S, IsFiniteSet(S), NEW c, c \notin S, NEW f,
         \A b \in S \cup {c} : f[b] \in Nat
  PROVE  Sum(f, S \cup {c}) = Sum(f, S) + f[c]
<1> DEFINE A == Units(f, S)
           B == {c} \X (1 .. f[c])
<1>1. Units(f, S \cup {c}) = A \cup B
  BY DEF Units
<1>2. A \cap B = {}
  BY UnitIs
<1>3. IsFiniteSet(A)
  BY UnitsFinite
<1>4. IsFiniteSet({c}) /\ Cardinality({c}) = 1
  BY FS_Singleton
<1>5. IsFiniteSet(1 .. f[c]) /\ Cardinality(1 .. f[c]) = f[c]
  BY FS_Interval
<1>6. IsFiniteSet(B) /\ Cardinality(B) = f[c]
  BY <1>4, <1>5, FS_Product
<1>7. Cardinality({}) = 0 /\ Cardinality(A) \in Nat
  BY <1>3, FS_EmptySet, FS_CardinalityType
<1> HIDE DEF A, B
<1>8. Cardinality(A \cup B) = Cardinality(A) + f[c]
  BY <1>2, <1>3, <1>6, <1>7, FS_Union
<1> QED BY <1>1, <1>8 DEF Sum, A

\* A sum is bounded by two others if each of its values is.
THEOREM SumSplit ==
  ASSUME NEW S, IsFiniteSet(S), NEW h, NEW f, NEW g,
         \A c \in S : h[c] \in Nat /\ f[c] \in Nat /\ g[c] \in Nat /\ h[c] <= f[c] + g[c]
  PROVE  Sum(h, S) <= Sum(f, S) + Sum(g, S)
<1> DEFINE H == Units(h, S)
           A == {u \in H : u[2] <= f[u[1]]}
           B == {u \in H : u[2] > f[u[1]]}
           F == Units(f, S)
           G == Units(g, S)
           shift == [u \in B |-> <<u[1], u[2] - f[u[1]]>>]
<1>1. IsFiniteSet(F) /\ IsFiniteSet(G) /\ IsFiniteSet(H)
  BY UnitsFinite
<1>2. \A u \in H : u = <<u[1], u[2]>> /\ u[1] \in S /\ u[2] \in 1 .. h[u[1]]
  BY UnitIs
<1>3. A \cup B = H /\ A \cap B = {}
  BY <1>2
<1>4. A \in SUBSET F
  <2> SUFFICES ASSUME NEW u \in A PROVE u \in F
    OBVIOUS
  <2> QED BY <1>2, UnitIs
<1>5. shift \in Injection(B, G)
  <2>1. ASSUME NEW u \in B PROVE shift[u] \in G
    <3>1. u[1] \in S /\ u[2] - f[u[1]] \in 1 .. g[u[1]]
      BY <1>2
    <3> QED BY <3>1 DEF Units
  <2>2. ASSUME NEW u \in B, NEW v \in B, shift[u] = shift[v] PROVE u = v
    <3>1. u[1] = v[1] /\ u[2] - f[u[1]] = v[2] - f[u[1]]
      BY <2>2
    <3>2. u[2] \in Int /\ v[2] \in Int /\ f[u[1]] \in Int
      BY <1>2
    <3>3. u[2] = v[2]
      BY <3>1, <3>2
    <3> QED BY <1>2, <3>1, <3>3
  <2>3. shift \in [B -> G]
    BY <2>1
  <2> HIDE DEF shift, B, G
  <2> QED BY <2>2, <2>3 DEF Injection, IsInjective
<1> HIDE DEF H, A, B, F, G, shift
<1>6. IsFiniteSet(A) /\ Cardinality(A) <= Cardinality(F)
  BY <1>1, <1>4, FS_Subset
<1>7. IsFiniteSet(B) /\ Cardinality(B) <= Cardinality(G)
  BY <1>1, <1>5, FS_Injection
<1>8. /\ Cardinality(F) \in Nat /\ Cardinality(G) \in Nat
      /\ Cardinality(A) \in Nat /\ Cardinality(B) \in Nat
  BY <1>1, <1>6, <1>7, FS_CardinalityType
<1>9. Cardinality(H) = Cardinality(A) + Cardinality(B)
  <2>1. Cardinality(A \cup B) = Cardinality(A) + Cardinality(B) - Cardinality(A \cap B)
    BY <1>6, <1>7, FS_Union
  <2>2. Cardinality(A \cap B) = 0
    BY <1>3, FS_EmptySet
  <2>3. Cardinality(A \cup B) = Cardinality(A) + Cardinality(B)
    BY <1>8, <2>1, <2>2
  <2> QED BY <1>3, <2>3
<1> QED BY <1>6, <1>7, <1>8, <1>9 DEF Sum, H, F, G

\* A change of one value changes the sum by it.
THEOREM SumUpdate ==
  ASSUME NEW S, IsFiniteSet(S), NEW c \in S, NEW f, NEW g,
         \A b \in S : f[b] \in Nat /\ g[b] \in Nat /\ (b # c => g[b] = f[b])
  PROVE  Sum(g, S) = Sum(f, S) - f[c] + g[c]
<1> DEFINE R == S \ {c}
<1>1. IsFiniteSet(R) /\ c \notin R /\ R \cup {c} = S
  BY FS_Subset
<1>2. Sum(f, R) \in Nat /\ Sum(g, R) = Sum(f, R)
  BY <1>1, SumNat, SumSame
<1> HIDE DEF R
<1>3. Sum(f, R \cup {c}) = Sum(f, R) + f[c] /\ Sum(g, R \cup {c}) = Sum(g, R) + g[c]
  BY <1>1, SumAdd
<1> QED BY <1>1, <1>2, <1>3

-----------------------------------------------------------------------------
\* Induction over the naturals, for a set of them.
LEMMA Induct ==
    ASSUME NEW S, 0 \in S, \A n \in Nat : n \in S => n + 1 \in S
    PROVE  Nat \subseteq S
<1> DEFINE T == Nat \ S
<1>1. SUFFICES ASSUME T # {} PROVE FALSE
    OBVIOUS
<1>2. PICK m \in T : \A y \in T : ~ <<y, m>> \in OpToRel(<, Nat)
    BY <1>1, NatLessThanWellFounded, WFMin
<1>3. m \in Nat /\ m # 0
    OBVIOUS
<1>4. m - 1 \in Nat /\ m - 1 < m
    BY <1>3
<1>5. m - 1 \notin T
    BY <1>2, <1>4 DEF OpToRel
<1>6. (m - 1) + 1 \in S
    BY <1>4, <1>5
<1>7. (m - 1) + 1 = m
    BY <1>3
<1> QED BY <1>6, <1>7

\* A strict order in which any two elements of S compare, as a set of pairs.
Orders(R, S) ==
    /\ \A a \in S : <<a, a>> \notin R
    /\ \A a, b \in S : a # b => <<a, b>> \in R \/ <<b, a>> \in R
    /\ \A a, b, c \in S : <<a, b>> \in R /\ <<b, c>> \in R => <<a, c>> \in R
Rank(R, S, s) == Cardinality({r \in S : <<r, s>> \in R})

\* Each element has a rank of its own, and every rank is taken.
LEMMA RanksExist ==
    ASSUME NEW S, IsFiniteSet(S), NEW R, Orders(R, S)
    PROVE  /\ \A s \in S : Rank(R, S, s) \in 0 .. Cardinality(S) - 1
           /\ \A r, s \in S : <<r, s>> \in R => Rank(R, S, r) < Rank(R, S, s)
           /\ \A r, s \in S : Rank(R, S, r) = Rank(R, S, s) => r = s
           /\ \A n \in 0 .. Cardinality(S) - 1 : \E s \in S : Rank(R, S, s) = n
<1> DEFINE Under(s) == {r \in S : <<r, s>> \in R}
           N == Cardinality(S)
<1>1. N \in Nat
    BY FS_CardinalityType
<1>2. ASSUME NEW s \in S PROVE IsFiniteSet(Under(s)) /\ Rank(R, S, s) \in 0 .. N - 1
    <2>1. Under(s) \in SUBSET S /\ s \notin Under(s)
        BY DEF Orders
    <2>2. IsFiniteSet(Under(s)) /\ Cardinality(Under(s)) <= N /\ Under(s) # S
        BY <2>1, FS_Subset
    <2>3. Cardinality(Under(s)) # N
        BY <2>1, <2>2, FS_Subset
    <2>4. Cardinality(Under(s)) \in Nat
        BY <2>2, FS_CardinalityType
    <2> QED BY <1>1, <2>2, <2>3, <2>4 DEF Rank
<1>3. ASSUME NEW r \in S, NEW s \in S, <<r, s>> \in R PROVE Rank(R, S, r) < Rank(R, S, s)
    <2>1. Under(r) \in SUBSET Under(s)
        BY <1>3 DEF Orders
    <2>2. r \in Under(s) /\ r \notin Under(r)
        BY <1>3 DEF Orders
    <2>3. /\ Cardinality(Under(r)) <= Cardinality(Under(s))
          /\ Cardinality(Under(s)) # Cardinality(Under(r))
        BY <1>2, <2>1, <2>2, FS_Subset
    <2>4. Cardinality(Under(r)) \in Nat /\ Cardinality(Under(s)) \in Nat
        BY <1>2, FS_CardinalityType
    <2> QED BY <2>3, <2>4 DEF Rank
<1>4. ASSUME NEW r \in S, NEW s \in S, Rank(R, S, r) = Rank(R, S, s) PROVE r = s
    <2>1. SUFFICES ASSUME r # s PROVE FALSE
        OBVIOUS
    <2>2. <<r, s>> \in R \/ <<s, r>> \in R
        BY <2>1 DEF Orders
    <2>3. Rank(R, S, r) \in 0 .. N - 1 /\ Rank(R, S, s) \in 0 .. N - 1
        BY <1>2
    <2> HIDE DEF N
    <2> QED BY <1>1, <1>3, <1>4, <2>2, <2>3
<1>5. ASSUME NEW n \in 0 .. N - 1 PROVE \E s \in S : Rank(R, S, s) = n
    <2> DEFINE f == [s \in S |-> Rank(R, S, s)]
               T == 0 .. N - 1
    <2>1. f \in [S -> T]
        BY <1>2
    <2>2. f \in Injection(S, T)
        <3>1. \A a, b \in S : f[a] = f[b] => a = b
            BY <1>4
        <3> HIDE DEF f
        <3> QED BY <2>1, <3>1 DEF Injection, IsInjective
    <2>3. IsFiniteSet(T) /\ Cardinality(T) = N
        BY <1>1, FS_Interval
    <2>4. f \in Surjection(S, T)
        BY <2>2, <2>3, FS_Injection
    <2> QED BY <2>4 DEF Surjection
<1> QED BY <1>2, <1>3, <1>4, <1>5

\* The elements one by one, by rank: a list of them in their order.
Listing(R, S) == [i \in 1 .. Cardinality(S) |-> CHOOSE x \in S : Rank(R, S, x) = i - 1]

LEMMA ListsAll ==
    ASSUME NEW S, IsFiniteSet(S), NEW R, Orders(R, S)
    PROVE  /\ Cardinality(S) \in Nat
           /\ \A i \in 1 .. Cardinality(S) : Listing(R, S)[i] \in S
           /\ \A x \in S : \E i \in 1 .. Cardinality(S) : Listing(R, S)[i] = x
           /\ \A i, j \in 1 .. Cardinality(S) : i < j => <<Listing(R, S)[i], Listing(R, S)[j]>> \in R
<1> DEFINE N == Cardinality(S)
           at(i) == CHOOSE x \in S : Rank(R, S, x) = i - 1
           L == [i \in 1 .. N |-> at(i)]
<1>1. N \in Nat
    BY FS_CardinalityType
<1>2. Listing(R, S) = L
    BY DEF Listing
<1>3. \A x \in S : Rank(R, S, x) \in 0 .. N - 1
    BY RanksExist
<1>4. \A n \in 0 .. N - 1 : \E x \in S : Rank(R, S, x) = n
    BY RanksExist
<1>5. \A x, y \in S : Rank(R, S, x) = Rank(R, S, y) => x = y
    BY RanksExist
<1>6. \A x, y \in S : <<x, y>> \in R => Rank(R, S, x) < Rank(R, S, y)
    BY RanksExist
<1>7. \A x, y \in S : x # y => <<x, y>> \in R \/ <<y, x>> \in R
    BY DEF Orders
<1> HIDE DEF N
<1>8. ASSUME NEW i \in 1 .. N PROVE at(i) \in S /\ Rank(R, S, at(i)) = i - 1 /\ L[i] = at(i)
    <2>1. i - 1 \in 0 .. N - 1
        BY <1>1
    <2>2. \E x \in S : Rank(R, S, x) = i - 1
        BY <1>4, <2>1
    <2>3. at(i) \in S /\ Rank(R, S, at(i)) = i - 1
        BY <2>2
    <2> QED BY <2>3
<1>9. ASSUME NEW x \in S PROVE \E i \in 1 .. N : L[i] = x
    <2> DEFINE i == Rank(R, S, x) + 1
    <2>1. i \in 1 .. N /\ i - 1 = Rank(R, S, x)
        BY <1>1, <1>3
    <2>2. at(i) \in S /\ Rank(R, S, at(i)) = Rank(R, S, x) /\ L[i] = at(i)
        BY <1>8, <2>1
    <2>3. at(i) = x
        BY <1>5, <2>2
    <2> HIDE DEF i, at, L
    <2> QED BY <2>1, <2>2, <2>3
<1>10. ASSUME NEW i \in 1 .. N, NEW j \in 1 .. N, i < j PROVE <<L[i], L[j]>> \in R
    <2> DEFINE x == L[i]
               y == L[j]
    <2>1. x \in S /\ y \in S /\ Rank(R, S, x) = i - 1 /\ Rank(R, S, y) = j - 1
        BY <1>8
    <2> HIDE DEF x, y
    <2>2. ~ Rank(R, S, y) < Rank(R, S, x) /\ x # y
        BY <1>10, <2>1
    <2>3. <<x, y>> \in R
        BY <1>6, <1>7, <2>1, <2>2
    <2> QED BY <2>3 DEF x, y
<1>11. \A i \in 1 .. N : L[i] \in S
    <2> HIDE DEF L, at
    <2> QED BY <1>8
<1>12. /\ \A x \in S : \E i \in 1 .. N : L[i] = x
       /\ \A i, j \in 1 .. N : i < j => <<L[i], L[j]>> \in R
    <2> HIDE DEF L, at
    <2> QED BY <1>9, <1>10
<1> HIDE DEF L, at
<1> QED BY <1>1, <1>2, <1>11, <1>12 DEF N

\* The first n of them are n, or all.
LEMMA FirstOnes ==
    ASSUME NEW S, IsFiniteSet(S), NEW R, Orders(R, S), NEW n \in Nat
    PROVE  LET first == {s \in S : Rank(R, S, s) < n}
           IN  /\ IsFiniteSet(first)
               /\ n <= Cardinality(S) => Cardinality(first) = n
               /\ n >= Cardinality(S) => first = S
<1> DEFINE first == {s \in S : Rank(R, S, s) < n}
           N == Cardinality(S)
<1>1. N \in Nat
    BY FS_CardinalityType
<1>2. first \in SUBSET S /\ IsFiniteSet(first)
    <2>1. first \in SUBSET S
        OBVIOUS
    <2> QED BY <2>1, FS_Subset
<1>3. \A s \in S : Rank(R, S, s) \in 0 .. N - 1
    BY RanksExist
<1>4. ASSUME n >= N PROVE first = S
    BY <1>1, <1>3, <1>4
<1>5. ASSUME n <= N PROVE Cardinality(first) = n
    <2> DEFINE f == [s \in first |-> Rank(R, S, s)]
               T == 0 .. n - 1
    <2>1. f \in [first -> T]
        BY <1>1, <1>3
    <2>2. \A a, b \in first : f[a] = f[b] => a = b
        BY RanksExist
    <2>3. \A t \in T : \E s \in first : f[s] = t
        <3>1. SUFFICES ASSUME NEW t \in T PROVE \E s \in first : f[s] = t
            OBVIOUS
        <3>2. t \in 0 .. N - 1 /\ t < n
            BY <1>1, <1>5
        <3>3. PICK s \in S : Rank(R, S, s) = t
            BY <3>2, RanksExist
        <3> QED BY <3>2, <3>3
    <2>4. f \in Surjection(first, T) /\ f \in Injection(first, T)
        <3> HIDE DEF f, first
        <3> QED BY <2>1, <2>2, <2>3, Zenon DEF Surjection, Injection, IsInjective
    <2>5. Cardinality(T) = n
        BY FS_Interval
    <2>6. Cardinality(T) = Cardinality(first)
        <3> HIDE DEF f, first
        <3> QED BY <1>2, <2>4, FS_Surjection
    <2> QED BY <2>5, <2>6
<1> QED BY <1>2, <1>4, <1>5
=============================================================================
