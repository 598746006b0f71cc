--------------------------- MODULE InductionLemmas ---------------------------
(***************************************************************************)
(* Induction over the natural numbers, stated for sets: what the proofs    *)
(* about recursive functions and sequences of any length rest on.          *)
(***************************************************************************)
EXTENDS Integers, WellFoundedInduction, TLAPS

Below == {p \in Nat \X Nat : p[1] < p[2]}

LEMMA BelowWellFounded == IsWellFoundedOn(Below, Nat)
BY NatLessThanWellFounded DEF OpToRel, Below

\* A set of natural numbers that is not empty has a least element.
LEMMA LeastNumber ==
    ASSUME NEW S, S \subseteq Nat, S # {}
    PROVE  \E n \in S : \A m \in S : n <= m
<1>1. \E n \in S : \A m \in S : ~(<<m, n>> \in Below)
    BY BelowWellFounded, WFMin, Zenon
<1>2. PICK n \in S : \A m \in S : ~(<<m, n>> \in Below)
    BY <1>1
<1>3. ASSUME NEW m \in S PROVE n <= m
    <2>1. ~(<<m, n>> \in Below) /\ m \in Nat /\ n \in Nat
        BY <1>2
    <2>2. ~(m < n)
        BY <2>1 DEF Below
    <2> QED BY <2>1, <2>2
<1> QED BY <1>2, <1>3

\* A bounded set of natural numbers that is not empty has a greatest element.
LEMMA GreatestNumber ==
    ASSUME NEW N \in Nat, NEW S, S \subseteq 0..N, S # {}
    PROVE  \E n \in S : \A m \in S : m <= n
<1> DEFINE T == {k \in 0..N : N - k \in S}
<1>1. T \subseteq Nat /\ T # {}
    <2>1. PICK s \in S : TRUE
        OBVIOUS
    <2>2. N - s \in 0..N /\ N - (N - s) = s
        BY <2>1
    <2> QED BY <2>1, <2>2
<1>2. PICK k \in T : \A m \in T : k <= m
    BY <1>1, LeastNumber
<1>3. ASSUME NEW m \in S PROVE m <= N - k
    <2>1. m \in 0..N /\ N - m \in 0..N /\ N - (N - m) = m
        OBVIOUS
    <2>2. N - m \in T
        BY <2>1
    <2> QED BY <1>2, <2>1, <2>2
<1> QED BY <1>2, <1>3

\* What holds of 0 and is passed on to the next number holds up to N.
LEMMA Induction ==
    ASSUME NEW N \in Nat, NEW S, 0 \in S,
           \A n \in 0..(N - 1) : n \in S => n + 1 \in S
    PROVE  \A n \in 0..N : n \in S
<1> DEFINE T == {n \in 0..N : n \notin S}
<1>1. SUFFICES ASSUME T # {} PROVE FALSE
    OBVIOUS
<1>2. T \subseteq Nat
    OBVIOUS
<1>3. PICK n \in T : \A m \in T : n <= m
    BY <1>1, <1>2, LeastNumber
<1>4. n # 0 /\ n \in 0..N /\ n \notin S
    BY <1>3
<1>5. n - 1 \in 0..(N - 1) /\ n - 1 \in 0..N /\ (n - 1) + 1 = n
    BY <1>4
<1>6. n - 1 \in S
    BY <1>3, <1>5
<1> QED BY <1>4, <1>5, <1>6

\* The same downwards from N.
LEMMA InductionDown ==
    ASSUME NEW N \in Nat, NEW S, N \in S,
           \A n \in 1..N : n \in S => n - 1 \in S
    PROVE  \A n \in 0..N : n \in S
<1> DEFINE T == {k \in 0..N : N - k \in S}
<1>1. 0 \in T
    OBVIOUS
<1>2. ASSUME NEW k \in 0..(N - 1), k \in T PROVE k + 1 \in T
    <2>1. N - k \in 1..N /\ (N - k) - 1 = N - (k + 1) /\ k + 1 \in 0..N
        OBVIOUS
    <2> QED BY <1>2, <2>1
<1> HIDE DEF T
<1>3. \A k \in 0..N : k \in T
    BY <1>1, <1>2, Induction
<1>4. ASSUME NEW n \in 0..N PROVE n \in S
    <2>1. N - n \in 0..N /\ N - (N - n) = n
        OBVIOUS
    <2> QED BY <1>3, <2>1 DEF T
<1> QED BY <1>4

\* And down to a.
LEMMA InductionDownTo ==
    ASSUME NEW N \in Nat, NEW a \in 0..N, NEW S, N \in S,
           \A n \in a..(N - 1) : n + 1 \in S => n \in S
    PROVE  \A n \in a..N : n \in S
<1> DEFINE T == {k \in 0..(N - a) : N - k \in S}
<1>1. 0 \in T /\ N - a \in Nat
    OBVIOUS
<1>2. ASSUME NEW k \in 0..((N - a) - 1), k \in T PROVE k + 1 \in T
    <2> DEFINE n == N - (k + 1)
    <2>1. n \in a..(N - 1) /\ n + 1 = N - k /\ k + 1 \in 0..(N - a)
        OBVIOUS
    <2> QED BY <1>2, <2>1
<1> HIDE DEF T
<1>3. \A k \in 0..(N - a) : k \in T
    BY <1>1, <1>2, Induction
<1>4. ASSUME NEW n \in a..N PROVE n \in S
    <2>1. N - n \in 0..(N - a) /\ N - (N - n) = n
        OBVIOUS
    <2> QED BY <1>3, <2>1 DEF T
<1> QED BY <1>4

\* There is a function with a given value at 0 and a given step.
StepsOn(G, N, T) == G \in [1..N -> [T -> T]]
Recursive(f, G, N, T, e) ==
    /\ f \in [0..N -> T] /\ f[0] = e
    /\ \A n \in 1..N : f[n] = G[n][f[n - 1]]

LEMMA Recursion ==
    ASSUME NEW N, N \in Nat, NEW T, NEW e, e \in T, NEW G, StepsOn(G, N, T)
    PROVE  \E f : Recursive(f, G, N, T, e)
<1>0. G \in [1..N -> [T -> T]]
    BY DEF StepsOn
<1> DEFINE Ok(m, f) == /\ f \in [0..m -> T] /\ f[0] = e
                       /\ \A n \in 1..m : f[n] = G[n][f[n - 1]]
           S == {m \in 0..N : \E f \in [0..m -> T] : Ok(m, f)}
<1>1. 0 \in S
    <2> DEFINE f == [n \in 0..0 |-> e]
    <2>1. f \in [0..0 -> T] /\ f[0] = e
        OBVIOUS
    <2>2. \A n \in 1..0 : f[n] = G[n][f[n - 1]]
        OBVIOUS
    <2> HIDE DEF f
    <2> QED BY <2>1, <2>2
<1>2. ASSUME NEW m \in 0..(N - 1), m \in S PROVE m + 1 \in S
    <2>1. PICK f \in [0..m -> T] : Ok(m, f)
        BY <1>2
    <2> DEFINE k == m + 1
               h == [n \in 0..k |-> IF n = k THEN G[k][f[m]] ELSE f[n]]
    <2>2. k \in 1..N /\ m \in 0..m /\ k \in 0..N /\ k \in Nat /\ m \in Nat
        OBVIOUS
    <2>3. G[k] \in [T -> T] /\ f[m] \in T
        BY <1>0, <2>1, <2>2
    <2>4. h \in [0..k -> T]
        BY <2>1, <2>2, <2>3
    <2>5. h[0] = e
        BY <2>1, <2>2
    <2>6. ASSUME NEW n \in 1..k PROVE h[n] = G[n][h[n - 1]]
        <3>1. n - 1 \in 0..m /\ n - 1 # k /\ n - 1 \in 0..k /\ n \in 0..k
            BY <2>2
        <3>2. h[n - 1] = f[n - 1]
            BY <3>1
        <3>3. CASE n = k
            BY <3>1, <3>2, <3>3
        <3>4. CASE n # k
            <4>1. n \in 1..m
                BY <2>2, <3>4
            <4>2. h[n] = f[n]
                BY <3>1, <3>4
            <4> QED BY <2>1, <3>2, <4>1, <4>2
        <3> QED BY <3>3, <3>4
    <2> HIDE DEF h
    <2> QED BY <2>2, <2>4, <2>5, <2>6
<1> HIDE DEF S
<1>3. \A n \in 0..N : n \in S
    BY <1>1, <1>2, Induction
<1>4. N \in S
    BY <1>3
<1> QED BY <1>4 DEF S, Recursive

\* And downwards, from its value at N to a.
StepsDown(G, a, N, T) == G \in [a..(N - 1) -> [T -> T]]
RecursiveDown(f, G, a, N, T, e) ==
    /\ f \in [a..N -> T] /\ f[N] = e
    /\ \A n \in a..(N - 1) : f[n] = G[n][f[n + 1]]

LEMMA RecursionDown ==
    ASSUME NEW N \in Nat, NEW a \in 0..N, NEW T, NEW e \in T, NEW G, StepsDown(G, a, N, T)
    PROVE  \E f : RecursiveDown(f, G, a, N, T, e)
<1> DEFINE K == N - a
           H == [k \in 1..K |-> G[N - k]]
<1>1. K \in Nat /\ \A k \in 1..K : N - k \in a..(N - 1)
    OBVIOUS
<1>2. G \in [a..(N - 1) -> [T -> T]]
    BY DEF StepsDown
<1>3. StepsOn(H, K, T)
    BY <1>1, <1>2 DEF StepsOn
<1> HIDE DEF K, H
<1>4. PICK h : Recursive(h, H, K, T, e)
    BY <1>1, <1>3, Recursion, Zenon
<1>5. /\ h \in [0..K -> T] /\ h[0] = e
      /\ \A k \in 1..K : h[k] = H[k][h[k - 1]]
    BY <1>4 DEF Recursive
<1> DEFINE f == [n \in a..N |-> h[N - n]]
<1>6. \A n \in a..N : N - n \in 0..K /\ n \in Nat
    BY DEF K
<1>7. f \in [a..N -> T]
    BY <1>5, <1>6
<1>8. f[N] = e
    <2>1. N \in a..N /\ N - N = 0
        OBVIOUS
    <2> QED BY <1>5, <2>1
<1>9. ASSUME NEW n \in a..(N - 1) PROVE f[n] = G[n][f[n + 1]]
    <2> DEFINE k == N - n
    <2>1. n \in a..N /\ n + 1 \in a..N /\ k \in 1..K /\ N - k = n /\ N - (n + 1) = k - 1
        BY DEF K
    <2>2. f[n] = h[k] /\ f[n + 1] = h[k - 1]
        BY <2>1
    <2>3. h[k] = H[k][h[k - 1]]
        BY <1>5, <2>1
    <2>4. H[k] = G[n]
        BY <2>1 DEF H
    <2> QED BY <2>2, <2>3, <2>4
<1> HIDE DEF f
<1> QED BY <1>7, <1>8, <1>9 DEF RecursiveDown

\* The same over any set D whose elements have a measure: there is a function
\* that is given by its values on elements of smaller measure.
Local(G, D, m, T) ==
    \A p \in D : \A f, g \in [D -> T] :
        (\A q \in D : m[q] < m[p] => f[q] = g[q]) => G[p][f] = G[p][g]

Measure(m, D, N) == m \in [D -> 0..N]
StepsOver(G, D, T) == G \in [D -> [[D -> T] -> T]]
Solves(f, G, D, T) == f \in [D -> T] /\ \A p \in D : f[p] = G[p][f]

\* A set F of functions that the step does not lead out of, and on which it is local.
Over(F, D) == \A f \in F : DOMAIN f = D
Closed(G, D, F) == \A f \in F : [p \in D |-> G[p][f]] \in F
LocalOn(G, D, m, F) ==
    \A p \in D : \A f, g \in F :
        (\A q \in D : m[q] < m[p] => f[q] = g[q]) => G[p][f] = G[p][g]

SolvedIn(F, G, D) == \E f \in F : \A p \in D : f[p] = G[p][f]

LEMMA RecursionWithin ==
    ASSUME NEW D, NEW F, F # {}, Over(F, D), NEW N, N \in Nat,
           NEW m, Measure(m, D, N), NEW G, Closed(G, D, F), LocalOn(G, D, m, F)
    PROVE  SolvedIn(F, G, D)
<1>0. m \in [D -> 0..N] /\ \A f \in F : DOMAIN f = D
    BY DEF Measure, Over
<1> DEFINE Next(f) == [p \in D |-> G[p][f]]
           H == [n \in 1..(N + 2) |-> [f \in F |-> Next(f)]]
<1>1. PICK e : e \in F
    OBVIOUS
<1>2. e \in F
    BY <1>1
<1>3. \A f \in F : Next(f) \in F
    BY DEF Closed
<1>4. StepsOn(H, N + 2, F)
    BY <1>3 DEF StepsOn
<1> HIDE DEF H, Next
<1>5. \E h : Recursive(h, H, N + 2, F, e)
    <2>1. N + 2 \in Nat
        OBVIOUS
    <2> QED BY <1>2, <1>4, <2>1, Recursion, Zenon
<1>6. PICK h : Recursive(h, H, N + 2, F, e)
    BY <1>5
<1>7. /\ h \in [0..(N + 2) -> F]
      /\ \A n \in 1..(N + 2) : h[n] = H[n][h[n - 1]]
    BY <1>6 DEF Recursive
<1>8. ASSUME NEW n \in 0..(N + 1), NEW p \in D
      PROVE  h[n] \in F /\ h[n + 1] \in F
             /\ h[n + 1][p] = G[p][h[n]]
    <2>1. n + 1 \in 1..(N + 2) /\ n + 1 \in 0..(N + 2) /\ n \in 0..(N + 2)
          /\ (n + 1) - 1 = n
        OBVIOUS
    <2>2. h[n] \in F /\ h[n + 1] \in F
        BY <1>7, <2>1
    <2>3. h[n + 1] = H[n + 1][h[n]]
        BY <1>7, <2>1
    <2>4. h[n + 1] = Next(h[n])
        BY <2>1, <2>2, <2>3 DEF H
    <2> QED BY <2>2, <2>4 DEF Next
<1> DEFINE S == {n \in 0..(N + 1) :
                    \A p \in D : m[p] < n => h[n + 1][p] = h[n][p]}
<1>9. 0 \in S
    <2>1. \A p \in D : ~(m[p] < 0)
        BY <1>0
    <2> QED BY <2>1
<1>10. ASSUME NEW n \in 0..((N + 1) - 1), n \in S PROVE n + 1 \in S
    <2> DEFINE k == n + 1
    <2>1. k \in 0..(N + 1) /\ n \in 0..(N + 1) /\ n \in Nat
        OBVIOUS
    <2>2. ASSUME NEW p \in D, m[p] < k PROVE h[k + 1][p] = h[k][p]
        <3>1. h[k + 1][p] = G[p][h[k]] /\ h[k][p] = G[p][h[n]]
              /\ h[k] \in F /\ h[n] \in F
            BY <1>8, <2>1
        <3>2. ASSUME NEW q \in D, m[q] < m[p] PROVE h[k][q] = h[n][q]
            <4>1. m[q] < n
                <5>1. m[q] \in Nat /\ m[p] \in Nat
                    BY <1>0
                <5> QED BY <2>1, <2>2, <3>2, <5>1
            <4> QED BY <1>10, <4>1
        <3> HIDE DEF k
        <3>3. G[p][h[k]] = G[p][h[n]]
            BY <3>1, <3>2 DEF LocalOn
        <3> QED BY <3>1, <3>3
    <2> QED BY <2>1, <2>2
<1> HIDE DEF S
<1>11. N + 1 \in S
    <2>1. N + 1 \in Nat /\ N + 1 \in 0..(N + 1)
        OBVIOUS
    <2>2. \A n \in 0..(N + 1) : n \in S
        BY <1>9, <1>10, <2>1, Induction
    <2> QED BY <2>1, <2>2
<1>12. \A p \in D : h[N + 1][p] = G[p][h[N + 1]]
    <2>1. N + 1 \in 0..(N + 1)
        OBVIOUS
    <2>2. \A p \in D : h[(N + 1) + 1][p] = h[N + 1][p]
        <3>1. \A p \in D : m[p] < N + 1
            BY <1>0
        <3> QED BY <1>11, <3>1 DEF S
    <2> QED BY <1>8, <2>1, <2>2
<1>13. h[N + 1] \in F
    <2>1. N + 1 \in 0..(N + 2)
        OBVIOUS
    <2> QED BY <1>7, <2>1
<1> QED BY <1>12, <1>13 DEF SolvedIn

LEMMA RecursionByMeasure ==
    ASSUME NEW D, NEW T, T # {}, NEW N, N \in Nat, NEW m, Measure(m, D, N),
           NEW G, StepsOver(G, D, T), Local(G, D, m, T)
    PROVE  \E f : Solves(f, G, D, T)
<1> DEFINE F == [D -> T]
<1>1. PICK t \in T : TRUE
    OBVIOUS
<1>2. [p \in D |-> t] \in F
    OBVIOUS
<1>3. Closed(G, D, F)
    BY DEF Closed, StepsOver
<1>4. LocalOn(G, D, m, F)
    BY DEF LocalOn, Local
<1>5. Over(F, D)
    BY DEF Over
<1>6. F # {}
    BY <1>2
<1> HIDE DEF F
<1>7. SolvedIn(F, G, D)
    BY <1>3, <1>4, <1>5, <1>6, RecursionWithin, Zenon
<1> QED BY <1>7 DEF Solves, F, SolvedIn
=============================================================================
