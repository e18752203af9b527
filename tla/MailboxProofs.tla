---------------------------- MODULE MailboxProofs ---------------------------
(***************************************************************************)
(* Facts about the operators of Mailbox, for every radix and every ID      *)
(* space.                                                                  *)
(***************************************************************************)
EXTENDS Mailbox, FiniteSetTheorems, TLAPS

(***************************************************************************)
(* Induction and recursion.  The induction theorems of the library take an *)
(* operator, which the provers cannot instantiate; these take a set or a   *)
(* function instead.  They rest on the library's theorem that the finite   *)
(* subsets of a set are well-founded.                                      *)
(***************************************************************************)
LEMMA MinimalSubset ==
    ASSUME NEW S, NEW F, F \subseteq FiniteSubsetsOf(S), F # {}
    PROVE  \E s \in F : \A t \in F : t \subseteq s => t = s
<1> DEFINE R == StrictSubsetOrdering(S)
<1>1. IsWellFoundedOn(R, FiniteSubsetsOf(S))
  BY FS_StrictSubsetOrderingWellFounded
<1>2. \A s, t \in F : t \subseteq s /\ t # s => <<t, s>> \in R
  BY DEF StrictSubsetOrdering, FiniteSubsetsOf
<1> HIDE DEF R
<1>3. \E s \in F : \A t \in F : ~ (<<t, s>> \in R)
  BY <1>1, WFMin
<1> QED
  BY <1>2, <1>3

LEMMA LeastNumber ==
    ASSUME NEW T \in SUBSET Nat, T # {}
    PROVE  \E x \in T : \A y \in T : x <= y
<1> DEFINE F == {0 .. n : n \in T}
<1>1. F # {}
  OBVIOUS
<1>2. ASSUME NEW n \in Nat PROVE 0 .. n \in FiniteSubsetsOf(Nat)
  <2>1. IsFiniteSet(0 .. n)
    BY FS_Interval
  <2>2. 0 .. n \subseteq Nat
    OBVIOUS
  <2> QED
    BY <2>1, <2>2 DEF FiniteSubsetsOf
<1>3. F \subseteq FiniteSubsetsOf(Nat)
  BY <1>2
<1>4. \E s \in F : \A t \in F : t \subseteq s => t = s
  <2> HIDE DEF F
  <2> QED
    BY <1>1, <1>3, MinimalSubset
<1>5. PICK x \in T : \A t \in F : t \subseteq 0 .. x => t = 0 .. x
  BY <1>4
<1>6. ASSUME NEW y \in T, y < x PROVE FALSE
  <2>1. 0 .. y \in F /\ 0 .. y \subseteq 0 .. x
    BY <1>6
  <2>2. 0 .. y = 0 .. x
    BY <1>5, <2>1
  <2>3. x \in 0 .. x /\ x \notin 0 .. y
    BY <1>6
  <2> QED
    BY <2>2, <2>3
<1> QED
  BY <1>6

LEMMA NumberInduction ==
    ASSUME NEW S \in SUBSET Nat, \A n \in Nat : (\A m \in 0 .. n - 1 : m \in S) => n \in S
    PROVE  S = Nat
<1> SUFFICES ASSUME Nat \ S # {} PROVE FALSE
  OBVIOUS
<1> DEFINE T == Nat \ S
<1>1. T \in SUBSET Nat /\ T # {}
  OBVIOUS
<1>2. PICK x \in T : \A y \in T : x <= y
  <2> HIDE DEF T
  <2> QED
    BY <1>1, LeastNumber
<1>3. \A m \in 0 .. x - 1 : m \in S
  BY <1>2
<1> QED
  BY <1>2, <1>3

LEMMA FiniteInduction ==
    ASSUME NEW S, IsFiniteSet(S), NEW F,
           {} \in F, \A T \in SUBSET S : \A x \in S \ T : T \in F => T \cup {x} \in F
    PROVE  S \in F
<1> SUFFICES ASSUME S \notin F PROVE FALSE
  OBVIOUS
<1> DEFINE G == {T \in SUBSET S : T \notin F}
<1>1. G # {} /\ G \subseteq FiniteSubsetsOf(S)
  BY FS_Subset DEF FiniteSubsetsOf
<1>2. PICK T \in G : \A t \in G : t \subseteq T => t = T
  <2> HIDE DEF G
  <2> QED
    BY <1>1, MinimalSubset
<1>3. PICK x \in T : TRUE
  BY <1>2
<1>4. T \ {x} \in F
  BY <1>2
<1>5. T \ {x} \in SUBSET S /\ x \in S \ (T \ {x}) /\ (T \ {x}) \cup {x} = T
  OBVIOUS
<1> QED
  BY <1>2, <1>4, <1>5

(***************************************************************************)
(* A recursion in which each step goes to an element of smaller rank.      *)
(***************************************************************************)
Recursive(f, D, rank, base, pred, G) ==
    \A d \in D : f[d] = IF rank[d] = 0 THEN base ELSE G[<<f[pred[d]], d>>]

RecursiveUpTo(f, n, D, rank, base, pred, G) ==
    \A d \in D : rank[d] <= n =>
        f[d] = IF rank[d] = 0 THEN base ELSE G[<<f[pred[d]], d>>]

Descends(D, rank, pred) ==
    /\ rank \in [D -> Nat] /\ pred \in [D -> D]
    /\ \A d \in D : rank[d] # 0 => rank[pred[d]] < rank[d]

LEMMA RecursionUnique ==
    ASSUME NEW D, NEW rank, NEW pred, Descends(D, rank, pred), NEW base, NEW G, NEW n \in Nat,
           NEW f, RecursiveUpTo(f, n, D, rank, base, pred, G),
           NEW g, RecursiveUpTo(g, n, D, rank, base, pred, G)
    PROVE  \A d \in D : rank[d] <= n => f[d] = g[d]
<1> DEFINE B == {d \in D : rank[d] <= n /\ f[d] # g[d]}
           T == {rank[d] : d \in B}
<1> SUFFICES ASSUME B # {} PROVE FALSE
  OBVIOUS
<1>1. T \in SUBSET Nat /\ T # {}
  BY DEF Descends
<1>2. PICK x \in T : \A y \in T : x <= y
  <2> HIDE DEF T
  <2> QED
    BY <1>1, LeastNumber
<1>3. PICK d \in B : x = rank[d]
  OBVIOUS
<1>4. rank[d] # 0
  BY DEF RecursiveUpTo
<1>5. pred[d] \in D /\ rank[pred[d]] < rank[d] /\ rank[pred[d]] \in Nat /\ rank[d] \in Nat
  BY <1>4 DEF Descends
<1>6. pred[d] \notin B
  BY <1>2, <1>3, <1>5
<1>7. f[pred[d]] = g[pred[d]]
  BY <1>5, <1>6
<1>8. d \in D /\ rank[d] <= n /\ f[d] # g[d]
  OBVIOUS
<1>9. f[d] = G[<<f[pred[d]], d>>] /\ g[d] = G[<<g[pred[d]], d>>]
  <2> HIDE DEF B, T
  <2> QED
    BY <1>4, <1>8 DEF RecursiveUpTo
<1> HIDE DEF B, T
<1> QED
  BY <1>7, <1>8, <1>9

LEMMA RecursionExists ==
    ASSUME NEW D, NEW V, NEW rank, NEW pred, Descends(D, rank, pred),
           NEW base \in V, NEW G \in [V \X D -> V]
    PROVE  \E f \in [D -> V] : Recursive(f, D, rank, base, pred, G)
<1> DEFINE upTo(f, n) == RecursiveUpTo(f, n, D, rank, base, pred, G)
           S == {n \in Nat : \E f \in [D -> V] : upTo(f, n)}
<1>1. S = Nat
  <2>1. ASSUME NEW n \in Nat, \A m \in 0 .. n - 1 : m \in S PROVE n \in S
    <3>1. CASE n = 0
      <4>1. upTo([d \in D |-> base], 0)
        BY DEF Descends, RecursiveUpTo
      <4>2. [d \in D |-> base] \in [D -> V]
        OBVIOUS
      <4> HIDE DEF upTo
      <4> QED
        BY <3>1, <4>1, <4>2
    <3>2. CASE n # 0
      <4>1. n - 1 \in S
        BY <2>1, <3>2
      <4>2. PICK f \in [D -> V] : upTo(f, n - 1)
        BY <4>1
      <4> DEFINE g == [d \in D |-> IF rank[d] <= n - 1 THEN f[d] ELSE G[<<f[pred[d]], d>>]]
      <4>3. g \in [D -> V]
        BY DEF Descends
      <4>4. \A d \in D : rank[d] # 0 /\ rank[d] <= n => g[pred[d]] = f[pred[d]]
        BY DEF Descends
      <4>5. upTo(g, n)
        <5> SUFFICES ASSUME NEW d \in D, rank[d] <= n
                     PROVE  g[d] = IF rank[d] = 0 THEN base ELSE G[<<g[pred[d]], d>>]
          BY DEF RecursiveUpTo
        <5>1. rank[d] \in Nat
          BY DEF Descends
        <5>2. CASE rank[d] <= n - 1
          BY <4>2, <4>4, <5>1, <5>2 DEF RecursiveUpTo
        <5>3. CASE ~(rank[d] <= n - 1)
          BY <3>2, <4>4, <5>1, <5>3
        <5> QED
          BY <5>2, <5>3
      <4> HIDE DEF upTo, g
      <4> QED
        BY <4>3, <4>5
    <3> QED
      BY <3>1, <3>2
  <2> HIDE DEF S
  <2>2. S \in SUBSET Nat
    BY DEF S
  <2> QED
    BY <2>1, <2>2, NumberInduction
<1> DEFINE F == [n \in Nat |-> CHOOSE f \in [D -> V] : upTo(f, n)]
<1>2. \A n \in Nat : F[n] \in [D -> V] /\ upTo(F[n], n)
  <2> HIDE DEF upTo
  <2> QED
    BY <1>1
<1>3. \A d \in D : \A n \in Nat : rank[d] <= n => F[n][d] = F[rank[d]][d]
  <2> TAKE d \in D
  <2> TAKE n \in Nat
  <2> HAVE rank[d] <= n
  <2>1. rank[d] \in Nat
    BY DEF Descends
  <2>2. upTo(F[n], n) /\ upTo(F[rank[d]], rank[d])
    BY <1>2, <2>1
  <2>3. \A e \in D : rank[e] <= rank[d] => rank[e] <= n
    BY <2>1 DEF Descends
  <2>4. upTo(F[n], rank[d])
    <3> HIDE DEF F
    <3> QED
      BY <2>2, <2>3 DEF RecursiveUpTo
  <2> HIDE DEF F
  <2> DEFINE k == rank[d]
             g == F[n]
             h == F[k]
  <2>5. /\ k \in Nat
        /\ RecursiveUpTo(g, k, D, rank, base, pred, G)
        /\ RecursiveUpTo(h, k, D, rank, base, pred, G)
    BY <2>1, <2>2, <2>4
  <2> HIDE DEF k, g, h, upTo
  <2>6. \A e \in D : rank[e] <= k => g[e] = h[e]
    BY <2>5, RecursionUnique
  <2>7. g[d] = h[d]
    BY <2>1, <2>6 DEF k
  <2> QED
    BY <2>7 DEF g, h, k
<1> DEFINE f == [d \in D |-> F[rank[d]][d]]
<1>4. f \in [D -> V]
  BY <1>2 DEF Descends
<1>5. Recursive(f, D, rank, base, pred, G)
  <2> SUFFICES ASSUME NEW d \in D
               PROVE  f[d] = IF rank[d] = 0 THEN base ELSE G[<<f[pred[d]], d>>]
    BY DEF Recursive
  <2>1. rank[d] \in Nat /\ pred[d] \in D
    BY DEF Descends
  <2>2. f[d] = IF rank[d] = 0 THEN base ELSE G[<<F[rank[d]][pred[d]], d>>]
    <3>1. upTo(F[rank[d]], rank[d]) /\ f[d] = F[rank[d]][d]
      BY <1>2, <2>1
    <3> HIDE DEF F, f
    <3>2. rank[d] <= rank[d]
      BY <2>1
    <3> QED
      BY <3>1, <3>2 DEF RecursiveUpTo
  <2>3. rank[d] # 0 => F[rank[d]][pred[d]] = f[pred[d]]
    <3> HIDE DEF F
    <3> QED
      BY <1>3, <2>1 DEF Descends
  <2> HIDE DEF F, f
  <2> QED
    BY <2>2, <2>3
<1> QED
  BY <1>4, <1>5

(***************************************************************************)
(* Digits (idpath.go).                                                     *)
(***************************************************************************)
LEMMA Division ==
    ASSUME NEW n \in Nat
    PROVE  /\ n \div Radix \in Nat
           /\ n % Radix \in 0 .. Radix - 1
           /\ n = (n \div Radix) * Radix + (n % Radix)
           /\ n # 0 => n \div Radix < n
<1>1. Radix \in Nat /\ Radix > 1
  BY RadixAssumption
<1>2. n \div Radix \in Int /\ n % Radix \in 0 .. Radix - 1
      /\ n = (n \div Radix) * Radix + (n % Radix)
  BY <1>1, SMT
<1> DEFINE q == n \div Radix
           r == n % Radix
<1>3. q \in Int /\ r \in Int /\ 0 <= r /\ r < Radix /\ n = q * Radix + r
  BY <1>1, <1>2
<1> HIDE DEF q, r
<1>4. q >= 0
  <2> SUFFICES ASSUME q <= -1 PROVE FALSE
    BY <1>3
  <2>1. q * Radix <= (-1) * Radix
    BY <1>1, <1>3
  <2> QED
    BY <1>1, <1>3, <2>1
<1>5. n # 0 => q < n
  <2> SUFFICES ASSUME n # 0, q >= n PROVE FALSE
    BY <1>3
  <2>1. q >= 1
    BY <1>3
  <2>2. q * Radix >= q * 2
    BY <1>1, <1>3, <1>4
  <2>3. q * Radix \in Int
    BY <1>1, <1>3
  <2> QED
    BY <1>3, <2>1, <2>2, <2>3
<1> QED
  BY <1>2, <1>3, <1>4, <1>5 DEF q, r

LEMMA DigitsRecursion ==
    /\ digits \in [Nat -> Seq(0 .. Radix - 1)]
    /\ digits[0] = <<>>
    /\ \A id \in Nat \ {0} : digits[id] = Append(digits[id \div Radix], id % Radix)
<1> DEFINE V == Seq(0 .. Radix - 1)
           rank == [id \in Nat |-> id]
           pred == [id \in Nat |-> id \div Radix]
           G == [p \in V \X Nat |-> Append(p[1], p[2] % Radix)]
           good(f) == f = [id \in Nat |-> IF id = 0 THEN <<>>
                                          ELSE Append(f[id \div Radix], id % Radix)]
<1>1. Descends(Nat, rank, pred)
  BY Division DEF Descends
<1>2. G \in [V \X Nat -> V]
  <2> SUFFICES ASSUME NEW p \in V \X Nat PROVE Append(p[1], p[2] % Radix) \in V
    OBVIOUS
  <2>1. p[1] \in V /\ p[2] % Radix \in 0 .. Radix - 1
    BY Division
  <2> QED
    BY <2>1
<1>3. <<>> \in V
  OBVIOUS
<1>4. PICK f \in [Nat -> V] : Recursive(f, Nat, rank, <<>>, pred, G)
  <2> HIDE DEF V, rank, pred, G
  <2> QED
    BY <1>1, <1>2, <1>3, RecursionExists
<1>5. \A id \in Nat : f[id] = IF id = 0 THEN <<>> ELSE Append(f[id \div Radix], id % Radix)
  BY <1>4, Division DEF Recursive
<1>6. good(f)
  <2> HIDE DEF V
  <2> QED
    BY <1>5
<1>7. digits = CHOOSE g : good(g)
  BY DEF digits
<1>8. good(digits)
  <2> HIDE DEF good
  <2> QED
    BY <1>6, <1>7
<1>9. \A id \in Nat : digits[id] = IF id = 0 THEN <<>>
                                   ELSE Append(digits[id \div Radix], id % Radix)
  BY <1>8
<1>10. DOMAIN digits = Nat /\ digits = [id \in Nat |-> digits[id]]
  BY <1>8
<1> DEFINE S == {n \in Nat : digits[n] \in V}
<1>11. ASSUME NEW n \in Nat, \A m \in 0 .. n - 1 : m \in S PROVE n \in S
  <2>1. CASE n = 0
    <3>1. digits[n] = <<>>
      BY <1>9, <2>1
    <3> QED
      BY <1>3, <3>1
  <2>2. CASE n # 0
    <3>1. n \div Radix \in 0 .. n - 1 /\ n % Radix \in 0 .. Radix - 1
      BY <2>2, Division
    <3>2. digits[n \div Radix] \in V
      BY <1>11, <3>1
    <3>3. digits[n] = Append(digits[n \div Radix], n % Radix)
      BY <1>9, <2>2
    <3>4. \A s \in V : \A d \in 0 .. Radix - 1 : Append(s, d) \in V
      OBVIOUS
    <3> HIDE DEF V
    <3> QED
      BY <3>1, <3>2, <3>3, <3>4
  <2> QED
    BY <2>1, <2>2
<1>12. S = Nat
  <2>1. S \in SUBSET Nat
    OBVIOUS
  <2> HIDE DEF S
  <2> QED
    BY <1>11, <2>1, NumberInduction
<1>13. digits \in [Nat -> V]
  <2> HIDE DEF V
  <2> QED
    BY <1>10, <1>12
<1> QED
  BY <1>9, <1>13

(***************************************************************************)
(* Folds.  The folds of the community modules are recursive functions on   *)
(* the subsets of a finite set that take one element out at each step.     *)
(***************************************************************************)
Picks(pick, S) == \A s \in SUBSET S : s # {} => pick[s] \in s

SubsetRecursive(f, S, base, pick, G) ==
    f = [s \in SUBSET S |-> IF s = {} THEN base ELSE G[<<f[s \ {pick[s]}], s>>]]

LEMMA SubsetRecursion ==
    ASSUME NEW S, IsFiniteSet(S), NEW V, NEW base \in V, NEW pick, Picks(pick, S),
           NEW G \in [V \X SUBSET S -> V]
    PROVE  \E f \in [SUBSET S -> V] : SubsetRecursive(f, S, base, pick, G)
<1> USE DEF Picks
<1> DEFINE D == SUBSET S
           rank == [s \in D |-> Cardinality(s)]
           pred == [s \in D |-> s \ {pick[s]}]
<1>1. ASSUME NEW s \in D PROVE /\ Cardinality(s) \in Nat
                               /\ Cardinality(s) = 0 <=> s = {}
                               /\ s # {} => Cardinality(s \ {pick[s]}) < Cardinality(s)
  <2>1. IsFiniteSet(s)
    BY FS_Subset
  <2>2. Cardinality(s) \in Nat /\ (Cardinality(s) = 0 <=> s = {})
    BY <2>1, FS_CardinalityType, FS_EmptySet
  <2>3. s # {} => Cardinality(s \ {pick[s]}) = Cardinality(s) - 1
    BY <2>1, FS_RemoveElement
  <2> QED
    BY <2>2, <2>3
<1>2. Descends(D, rank, pred)
  BY <1>1 DEF Descends
<1>3. PICK f \in [D -> V] : Recursive(f, D, rank, base, pred, G)
  <2> HIDE DEF D, rank, pred
  <2>1. G \in [V \X D -> V]
    BY DEF D
  <2> QED
    BY <1>2, <2>1, RecursionExists
<1>4. \A s \in D : f[s] = IF s = {} THEN base ELSE G[<<f[s \ {pick[s]}], s>>]
  BY <1>1, <1>3 DEF Recursive
<1> HIDE DEF rank, pred
<1>5. f = [s \in D |-> IF s = {} THEN base ELSE G[<<f[s \ {pick[s]}], s>>]]
  <2> HIDE DEF D
  <2> QED
    BY <1>3, <1>4
<1> QED
  BY <1>5 DEF SubsetRecursive

(***************************************************************************)
(* Sums.                                                                   *)
(***************************************************************************)
some(s) == CHOOSE x \in s : TRUE

SumSteps(p, w, S) ==
    \A s \in SUBSET S : p[s] = IF s = {} THEN 0 ELSE w[some(s)] + p[s \ {some(s)}]

SumRecursive(p, w, S) ==
    p = [s \in SUBSET S |-> IF s = {} THEN 0 ELSE w[some(s)] + p[s \ {some(s)}]]

LEMMA SomeIsElement == \A s : s # {} => some(s) \in s
BY DEF some

LEMMA SumExists ==
    ASSUME NEW S, IsFiniteSet(S), NEW w, \A x \in S : w[x] \in Nat
    PROVE  \E p \in [SUBSET S -> Nat] : SumRecursive(p, w, S)
<1> DEFINE pick == [s \in SUBSET S |-> some(s)]
           G == [q \in Nat \X SUBSET S |-> IF q[2] = {} THEN 0 ELSE w[some(q[2])] + q[1]]
<1>1. \A s \in SUBSET S : s # {} => pick[s] \in s
  BY SomeIsElement
<1>2. G \in [Nat \X SUBSET S -> Nat]
  <2> SUFFICES ASSUME NEW n \in Nat, NEW s \in SUBSET S
               PROVE  (IF s = {} THEN 0 ELSE w[some(s)] + n) \in Nat
    OBVIOUS
  <2>1. s # {} => some(s) \in S
    BY SomeIsElement
  <2> QED
    BY <2>1
<1> DEFINE V == Nat
           zero == 0
<1>3. PICK p \in [SUBSET S -> V] : SubsetRecursive(p, S, zero, pick, G)
  <2>1. zero \in V /\ G \in [V \X SUBSET S -> V] /\ Picks(pick, S)
    BY <1>1, <1>2 DEF Picks
  <2> HIDE DEF pick, G, V, zero
  <2> QED
    BY <1>1, <2>1, SubsetRecursion
<1>4. \A s \in SUBSET S : s # {} =>
          G[<<p[s \ {pick[s]}], s>>] = w[some(s)] + p[s \ {some(s)}]
  <2> SUFFICES ASSUME NEW s \in SUBSET S, s # {}
               PROVE  G[<<p[s \ {pick[s]}], s>>] = w[some(s)] + p[s \ {some(s)}]
    OBVIOUS
  <2>1. pick[s] = some(s) /\ s \ {some(s)} \in SUBSET S
    OBVIOUS
  <2>2. p[s \ {some(s)}] \in Nat
    BY <2>1
  <2> QED
    BY <2>1, <2>2
<1> HIDE DEF G, pick
<1>5. \A s \in SUBSET S :
          p[s] = IF s = {} THEN 0 ELSE w[some(s)] + p[s \ {some(s)}]
  BY <1>3, <1>4 DEF SubsetRecursive
<1> DEFINE q == [s \in SUBSET S |-> IF s = {} THEN 0 ELSE w[some(s)] + p[s \ {some(s)}]]
<1>6. p = q
  <2>1. \A s \in SUBSET S : p[s] = q[s]
    BY <1>5
  <2>2. q = [s \in SUBSET S |-> q[s]]
    OBVIOUS
  <2> HIDE DEF q
  <2> QED
    BY <2>1, <2>2
<1> QED
  BY <1>6 DEF SumRecursive

LEMMA SumUnique ==
    ASSUME NEW S, IsFiniteSet(S), NEW w, NEW v, \A x \in S : w[x] = v[x],
           NEW p, SumSteps(p, w, S), NEW q, SumSteps(q, v, S)
    PROVE  \A s \in SUBSET S : p[s] = q[s]
<1> DEFINE F == {s \in SUBSET S : p[s] # q[s]}
<1> SUFFICES ASSUME F # {} PROVE FALSE
  OBVIOUS
<1>1. F \subseteq FiniteSubsetsOf(S)
  BY FS_Subset DEF FiniteSubsetsOf
<1>2. PICK s \in F : \A t \in F : t \subseteq s => t = s
  <2> HIDE DEF F
  <2> QED
    BY <1>1, MinimalSubset
<1>3. s \in SUBSET S /\ p[s] # q[s] /\ s # {}
  BY DEF SumSteps
<1>4. some(s) \in s
  BY <1>3, SomeIsElement
<1>5. s \ {some(s)} \notin F
  BY <1>2, <1>4
<1>6. p[s \ {some(s)}] = q[s \ {some(s)}] /\ w[some(s)] = v[some(s)]
  BY <1>3, <1>4, <1>5
<1> HIDE DEF F
<1> QED
  BY <1>3, <1>6 DEF SumSteps

TakesAny(p, w, S) == \A s \in SUBSET S : \A x \in s : p[s] = w[x] + p[s \ {x}]

LEMMA SumTakesAny ==
    ASSUME NEW S, IsFiniteSet(S), NEW w, \A x \in S : w[x] \in Nat,
           NEW p \in [SUBSET S -> Nat], SumSteps(p, w, S)
    PROVE  TakesAny(p, w, S)
<1> DEFINE good(s) == \A x \in s : p[s] = w[x] + p[s \ {x}]
           F == {s \in SUBSET S : ~ good(s)}
<1> SUFFICES ASSUME F # {} PROVE FALSE
  BY DEF TakesAny
<1>1. F \subseteq FiniteSubsetsOf(S)
  BY FS_Subset DEF FiniteSubsetsOf
<1>2. PICK s \in F : \A t \in F : t \subseteq s => t = s
  <2> HIDE DEF F
  <2> QED
    BY <1>1, MinimalSubset
<1>3. PICK x \in s : p[s] # w[x] + p[s \ {x}]
  OBVIOUS
<1>4. s \in SUBSET S
  OBVIOUS
<1> DEFINE y == some(s)
<1>5. y \in s
  BY <1>3, SomeIsElement
<1>6. p[s] = w[y] + p[s \ {y}]
  BY <1>4, <1>5 DEF SumSteps
<1> HIDE DEF y
<1>7. x # y
  BY <1>3, <1>6
<1>8. \A t \in SUBSET s : t # s => good(t)
  <2> TAKE t \in SUBSET s
  <2> HAVE t # s
  <2>1. t \notin F /\ t \in SUBSET S
    BY <1>2, <1>4
  <2> HIDE DEF good
  <2> QED
    BY <2>1
<1> DEFINE a == s \ {x}
           b == s \ {y}
           c == (s \ {x}) \ {y}
<1>9. p[b] = w[x] + p[b \ {x}]
  <2>1. b \in SUBSET s /\ b # s /\ x \in b
    BY <1>5, <1>7
  <2> HIDE DEF b
  <2> QED
    BY <1>8, <2>1
<1>10. p[a] = w[y] + p[a \ {y}]
  <2>1. a \in SUBSET s /\ a # s /\ y \in a
    BY <1>5, <1>7
  <2> HIDE DEF a
  <2> QED
    BY <1>8, <2>1
<1>11. b \ {x} = c /\ a \ {y} = c
  OBVIOUS
<1>12. p[c] \in Nat /\ w[x] \in Nat /\ w[y] \in Nat
  BY <1>4, <1>5
<1> QED
  <2> HIDE DEF F, good
  <2>1. p[s] = w[y] + p[b] /\ p[b] = w[x] + p[c] /\ p[a] = w[y] + p[c] /\ p[s] # w[x] + p[a]
    BY <1>3, <1>6, <1>9, <1>10, <1>11
  <2> HIDE DEF a, b, c
  <2> QED
    BY <1>12, <2>1

LEMMA SumIsFold ==
    ASSUME NEW S, IsFiniteSet(S), NEW w, \A x \in S : w[x] \in Nat
    PROVE  \E p \in [SUBSET S -> Nat] : SumSteps(p, w, S) /\ SumFunctionOnSet(w, S) = p[S]
<1>1. PICK q \in [SUBSET S -> Nat] : SumRecursive(q, w, S)
  BY SumExists
<1> DEFINE p == CHOOSE p : SumRecursive(p, w, S)
<1>2. SumRecursive(p, w, S)
  BY <1>1
<1>3. SumFunctionOnSet(w, S) = p[S]
  BY DEF SumFunctionOnSet, FoldFunctionOnSet, MapThenFoldSet, some, SumRecursive
<1> HIDE DEF p
<1>4. SumSteps(p, w, S) /\ SumSteps(q, w, S)
  BY <1>1, <1>2 DEF SumSteps, SumRecursive
<1>5. \A s \in SUBSET S : p[s] = q[s]
  BY <1>4, SumUnique
<1>6. p = [s \in SUBSET S |-> p[s]]
  BY <1>2 DEF SumRecursive
<1>7. p \in [SUBSET S -> Nat]
  BY <1>5, <1>6
<1> QED
  BY <1>3, <1>4, <1>7

\* A sum over a finite set: nothing adds up to nothing, any element may be taken
\* out, and only the elements of the set count.
LEMMA SumFacts ==
    ASSUME NEW S, IsFiniteSet(S), NEW w, \A x \in S : w[x] \in Nat
    PROVE  /\ SumFunctionOnSet(w, S) \in Nat
           /\ S = {} => SumFunctionOnSet(w, S) = 0
           /\ \A x \in S : SumFunctionOnSet(w, S) = w[x] + SumFunctionOnSet(w, S \ {x})
<1>1. PICK p \in [SUBSET S -> Nat] : SumSteps(p, w, S) /\ SumFunctionOnSet(w, S) = p[S]
  BY SumIsFold
<1>2. p[S] \in Nat /\ (S = {} => p[S] = 0)
  BY <1>1 DEF SumSteps
<1>4. TakesAny(p, w, S)
  BY <1>1, SumTakesAny
<1>3. ASSUME NEW x \in S PROVE p[S] = w[x] + SumFunctionOnSet(w, S \ {x})
  <2> DEFINE T == S \ {x}
  <2>1. IsFiniteSet(T) /\ T \in SUBSET S
    BY FS_Subset
  <2>2. PICK q \in [SUBSET T -> Nat] : SumSteps(q, w, T) /\ SumFunctionOnSet(w, T) = q[T]
    BY <2>1, SumIsFold
  <2>3. SumSteps(p, w, T)
    BY <1>1 DEF SumSteps
  <2>4. p[T] = q[T]
    <3> HIDE DEF T
    <3> QED
      BY <2>1, <2>2, <2>3, SumUnique
  <2>5. p[S] = w[x] + p[T]
    BY <1>4 DEF TakesAny
  <2> QED
    BY <2>2, <2>4, <2>5
<1> QED
  BY <1>1, <1>2, <1>3

LEMMA SumCongruence ==
    ASSUME NEW S, IsFiniteSet(S), NEW w, \A x \in S : w[x] \in Nat,
           NEW v, \A x \in S : v[x] = w[x]
    PROVE  SumFunctionOnSet(v, S) = SumFunctionOnSet(w, S)
<1>1. PICK p \in [SUBSET S -> Nat] : SumSteps(p, w, S) /\ SumFunctionOnSet(w, S) = p[S]
  BY SumIsFold
<1>2. PICK q \in [SUBSET S -> Nat] : SumSteps(q, v, S) /\ SumFunctionOnSet(v, S) = q[S]
  BY SumIsFold
<1> QED
  BY <1>1, <1>2, SumUnique

(***************************************************************************)
(* Parsing.  parseDigits reads its argument from left to right.            *)
(***************************************************************************)
ParseValues == {ParseError} \cup 0 .. MaxID

parseStep(id, digit) ==
    IF \/ id = ParseError
       \/ digit >= Radix
       \/ id > (MaxID - digit) \div Radix
    THEN ParseError
    ELSE id * Radix + digit

LEMMA ParseStepType ==
    ASSUME NEW id \in ParseValues, NEW digit \in Nat
    PROVE  parseStep(id, digit) \in ParseValues
<1> SUFFICES ASSUME id # ParseError, digit < Radix, id <= (MaxID - digit) \div Radix
             PROVE  id * Radix + digit \in 0 .. MaxID
  BY RadixAssumption, MaxIDAssumption, Division DEF ParseValues, parseStep
<1> DEFINE n == MaxID - digit
           q == n \div Radix
<1>1. n \in Nat /\ Radix \in Nat /\ MaxID \in Nat /\ id \in Nat /\ id <= q
  BY RadixAssumption, MaxIDAssumption DEF ParseValues
<1>2. q \in Nat /\ n % Radix \in Nat /\ n = q * Radix + (n % Radix)
  BY <1>1, Division
<1> HIDE DEF q
<1>3. q * Radix \in Nat /\ id * Radix \in Nat /\ id * Radix <= q * Radix
  BY <1>1, <1>2
<1> QED
  BY <1>1, <1>2, <1>3

LEMMA MaxOfInterval ==
    ASSUME NEW n \in Nat, NEW s \in SUBSET (1 .. n), s # {}
    PROVE  Max(s) \in s /\ \A y \in s : Max(s) >= y
<1> DEFINE T == {k \in Nat : n - k \in s}
<1>1. T \in SUBSET Nat /\ T # {}
  <2>1. PICK x \in s : TRUE
    OBVIOUS
  <2>2. n - x \in Nat /\ n - (n - x) = x
    OBVIOUS
  <2> QED
    BY <2>2
<1>2. PICK z \in T : \A y \in T : z <= y
  <2> HIDE DEF T
  <2> QED
    BY <1>1, LeastNumber
<1>3. PICK x \in s : z = n - x
  OBVIOUS
<1>4. ASSUME NEW y \in s PROVE x >= y
  <2>1. n - y \in Nat /\ n - (n - y) = y
    OBVIOUS
  <2>2. z <= n - y
    BY <1>2, <2>1
  <2> QED
    BY <1>3, <2>2
<1> QED
  BY <1>4 DEF Max

ParseSteps(p, parts) ==
    \A s \in SUBSET DOMAIN parts :
        p[s] = IF s = {} THEN 0 ELSE parseStep(p[s \ {Max(s)}], parts[Max(s)])

ParseRecursive(p, parts) ==
    p = [s \in SUBSET DOMAIN parts |->
            IF s = {} THEN 0 ELSE parseStep(p[s \ {Max(s)}], parts[Max(s)])]

LEMMA ParseExists ==
    ASSUME NEW parts \in Seq(Nat)
    PROVE  \E p \in [SUBSET DOMAIN parts -> ParseValues] : ParseRecursive(p, parts)
<1> DEFINE D == DOMAIN parts
           pick == [s \in SUBSET D |-> Max(s)]
           V == ParseValues
           zero == 0
           G == [q \in V \X SUBSET D |->
                    IF q[2] = {} THEN 0 ELSE parseStep(q[1], parts[Max(q[2])])]
<1>1. D = 1 .. Len(parts) /\ Len(parts) \in Nat /\ IsFiniteSet(D)
  BY FS_Interval
<1>2. Picks(pick, D)
  BY <1>1, MaxOfInterval DEF Picks
<1>3. zero \in V
  BY MaxIDAssumption DEF ParseValues
<1>4. G \in [V \X SUBSET D -> V]
  <2> SUFFICES ASSUME NEW v \in V, NEW s \in SUBSET D
               PROVE  (IF s = {} THEN 0 ELSE parseStep(v, parts[Max(s)])) \in V
    OBVIOUS
  <2>1. s # {} => Max(s) \in D
    BY <1>1, MaxOfInterval
  <2>2. s # {} => parts[Max(s)] \in Nat
    BY <2>1
  <2> QED
    BY <1>3, <2>2, ParseStepType
<1>5. PICK p \in [SUBSET D -> V] : SubsetRecursive(p, D, zero, pick, G)
  <2> HIDE DEF V, pick, G, D, zero
  <2> QED
    BY <1>1, <1>2, <1>3, <1>4, SubsetRecursion
<1>6. \A s \in SUBSET D : s # {} =>
          G[<<p[s \ {pick[s]}], s>>] = parseStep(p[s \ {Max(s)}], parts[Max(s)])
  <2> SUFFICES ASSUME NEW s \in SUBSET D, s # {}
               PROVE  G[<<p[s \ {pick[s]}], s>>] = parseStep(p[s \ {Max(s)}], parts[Max(s)])
    OBVIOUS
  <2>1. pick[s] = Max(s) /\ s \ {Max(s)} \in SUBSET D
    OBVIOUS
  <2>2. p[s \ {Max(s)}] \in V
    BY <2>1
  <2> QED
    BY <2>1, <2>2
<1> HIDE DEF G, pick
<1> DEFINE q == [s \in SUBSET D |->
                    IF s = {} THEN 0 ELSE parseStep(p[s \ {Max(s)}], parts[Max(s)])]
<1>7. \A s \in SUBSET D : p[s] = q[s]
  BY <1>5, <1>6 DEF SubsetRecursive
<1>8. p = q
  <2>1. q = [s \in SUBSET D |-> q[s]]
    OBVIOUS
  <2> HIDE DEF q
  <2> QED
    BY <1>7, <2>1
<1> QED
  BY <1>8 DEF ParseRecursive

LEMMA ParseUnique ==
    ASSUME NEW a \in Seq(Nat), NEW b \in Seq(Nat), Len(a) <= Len(b),
           \A i \in 1 .. Len(a) : a[i] = b[i],
           NEW p, ParseSteps(p, a), NEW q, ParseSteps(q, b)
    PROVE  p[1 .. Len(a)] = q[1 .. Len(a)]
<1> DEFINE S == 1 .. Len(a)
           F == {s \in SUBSET S : p[s] # q[s]}
<1>1. S = DOMAIN a /\ S \subseteq DOMAIN b /\ Len(a) \in Nat
  OBVIOUS
<1> SUFFICES ASSUME F # {} PROVE FALSE
  OBVIOUS
<1>2. F \subseteq FiniteSubsetsOf(S)
  <2>1. IsFiniteSet(S)
    BY <1>1, FS_Interval
  <2> HIDE DEF S
  <2> QED
    BY <2>1, FS_Subset DEF FiniteSubsetsOf
<1>3. PICK s \in F : \A t \in F : t \subseteq s => t = s
  <2> HIDE DEF F
  <2> QED
    BY <1>2, MinimalSubset
<1>4. s \in SUBSET DOMAIN a /\ s \in SUBSET DOMAIN b /\ p[s] # q[s] /\ s # {}
  BY <1>1 DEF ParseSteps
<1>5. Max(s) \in s
  BY <1>1, <1>4, MaxOfInterval
<1>6. s \ {Max(s)} \notin F
  BY <1>3, <1>5
<1>7. p[s \ {Max(s)}] = q[s \ {Max(s)}] /\ a[Max(s)] = b[Max(s)]
  BY <1>1, <1>4, <1>5, <1>6
<1> HIDE DEF F
<1> QED
  BY <1>4, <1>7 DEF ParseSteps

LEMMA ParseIsFold ==
    ASSUME NEW parts \in Seq(Nat)
    PROVE  \E p : ParseSteps(p, parts) /\ parseDigits(parts) = p[1 .. Len(parts)]
                  /\ p[1 .. Len(parts)] \in ParseValues
<1>1. PICK q \in [SUBSET DOMAIN parts -> ParseValues] : ParseRecursive(q, parts)
  BY ParseExists
<1> DEFINE p == CHOOSE p : ParseRecursive(p, parts)
<1>2. ParseRecursive(p, parts)
  BY <1>1
<1>3. parseDigits(parts) = p[DOMAIN parts]
  BY DEF parseDigits, FoldLeft, MapThenFoldSet, ParseRecursive, parseStep
<1> HIDE DEF p
<1>4. ParseSteps(p, parts) /\ ParseSteps(q, parts)
  BY <1>1, <1>2 DEF ParseSteps, ParseRecursive
<1>5. DOMAIN parts = 1 .. Len(parts) /\ Len(parts) \in Nat
  OBVIOUS
<1>6. p[1 .. Len(parts)] = q[1 .. Len(parts)]
  BY <1>4, <1>5, ParseUnique
<1>7. q[1 .. Len(parts)] \in ParseValues
  BY <1>1, <1>5
<1> QED
  BY <1>3, <1>4, <1>5, <1>6, <1>7

LEMMA ParseAppend ==
    ASSUME NEW parts \in Seq(Nat), NEW digit \in Nat
    PROVE  /\ parseDigits(parts) \in ParseValues
           /\ parts = <<>> => parseDigits(parts) = 0
           /\ parseDigits(Append(parts, digit)) = parseStep(parseDigits(parts), digit)
<1> DEFINE n == Len(parts)
           longer == Append(parts, digit)
<1>1. PICK p : ParseSteps(p, parts) /\ parseDigits(parts) = p[1 .. n] /\ p[1 .. n] \in ParseValues
  BY ParseIsFold
<1>2. /\ longer \in Seq(Nat) /\ Len(longer) = n + 1 /\ n \in Nat
      /\ \A i \in 1 .. n : parts[i] = longer[i]
      /\ longer[n + 1] = digit
  OBVIOUS
<1>3. PICK q : ParseSteps(q, longer) /\ parseDigits(longer) = q[1 .. Len(longer)]
  BY <1>2, ParseIsFold
<1>4. p[1 .. n] = q[1 .. n]
  <2> HIDE DEF longer
  <2> QED
    BY <1>1, <1>2, <1>3, ParseUnique
<1> DEFINE s == 1 .. n + 1
<1>5. s \in SUBSET DOMAIN longer /\ s # {} /\ n + 1 \in Nat /\ s \in SUBSET (1 .. n + 1)
  BY <1>2
<1>6. Max(s) = n + 1
  <2>1. Max(s) \in s /\ \A y \in s : Max(s) >= y
    <3> HIDE DEF s
    <3> QED
      BY <1>5, MaxOfInterval
  <2> QED
    BY <1>2, <2>1
<1>7. s \ {n + 1} = 1 .. n
  BY <1>2
<1>8. q[s] = parseStep(q[1 .. n], digit)
  <2>1. q[s] = parseStep(q[s \ {Max(s)}], longer[Max(s)])
    <3> HIDE DEF s, longer
    <3> QED
      BY <1>3, <1>5 DEF ParseSteps
  <2> QED
    BY <1>2, <1>6, <1>7, <2>1
<1>9. parts = <<>> => p[1 .. n] = 0
  <2> SUFFICES ASSUME parts = <<>> PROVE p[1 .. n] = 0
    OBVIOUS
  <2>1. 1 .. n = {}
    OBVIOUS
  <2> QED
    BY <1>1, <2>1 DEF ParseSteps
<1> QED
  BY <1>1, <1>2, <1>3, <1>4, <1>8, <1>9

\* The digits of an ID spell it, and nothing on the way leaves the ID space.
LEMMA ParseInverse == \A id \in 0 .. MaxID : parseDigits(digits[id]) = id
<1> DEFINE S == {id \in Nat : id <= MaxID => parseDigits(digits[id]) = id}
<1>1. ASSUME NEW n \in Nat, \A m \in 0 .. n - 1 : m \in S PROVE n \in S
  <2> SUFFICES ASSUME n <= MaxID PROVE parseDigits(digits[n]) = n
    OBVIOUS
  <2>1. CASE n = 0
    <3>1. <<>> \in Seq(Nat) /\ digits[0] = <<>> /\ 0 \in Nat
      BY DigitsRecursion
    <3>2. parseDigits(<<>>) = 0
      BY <3>1, ParseAppend
    <3> QED
      BY <2>1, <3>1, <3>2
  <2>2. CASE n # 0
    <3> DEFINE m == n \div Radix
               d == n % Radix
    <3>1. m \in 0 .. n - 1 /\ d \in 0 .. Radix - 1 /\ n = m * Radix + d
      BY <2>2, Division
    <3>2. digits[n] = Append(digits[m], d)
      BY <2>2, DigitsRecursion
    <3>3. digits[m] \in Seq(Nat) /\ d \in Nat
      <4>1. digits[m] \in Seq(0 .. Radix - 1)
        BY <3>1, DigitsRecursion
      <4> QED
        BY <3>1, <4>1, RadixAssumption
    <3> HIDE DEF m, d
    <3>4. parseDigits(digits[m]) = m
      <4>1. m \in S /\ m <= MaxID
        BY <1>1, <3>1, MaxIDAssumption
      <4> QED
        BY <4>1
    <3>5. parseDigits(digits[n]) = parseStep(m, d)
      BY <3>2, <3>3, <3>4, ParseAppend
    <3>6. parseStep(m, d) = m * Radix + d
      <4> DEFINE k == MaxID - d
                 q == k \div Radix
      <4>1. /\ k \in Nat /\ Radix \in Nat /\ Radix > 1 /\ MaxID \in Nat /\ m \in Nat
            /\ d \in Nat /\ d < Radix /\ m * Radix \in Nat /\ m * Radix <= k
        BY <3>1, RadixAssumption, MaxIDAssumption
      <4>2. q \in Nat /\ k % Radix \in 0 .. Radix - 1 /\ k = q * Radix + (k % Radix)
        BY <4>1, Division
      <4>3. q * Radix \in Nat /\ k < q * Radix + Radix
        BY <4>1, <4>2
      <4>4. m <= q
        <5> HIDE DEF q, k
        <5> SUFFICES ASSUME m >= q + 1 PROVE FALSE
          BY <4>1, <4>2
        <5>1. m * Radix >= (q + 1) * Radix
          BY <4>1, <4>2
        <5>2. (q + 1) * Radix = q * Radix + Radix
          BY <4>1, <4>2
        <5> QED
          BY <4>1, <4>3, <5>1, <5>2
      <4> QED
        BY <4>1, <4>2, <4>4 DEF parseStep, ParseError
    <3> QED
      BY <3>1, <3>5, <3>6
  <2> QED
    BY <2>1, <2>2
<1>2. S = Nat
  <2>1. S \in SUBSET Nat
    OBVIOUS
  <2> HIDE DEF S
  <2> QED
    BY <1>1, <2>1, NumberInduction
<1> QED
  BY <1>2, MaxIDAssumption

LEMMA RelativePath ==
    ASSUME NEW id \in 1 .. MaxID
    PROVE  /\ messageRelativePath[id] \in Seq(Nat)
           /\ Len(messageRelativePath[id]) >= 2
           /\ Len(messageRelativePath[id]) = Len(digits[id]) + 1
           /\ messageRelativePath[id][1] = Len(digits[id])
           /\ Tail(messageRelativePath[id]) = digits[id]
<1>1. id \in Nat /\ id # 0
  BY MaxIDAssumption
<1> DEFINE s == digits[id]
           t == digits[id \div Radix]
<1>2. s \in Seq(0 .. Radix - 1) /\ Len(s) >= 1
  <2>1. t \in Seq(0 .. Radix - 1) /\ id % Radix \in 0 .. Radix - 1 /\ s = Append(t, id % Radix)
    BY <1>1, Division, DigitsRecursion
  <2> HIDE DEF t, s
  <2> QED
    BY <2>1
<1>3. s \in Seq(Nat) /\ Len(s) \in Nat
  BY <1>2, RadixAssumption
<1>4. messageRelativePath[id] = <<Len(s)>> \o s
  BY DEF messageRelativePath
<1> HIDE DEF s
<1> DEFINE p == <<Len(s)>> \o s
<1>5. p \in Seq(Nat) /\ Len(p) = Len(s) + 1 /\ p[1] = Len(s)
  BY <1>3
<1>6. Tail(p) = s
  BY <1>3
<1> QED
  BY <1>2, <1>4, <1>5, <1>6 DEF s

\* The path of an ID is read back as that ID.
LEMMA PathInverse ==
    \A id \in 1 .. MaxID : messageIDFromPath(messageRelativePath[id]) = id
<1> TAKE id \in 1 .. MaxID
<1>1. id \in 0 .. MaxID /\ id # 0 /\ id # ParseError
  BY MaxIDAssumption DEF ParseError
<1>2. parseDigits(Tail(messageRelativePath[id])) = id
  BY <1>1, ParseInverse, RelativePath
<1>3. Len(messageRelativePath[id]) >= 2 /\ Len(messageRelativePath[id]) \in Nat
  BY RelativePath
<1> QED
  BY <1>1, <1>2, <1>3 DEF messageIDFromPath

\* A message file is read back as its message.
LEMMA MessageInverse ==
    ASSUME NEW id \in 1 .. MaxID, NEW size
    PROVE  messageFromPath(messagePath(id, size)) = [ID |-> id, Size |-> size]
<1>1. id # ParseError
  BY MaxIDAssumption DEF ParseError
<1> QED
  BY <1>1, PathInverse DEF messageFromPath, messagePath
=============================================================================
