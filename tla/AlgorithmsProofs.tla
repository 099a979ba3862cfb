-------------------------- MODULE AlgorithmsProofs --------------------------
(***************************************************************************)
(* Proofs that the algorithms compute what they are to compute: the        *)
(* elimination for every linear system, the garbled Bloom filter for every *)
(* size and all digests, the hashing for every number of bins, every       *)
(* length and every element.  They run alone, so each has an invariant of  *)
(* its own.  Where a sum or a power is meant for every natural or every    *)
(* finite set, a least one for which it fails is led to a contradiction.   *)
(***************************************************************************)
EXTENDS Algorithms, FiniteSetTheorems, WellFoundedInduction, TLAPS

-----------------------------------------------------------------------------
(***************************************************************************)
(* Numbers and parities.                                                   *)
(***************************************************************************)

\* A nonempty set of naturals has a lowest element: what stands for induction.
LEMMA LowestOf ==
  ASSUME NEW S, S \subseteq Nat, S # {}
  PROVE  \E n \in S : \A m \in S : n <= m
<1>1. IsWellFoundedOn(OpToRel(<, Nat), Nat)
  BY NatLessThanWellFounded
<1>2. PICK n \in S : \A m \in S : <<m, n>> \notin OpToRel(<, Nat)
  BY <1>1, WFMin
<1>3. ASSUME NEW m \in S PROVE n <= m
  <2>1. m \in Nat /\ n \in Nat
    OBVIOUS
  <2>2. <<m, n>> \notin {ss \in Nat \X Nat : ss[1] < ss[2]}
    BY <1>2 DEF OpToRel
  <2>3. ~(m < n)
    BY <2>1, <2>2
  <2> QED BY <2>1, <2>3
<1> QED BY <1>3

Odd(S) == Cardinality(S) % 2 = 1

SymmetricDifference(S, T) == (S \ T) \cup (T \ S)

\* One element more turns an even number of them into an odd one, and back.
LEMMA OddOneMore ==
  ASSUME NEW S, IsFiniteSet(S), NEW x, x \notin S
  PROVE  IsFiniteSet(S \cup {x}) /\ (Odd(S \cup {x}) <=> ~Odd(S))
<1>1. IsFiniteSet(S \cup {x}) /\ Cardinality(S \cup {x}) = Cardinality(S) + 1
  BY FS_AddElement
<1>2. Cardinality(S) \in Nat
  BY FS_CardinalityType
<1> QED BY <1>1, <1>2 DEF Odd

\* Parities add up.
LEMMA OddDifference ==
  ASSUME NEW S, NEW T, IsFiniteSet(S), IsFiniteSet(T)
  PROVE  Odd(SymmetricDifference(S, T)) <=> ~(Odd(S) <=> Odd(T))
<1> DEFINE U == S \ T
           V == T \ S
<1>1. /\ IsFiniteSet(U) /\ Cardinality(U) = Cardinality(S) - Cardinality(S \cap T)
      /\ IsFiniteSet(V) /\ Cardinality(V) = Cardinality(T) - Cardinality(T \cap S)
  BY FS_Difference
<1>2. U \cap V = {} /\ S \cap T = T \cap S
  OBVIOUS
<1>3. Cardinality(U \cup V) = Cardinality(U) + Cardinality(V) - Cardinality(U \cap V)
  BY <1>1, FS_Union
<1>4. Cardinality(U \cap V) = 0
  BY <1>2, FS_EmptySet
<1>5. IsFiniteSet(S \cap T)
  BY FS_Intersection
<1>6. /\ Cardinality(S) \in Nat /\ Cardinality(T) \in Nat /\ Cardinality(S \cap T) \in Nat
      /\ Cardinality(U) \in Nat /\ Cardinality(V) \in Nat
  BY <1>1, <1>5, FS_CardinalityType
<1> DEFINE s == Cardinality(S)
           t == Cardinality(T)
           c == Cardinality(S \cap T)
           d == Cardinality(SymmetricDifference(S, T))
<1>7. s \in Nat /\ t \in Nat /\ c \in Nat
  BY <1>6
<1>8. d = Cardinality(U \cup V)
  BY DEF SymmetricDifference
<1>9. d = (s - c) + (t - c)
  <2>1. Cardinality(U) = s - c /\ Cardinality(V) = t - c
    BY <1>1, <1>2
  <2>2. d = Cardinality(U) + Cardinality(V) - 0
    BY <1>3, <1>4, <1>8
  <2> HIDE DEF s, t, c, d, U, V
  <2> QED BY <1>7, <2>1, <2>2
<1> HIDE DEF s, t, c, d
<1>10. d % 2 = 1 <=> ~(s % 2 = 1 <=> t % 2 = 1)
  BY <1>7, <1>9
<1> QED BY <1>10 DEF Odd, s, t, d

-----------------------------------------------------------------------------
(***************************************************************************)
(* Vectors over GF(2).                                                     *)
(***************************************************************************)

\* The two components count as FiniteSets does.
LEMMA SameCardinality ==
  \A S : EL!Cardinality(S) = Cardinality(S) /\ GF!Cardinality(S) = Cardinality(S)
BY DEF EL!Cardinality, GF!Cardinality, Cardinality

\* A product is 1 if an odd number of ones meet.
LEMMA DotOdd ==
  \A u, x : EL!Dot(u, x) <=> Odd(u \cap x)
BY SameCardinality DEF EL!Dot, Odd

\* A product with a sum is the sum of the products.
LEMMA DotAdd ==
  ASSUME NEW u, NEW v, NEW x, IsFiniteSet(x)
  PROVE  EL!Dot(EL!Add(u, v), x) <=> ~(EL!Dot(u, x) <=> EL!Dot(v, x))
<1>1. IsFiniteSet(u \cap x) /\ IsFiniteSet(v \cap x)
  BY FS_Intersection
<1>2. EL!Add(u, v) \cap x = SymmetricDifference(u \cap x, v \cap x)
  BY DEF EL!Add, SymmetricDifference
<1>3. EL!Dot(EL!Add(u, v), x) <=> Odd(SymmetricDifference(u \cap x, v \cap x))
  BY <1>2, DotOdd
<1> QED BY <1>1, <1>3, OddDifference, DotOdd

\* And so is a product of a sum.
LEMMA AddDot ==
  ASSUME NEW u, NEW x, NEW y, IsFiniteSet(x), IsFiniteSet(y)
  PROVE  EL!Dot(u, EL!Add(x, y)) <=> ~(EL!Dot(u, x) <=> EL!Dot(u, y))
<1>1. IsFiniteSet(u \cap x) /\ IsFiniteSet(u \cap y)
  BY FS_Intersection
<1>2. u \cap EL!Add(x, y) = SymmetricDifference(u \cap x, u \cap y)
  BY DEF EL!Add, SymmetricDifference
<1>3. EL!Dot(u, EL!Add(x, y)) <=> Odd(SymmetricDifference(u \cap x, u \cap y))
  BY <1>2, DotOdd
<1>4. Odd(SymmetricDifference(u \cap x, u \cap y)) <=> ~(Odd(u \cap x) <=> Odd(u \cap y))
  BY <1>1, OddDifference
<1> QED BY <1>3, <1>4, DotOdd

\* One column more counts where the row has a 1.
LEMMA DotOneMore ==
  ASSUME NEW u, NEW x, IsFiniteSet(x), NEW c, c \notin x
  PROVE  EL!Dot(u, x \cup {c}) <=> IF c \in u THEN ~EL!Dot(u, x) ELSE EL!Dot(u, x)
<1>1. IsFiniteSet(u \cap x)
  BY FS_Intersection
<1>2. CASE c \in u
  <2>1. u \cap (x \cup {c}) = (u \cap x) \cup {c} /\ c \notin u \cap x
    BY <1>2
  <2>2. Odd((u \cap x) \cup {c}) <=> ~Odd(u \cap x)
    BY <1>1, <2>1, OddOneMore
  <2> QED BY <1>2, <2>1, <2>2, DotOdd
<1>3. CASE c \notin u
  <2>1. u \cap (x \cup {c}) = u \cap x
    BY <1>3
  <2> QED BY <1>3, <2>1 DEF EL!Dot
<1> QED BY <1>2, <1>3

\* What does not meet has product 0.
LEMMA DotNothing ==
  ASSUME NEW u, NEW x, u \cap x = {}
  PROVE  ~EL!Dot(u, x)
<1>1. Cardinality(u \cap x) = 0
  BY FS_EmptySet
<1> QED BY <1>1, DotOdd DEF Odd

-----------------------------------------------------------------------------
(***************************************************************************)
(* Elimination: the inductive invariant.  Adding one equation to another   *)
(* keeps the solutions.  Column c gets its 1 on the diagonal: if no row    *)
(* from c on had one there, the columns up to c were dependent.  Rows      *)
(* below the triangle are zero, so a 1 on their right side says that there *)
(* is no solution; otherwise substituting upwards builds the only one.     *)
(***************************************************************************)

IsSystem(s) ==
  /\ s.rows \in Nat \ {0} /\ s.cols \in Nat \ {0} /\ s.block \in Nat \ {0}
  /\ s.cols % s.block = 0
  /\ s.A \in [0 .. s.rows - 1 -> SUBSET (0 .. s.cols - 1)]
  /\ s.b \subseteq 0 .. s.rows - 1

Solves(M, v, x) == \A r \in DOMAIN M : EL!Dot(M[r], x) <=> r \in v

\* Every column before n has its 1 on the diagonal and none below.
Triangular(M, n, rows) ==
  \A c \in 0 .. n - 1 : c \in M[c] /\ \A r \in c + 1 .. rows - 1 : c \notin M[r]

ElTypes ==
  /\ IsSystem(system)
  /\ A \in [EL!Row -> SUBSET EL!Col] /\ b \subseteq EL!Row
  /\ nextRow \in Nat /\ lastRow \in -1 .. system.rows - 1
  /\ sol \in SUBSET EL!Col
  /\ stage \in {"reduce", "zeroRows", "substitute", "solved", "thrown"}
  /\ stage \in {"reduce", "zeroRows", "substitute"} => col \in EL!Col
  /\ stage \in {"reduce", "zeroRows"} => lastRow \in EL!Row

\* What is transformed has the solutions of what it was called with, and so has
\* the homogeneous system.
SameSolutions ==
  \A x \in SUBSET EL!Col :
    /\ Solves(A, b, x) <=> Solves(system.A, system.b, x)
    /\ Solves(A, {}, x) <=> Solves(system.A, {}, x)

Reducing ==
  stage = "reduce" =>
    /\ nextRow = col /\ col <= system.rows /\ Triangular(A, col, system.rows)
    /\ lastRow = system.rows - 1 /\ sol = {}

Reduced ==
  stage # "reduce" => system.cols <= system.rows /\ Triangular(A, system.cols, system.rows)

DroppingZeroRows ==
  stage = "zeroRows" =>
    /\ col = system.cols - 1 /\ sol = {}
    /\ lastRow \in system.cols - 1 .. system.rows - 1
    /\ \A r \in lastRow + 1 .. system.rows - 1 : r \notin b

Substituting ==
  stage = "substitute" =>
    /\ lastRow = col
    /\ sol \subseteq col + 1 .. system.cols - 1
    /\ \A r \in system.cols .. system.rows - 1 : r \notin b
    /\ \A r \in col + 1 .. system.cols - 1 : EL!Dot(A[r], sol) <=> r \in b

Answer ==
  /\ stage = "solved" => Solves(A, b, sol)
  /\ stage = "thrown" => \A x \in SUBSET EL!Col : ~Solves(A, b, x)

ElInv ==
  /\ ElTypes
  /\ SameSolutions
  /\ Independent => Reducing /\ Reduced /\ DroppingZeroRows /\ Substituting /\ Answer

\* A right side that A times x is to be, told row by row.
LEMMA TimesSolves ==
  ASSUME NEW D, NEW M, DOMAIN M = D, NEW v, v \subseteq D, NEW x
  PROVE  EL!Times(M, x) = v <=> Solves(M, v, x)
BY DEF EL!Times, Solves

Exchange(D, M, i, n) == [r \in D |-> M[EL!Swap(i, n, r)]]
Elements(v, i, n) == {EL!Swap(i, n, r) : r \in v}
AddTo(D, M, n, below) == [r \in D |-> IF r \in below THEN EL!Add(M[r], M[n]) ELSE M[r]]
Entries(v, n, below) == IF n \in v THEN EL!Add(v, below) ELSE v

\* Rows that change places, in A and in b, change no solution.
LEMMA ExchangeSolves ==
  ASSUME NEW D, NEW M, DOMAIN M = D, NEW i \in D, NEW n \in D, NEW v, v \subseteq D, NEW x
  PROVE  /\ Solves(Exchange(D, M, i, n), Elements(v, i, n), x) <=> Solves(M, v, x)
         /\ Elements(v, i, n) \subseteq D
<1> DEFINE S(r) == EL!Swap(i, n, r)
           N == Exchange(D, M, i, n)
           w == Elements(v, i, n)
<1>1. \A r \in D : S(r) \in D /\ S(S(r)) = r
  BY DEF EL!Swap
<1>2. w = {S(r) : r \in v}
  BY DEF Elements
<1>3. DOMAIN N = D /\ \A r \in D : N[r] = M[S(r)]
  BY DEF Exchange
<1> HIDE DEF S, N, w
<1>4. \A r \in D : r \in w <=> S(r) \in v
  BY <1>1, <1>2
<1>5. w \subseteq D
  BY <1>1, <1>2
<1>6. ASSUME Solves(M, v, x) PROVE Solves(N, w, x)
  <2>1. ASSUME NEW r \in D PROVE EL!Dot(N[r], x) <=> r \in w
    <3>1. S(r) \in D
      BY <1>1
    <3>2. EL!Dot(M[S(r)], x) <=> S(r) \in v
      BY <1>6, <3>1 DEF Solves
    <3> QED BY <1>3, <1>4, <3>2
  <2> QED BY <1>3, <2>1 DEF Solves
<1>7. ASSUME Solves(N, w, x) PROVE Solves(M, v, x)
  <2>1. ASSUME NEW r \in D PROVE EL!Dot(M[r], x) <=> r \in v
    <3>1. S(r) \in D /\ S(S(r)) = r
      BY <1>1
    <3>2. EL!Dot(N[S(r)], x) <=> S(r) \in w
      BY <1>3, <1>7, <3>1 DEF Solves
    <3>3. N[S(r)] = M[r]
      BY <1>3, <3>1
    <3>4. S(r) \in w <=> r \in v
      BY <1>4, <3>1
    <3> QED BY <3>2, <3>3, <3>4
  <2> QED BY <2>1 DEF Solves
<1> QED BY <1>5, <1>6, <1>7 DEF N, w

\* Nor does a row that is added to others, if its entry of b is added to theirs.
LEMMA AddToSolves ==
  ASSUME NEW D, NEW M, DOMAIN M = D, NEW n \in D, NEW below, below \subseteq D, n \notin below,
         NEW v, v \subseteq D, NEW x, IsFiniteSet(x)
  PROVE  /\ Solves(AddTo(D, M, n, below), Entries(v, n, below), x) <=> Solves(M, v, x)
         /\ Entries(v, n, below) \subseteq D
<1> DEFINE N == AddTo(D, M, n, below)
           w == Entries(v, n, below)
<1>1. \A r \in D : EL!Dot(N[r], x) <=> IF r \in below THEN ~(EL!Dot(M[r], x) <=> EL!Dot(M[n], x))
                                                      ELSE EL!Dot(M[r], x)
  BY DotAdd DEF AddTo
<1>2. \A r \in D : r \in w <=> IF r \in below THEN ~(r \in v <=> n \in v) ELSE r \in v
  BY DEF Entries, EL!Add
<1>3. DOMAIN N = D
  BY DEF AddTo
<1>4. w \subseteq D
  BY DEF Entries, EL!Add
<1> HIDE DEF N, w
<1>5. ASSUME Solves(M, v, x) PROVE Solves(N, w, x)
  <2>1. ASSUME NEW r \in D PROVE EL!Dot(N[r], x) <=> r \in w
    <3>1. (EL!Dot(M[r], x) <=> r \in v) /\ (EL!Dot(M[n], x) <=> n \in v)
      BY <1>5 DEF Solves
    <3> QED BY <1>1, <1>2, <3>1
  <2> QED BY <1>3, <2>1 DEF Solves
<1>6. ASSUME Solves(N, w, x) PROVE Solves(M, v, x)
  <2>1. EL!Dot(M[n], x) <=> n \in v
    BY <1>1, <1>2, <1>3, <1>6 DEF Solves
  <2>2. ASSUME NEW r \in D PROVE EL!Dot(M[r], x) <=> r \in v
    <3>1. EL!Dot(N[r], x) <=> r \in w
      BY <1>3, <1>6 DEF Solves
    <3> QED BY <1>1, <1>2, <2>1, <3>1
  <2> QED BY <2>2 DEF Solves
<1> QED BY <1>4, <1>5, <1>6 DEF N, w

\* A column without a 1 in the rows that are left is a sum of those before it:
\* below the first columns, on and above the diagonal, there is a choice of
\* columns that add up to nothing.
LEMMA Dependent ==
  ASSUME NEW R \in Nat, NEW C \in Nat, NEW M \in [0 .. R - 1 -> SUBSET (0 .. C - 1)],
         NEW k \in 0 .. C - 1, k <= R,
         \A c \in 0 .. k - 1 : c \in M[c] /\ \A r \in c + 1 .. R - 1 : c \notin M[r],
         \A r \in k .. R - 1 : k \notin M[r]
  PROVE  \E x \in SUBSET (0 .. C - 1) : x # {} /\ \A r \in 0 .. R - 1 : ~EL!Dot(M[r], x)
<1> DEFINE From(n, x) == k \in x /\ \A r \in n .. R - 1 : ~EL!Dot(M[r], x)
           Found(j) == \E x \in SUBSET (k - j .. k) : From(k - j, x)
           S == {j \in 0 .. k : ~Found(j)}
<1>1. k \in Nat
  OBVIOUS
<1>2. Found(0)
  <2>1. \A r \in k .. R - 1 : ~EL!Dot(M[r], {k})
    BY DotNothing
  <2>2. From(k, {k})
    BY <2>1
  <2>3. {k} \in SUBSET (k .. k)
    BY <1>1
  <2>4. k - 0 = k
    BY <1>1
  <2> HIDE DEF From
  <2> QED BY <2>2, <2>3, <2>4
<1>3. ASSUME NEW j \in Nat, j + 1 <= k, Found(j) PROVE Found(j + 1)
  <2> DEFINE n == k - (j + 1)
  <2>1. n \in 0 .. k - 1 /\ k - j = n + 1 /\ n \in Nat
    BY <1>1, <1>3
  <2> HIDE DEF n
  <2>2. PICK x \in SUBSET (n + 1 .. k) : From(n + 1, x)
    BY <1>3, <2>1
  <2> DEFINE y == IF EL!Dot(M[n], x) THEN x \cup {n} ELSE x
  <2>3. y \in SUBSET (n .. k) /\ k \in y
    BY <1>1, <2>1, <2>2
  <2>4. n \notin x /\ IsFiniteSet(x)
    <3>1. IsFiniteSet(n + 1 .. k)
      <4>1. n + 1 \in Int /\ k \in Int
        BY <1>1, <2>1
      <4> QED BY <4>1, FS_Interval
    <3>2. IsFiniteSet(x)
      BY <3>1, FS_Subset
    <3>3. n \notin x
      BY <2>1
    <3> QED BY <3>2, <3>3
  <2>5. ASSUME NEW r \in n .. R - 1 PROVE ~EL!Dot(M[r], y)
    <3>1. CASE r = n
      <4>1. n \in M[n]
        BY <2>1
      <4> QED BY <2>4, <3>1, <4>1, DotOneMore
    <3>2. CASE r # n
      <4>1. r \in n + 1 .. R - 1
        BY <2>1, <3>2
      <4>2. ~EL!Dot(M[r], x)
        BY <2>2, <4>1
      <4>3. n \notin M[r]
        BY <2>1, <4>1
      <4> QED BY <2>4, <4>2, <4>3, DotOneMore
    <3> QED BY <3>1, <3>2
  <2>6. From(n, y)
    BY <2>3, <2>5
  <2> QED BY <2>3, <2>6 DEF n
<1> HIDE DEF Found
<1>4. S = {}
  <2>1. SUFFICES ASSUME S # {} PROVE FALSE
    OBVIOUS
  <2>2. PICK m \in S : \A j \in S : m <= j
    <3>1. S \subseteq Nat
      BY <1>1
    <3> QED BY <2>1, <3>1, LowestOf
  <2>3. m \in Nat /\ m # 0 /\ m <= k
    BY <1>1, <1>2, <2>2
  <2>4. m - 1 \in Nat /\ m - 1 \in 0 .. k /\ m - 1 \notin S /\ (m - 1) + 1 = m
    BY <1>1, <2>2, <2>3
  <2>5. Found(m - 1)
    BY <2>4
  <2>6. Found(m)
    BY <1>3, <2>3, <2>4, <2>5
  <2> QED BY <2>2, <2>6
<1>5. Found(k)
  BY <1>1, <1>4
<1>6. PICK x \in SUBSET (0 .. k) : From(0, x)
  <2>1. k - k = 0
    BY <1>1
  <2> QED BY <1>5, <2>1 DEF Found
<1>7. x \in SUBSET (0 .. C - 1) /\ x # {}
  BY <1>1, <1>6
<1> QED BY <1>6, <1>7

\* Every algorithm but one leaves the linear system alone, and the run that
\* needs none starts with one.
LEMMA ElStart ==
  ASSUME NEW s, IsSystem(s), EL!Start(s)
  PROVE  ElInv
<1>1. system = s /\ A = s.A /\ b = s.b /\ nextRow = 0 /\ col = 0 /\ lastRow = s.rows - 1
      /\ sol = {} /\ stage = "reduce"
  BY DEF EL!Start
<1>2. s.rows \in Nat \ {0} /\ s.cols \in Nat \ {0}
  BY DEF IsSystem
<1>3. ElTypes
  BY <1>1, <1>2 DEF ElTypes, IsSystem, EL!Row, EL!Col
<1>4. SameSolutions
  BY <1>1 DEF SameSolutions
<1>5. Reducing
  BY <1>1, <1>2 DEF Reducing, Triangular
<1>6. Reduced /\ DroppingZeroRows /\ Substituting /\ Answer
  BY <1>1 DEF Reduced, DroppingZeroRows, Substituting, Answer
<1> QED BY <1>3, <1>4, <1>5, <1>6 DEF ElInv

\* What isZeroXOR is called with satisfies the invariant.
LEMMA ElInit == Init => ElInv
<1> SUFFICES ASSUME Init PROVE ElInv
  OBVIOUS
<1>1. CASE NoSystem
  <2> DEFINE s == [rows |-> 1, cols |-> 1, block |-> 1, A |-> [r \in {0} |-> {}], b |-> {}]
  <2>1. s.rows = 1 /\ s.cols = 1 /\ s.block = 1 /\ s.A = [r \in {0} |-> {}] /\ s.b = {}
    OBVIOUS
  <2>2. EL!Start(s)
    BY <1>1 DEF NoSystem
  <2> HIDE DEF s
  <2>3. 0 .. 1 - 1 = {0}
    OBVIOUS
  <2>4. IsSystem(s)
    BY <2>1, <2>3 DEF IsSystem
  <2> QED BY <2>2, <2>4, ElStart
<1>2. CASE \E s \in Systems : EL!Start(s)
  <2>1. PICK s \in Systems : EL!Start(s)
    BY <1>2
  <2>2. IsSystem(s)
    BY SystemSizes DEF IsSystem
  <2> QED BY <2>1, <2>2, ElStart
<1> QED BY <1>1, <1>2 DEF Init

\* Independence, told of the rows as they are transformed.
LEMMA IndependentNow ==
  ASSUME ElTypes, SameSolutions, Independent,
         NEW x \in SUBSET EL!Col, Solves(A, {}, x)
  PROVE  x = {}
<1>1. Solves(system.A, {}, x)
  BY DEF SameSolutions
<1>2. DOMAIN system.A = 0 .. system.rows - 1
  BY DEF ElTypes, IsSystem
<1>3. EL!Times(system.A, x) = {}
  BY <1>1, <1>2, TimesSolves
<1> QED BY <1>3 DEF Independent

\* A vector has finitely many places.
LEMMA ColsFinite ==
  ASSUME ElTypes
  PROVE  \A x \in SUBSET EL!Col : IsFiniteSet(x)
<1>1. 0 \in Int /\ system.cols - 1 \in Int
  BY DEF ElTypes, IsSystem
<1>2. IsFiniteSet(EL!Col)
  BY <1>1, FS_Interval DEF EL!Col
<1> QED BY <1>2, FS_Subset

\* A row is exchanged and added, the column counter moves on.
LEMMA ElReduce ==
  ASSUME ElInv, EL!Reduce
  PROVE  ElInv'
<1> DEFINE candidates == {i \in nextRow .. system.rows - 1 : col \in A[i]}
           n == nextRow
           D == EL!Row
<1>1. /\ ElTypes /\ SameSolutions
      /\ Independent => Reducing /\ Reduced /\ DroppingZeroRows /\ Substituting /\ Answer
  BY DEF ElInv
<1>2. /\ stage = "reduce" /\ system' = system /\ lastRow' = lastRow /\ sol' = sol
      /\ IF col + 1 < system.cols
         THEN col' = col + 1 /\ stage' = stage
         ELSE stage' = "zeroRows" /\ col' = col
  BY DEF EL!Reduce
<1>3. EL!Row' = EL!Row /\ EL!Col' = EL!Col /\ (Independent' <=> Independent)
  BY <1>2 DEF EL!Row, EL!Col, Independent, EL!Times, EL!Dot
<1>4. /\ system.rows \in Nat \ {0} /\ system.cols \in Nat \ {0} /\ n \in Nat
      /\ A \in [D -> SUBSET EL!Col] /\ b \subseteq D /\ col \in EL!Col
  BY <1>1, <1>2 DEF ElTypes, IsSystem
<1>5. (col' \in EL!Col) /\ (col + 1 < system.cols => col' = col + 1)
      /\ (~(col + 1 < system.cols) => col + 1 = system.cols)
  BY <1>2, <1>4 DEF EL!Col
<1>6. CASE candidates = {}
  <2>1. A' = A /\ b' = b /\ nextRow' = nextRow
    BY <1>6 DEF EL!Reduce
  <2>2. ElTypes'
    BY <1>1, <1>2, <1>3, <1>5, <2>1 DEF ElTypes
  <2>3. SameSolutions'
    BY <1>1, <1>2, <1>3, <2>1 DEF SameSolutions
  <2>4. ~Independent
    <3>1. SUFFICES ASSUME Independent PROVE FALSE
      OBVIOUS
    <3>2. n = col /\ col <= system.rows /\ Triangular(A, col, system.rows)
      BY <1>1, <1>2, <3>1 DEF Reducing
    <3> DEFINE R == system.rows
               C == system.cols
    <3>3. /\ R \in Nat /\ C \in Nat /\ A \in [0 .. R - 1 -> SUBSET (0 .. C - 1)]
          /\ col \in 0 .. C - 1 /\ col <= R
      BY <1>4, <3>2 DEF EL!Row, EL!Col
    <3>4. \A c \in 0 .. col - 1 : c \in A[c] /\ \A r \in c + 1 .. R - 1 : c \notin A[r]
      BY <3>2 DEF Triangular
    <3>5. \A r \in col .. R - 1 : col \notin A[r]
      BY <1>6, <3>2
    <3>6. PICK x \in SUBSET (0 .. C - 1) : x # {} /\ \A r \in 0 .. R - 1 : ~EL!Dot(A[r], x)
      <4> HIDE DEF R, C
      <4> QED BY <3>3, <3>4, <3>5, Dependent
    <3>7. Solves(A, {}, x)
      BY <1>4, <3>6 DEF Solves, EL!Row
    <3>8. x \in SUBSET EL!Col
      BY DEF EL!Col
    <3> QED BY <1>1, <3>1, <3>6, <3>7, <3>8, IndependentNow
  <2> QED BY <1>3, <2>2, <2>3, <2>4 DEF ElInv
<1>7. CASE candidates # {}
  <2> DEFINE i == CHOOSE c \in candidates : \A d \in candidates : c <= d
             B == Exchange(D, A, i, n)
             c == Elements(b, i, n)
             below == {r \in n + 1 .. system.rows - 1 : col \in B[r]}
  <2>1. i \in candidates
    <3>1. candidates \subseteq Nat
      BY <1>4
    <3>2. \E e \in candidates : \A d \in candidates : e <= d
      BY <1>7, <3>1, LowestOf
    <3> QED BY <3>2
  <2>2. /\ A' = AddTo(D, B, n, below)
        /\ b' = Entries(c, n, below)
        /\ nextRow' = n + 1
    BY <1>7 DEF EL!Reduce, AddTo, Entries, Exchange, Elements, EL!Exchanged
  <2>3. i \in D /\ n \in D /\ i >= n /\ col \in A[i]
    BY <1>4, <2>1 DEF EL!Row
  <2> HIDE DEF i
  <2>4. /\ B \in [D -> SUBSET EL!Col]
        /\ \A r \in D : B[r] = A[EL!Swap(i, n, r)]
        /\ \A r \in D : EL!Swap(i, n, r) \in D
    BY <1>4, <2>3 DEF Exchange, EL!Swap
  <2> HIDE DEF B
  <2>5. below \subseteq D /\ n \notin below
    BY <1>4, <2>3 DEF EL!Row
  <2>6. A' \in [D -> SUBSET EL!Col]
    BY <2>2, <2>3, <2>4, <2>5 DEF AddTo, EL!Add
  <2> HIDE DEF below
  <2>7. ASSUME NEW v \in SUBSET D, NEW x \in SUBSET EL!Col
        PROVE  /\ Solves(A', Entries(Elements(v, i, n), n, below), x) <=> Solves(A, v, x)
               /\ Entries(Elements(v, i, n), n, below) \subseteq D
    <3>1. DOMAIN A = D /\ DOMAIN B = D
      BY <1>4, <2>4
    <3>2. Solves(B, Elements(v, i, n), x) <=> Solves(A, v, x)
      BY <2>3, <3>1, ExchangeSolves DEF B
    <3>3. Elements(v, i, n) \subseteq D
      BY <2>3, <3>1, ExchangeSolves
    <3>4. IsFiniteSet(x)
      BY <1>1, ColsFinite
    <3>5. /\ Solves(A', Entries(Elements(v, i, n), n, below), x) <=> Solves(B, Elements(v, i, n), x)
          /\ Entries(Elements(v, i, n), n, below) \subseteq D
      BY <2>2, <2>3, <2>5, <3>1, <3>3, <3>4, AddToSolves
    <3> QED BY <3>2, <3>5
  <2>8. b' \subseteq D
    <3>1. EL!Col \subseteq EL!Col /\ {} \in SUBSET EL!Col
      OBVIOUS
    <3> QED BY <1>4, <2>2, <2>7, <3>1
  <2>9. ElTypes'
    BY <1>1, <1>2, <1>3, <1>4, <1>5, <2>2, <2>6, <2>8 DEF ElTypes
  <2>10. SameSolutions'
    <3>1. Entries(Elements({}, i, n), n, below) = {}
      BY DEF Entries, Elements
    <3>2. ASSUME NEW x \in SUBSET EL!Col
          PROVE  /\ Solves(A', b', x) <=> Solves(system.A, system.b, x)
                 /\ Solves(A', {}, x) <=> Solves(system.A, {}, x)
      <4>1. Solves(A', b', x) <=> Solves(A, b, x)
        BY <1>4, <2>2, <2>7
      <4>2. Solves(A', {}, x) <=> Solves(A, {}, x)
        BY <2>7, <3>1
      <4> QED BY <1>1, <4>1, <4>2 DEF SameSolutions
    <3> QED BY <1>2, <1>3, <3>2 DEF SameSolutions
  <2>11. ASSUME Independent
         PROVE  n = col /\ col + 1 <= system.rows /\ Triangular(A', col + 1, system.rows)
                /\ lastRow = system.rows - 1 /\ sol = {}
    <3>1. n = col /\ Triangular(A, col, system.rows) /\ lastRow = system.rows - 1 /\ sol = {}
      BY <1>1, <1>2, <2>11 DEF Reducing
    <3>2. col + 1 <= system.rows
      BY <1>4, <2>3, <3>1 DEF EL!Row
    <3>3. \A r \in D : A'[r] = IF r \in below THEN EL!Add(B[r], B[n]) ELSE B[r]
      BY <2>2 DEF AddTo
    <3>4. B[n] = A[i]
      BY <2>3, <2>4 DEF EL!Swap
    <3>5. ASSUME NEW e \in 0 .. col - 1
          PROVE  e \in A'[e] /\ \A r \in e + 1 .. system.rows - 1 : e \notin A'[r]
      <4>1. e \in D /\ e < n /\ e # i /\ e # n /\ e \notin below
        BY <1>4, <2>3, <3>1 DEF EL!Row, below
      <4>2. e \in A[e] /\ \A r \in e + 1 .. system.rows - 1 : e \notin A[r]
        BY <3>1 DEF Triangular
      <4>3. A'[e] = A[e]
        BY <2>4, <3>3, <4>1 DEF EL!Swap
      <4>4. ASSUME NEW r \in e + 1 .. system.rows - 1 PROVE e \notin A'[r]
        <5>1. r \in D
          BY <4>1 DEF EL!Row
        <5>2. EL!Swap(i, n, r) \in e + 1 .. system.rows - 1
          BY <1>4, <2>3, <4>1, <5>1 DEF EL!Swap, EL!Row
        <5>3. i \in e + 1 .. system.rows - 1
          BY <1>4, <2>3, <4>1 DEF EL!Row
        <5>4. e \notin B[r] /\ e \notin B[n]
          BY <2>4, <3>4, <4>2, <5>1, <5>2, <5>3
        <5> QED BY <3>3, <5>1, <5>4 DEF EL!Add
      <4> QED BY <4>2, <4>3, <4>4
    <3>6. col \in A'[col]
      BY <2>3, <2>5, <3>1, <3>3, <3>4
    <3>7. ASSUME NEW r \in col + 1 .. system.rows - 1 PROVE col \notin A'[r]
      <4>1. r \in D /\ r \in n + 1 .. system.rows - 1
        BY <1>4, <3>1 DEF EL!Row, EL!Col
      <4>2. r \in below <=> col \in B[r]
        BY <4>1 DEF below
      <4>3. col \in B[n]
        BY <2>3, <3>4
      <4> QED BY <3>3, <4>1, <4>2, <4>3 DEF EL!Add
    <3>8. Triangular(A', col + 1, system.rows)
      <4>1. \A e \in 0 .. (col + 1) - 1 : e = col \/ e \in 0 .. col - 1
        BY <1>4 DEF EL!Col
      <4>2. (system.rows)' = system.rows
        BY <1>2
      <4> QED BY <3>5, <3>6, <3>7, <4>1, <4>2 DEF Triangular
    <3> QED BY <3>1, <3>2, <3>8
  <2>12. ASSUME Independent
         PROVE  Reducing' /\ Reduced' /\ DroppingZeroRows' /\ Substituting' /\ Answer'
    <3>1. n = col /\ col + 1 <= system.rows /\ lastRow = system.rows - 1 /\ sol = {}
      BY <2>11, <2>12
    <3>2. Triangular(A', col + 1, system.rows)
      BY <2>11, <2>12
    <3>3. CASE col + 1 < system.cols
      <4>1. col' = col + 1 /\ stage' = "reduce"
        BY <1>2, <3>3
      <4>2. Reducing'
        BY <1>2, <2>2, <3>1, <3>2, <4>1 DEF Reducing
      <4>3. Reduced' /\ DroppingZeroRows' /\ Substituting' /\ Answer'
        BY <4>1 DEF Reduced, DroppingZeroRows, Substituting, Answer
      <4> QED BY <4>2, <4>3
    <3>4. CASE ~(col + 1 < system.cols)
      <4>1. col' = col /\ stage' = "zeroRows" /\ col + 1 = system.cols
        BY <1>2, <1>5, <3>4
      <4>2. col = system.cols - 1 /\ system.cols <= system.rows
        BY <1>4, <3>1, <4>1 DEF EL!Col
      <4>3. Reduced'
        BY <1>2, <3>2, <4>1, <4>2 DEF Reduced
      <4>4. DroppingZeroRows'
        <5>1. lastRow' = system.rows - 1 /\ sol' = {} /\ system' = system /\ col' = system.cols - 1
          BY <1>2, <3>1, <4>1, <4>2
        <5>2. system.rows - 1 \in system.cols - 1 .. system.rows - 1
          BY <1>4, <4>2
        <5>3. \A r \in (system.rows - 1) + 1 .. system.rows - 1 : FALSE
          BY <1>4
        <5> QED BY <5>1, <5>2, <5>3 DEF DroppingZeroRows
      <4>5. Reducing' /\ Substituting' /\ Answer'
        BY <4>1 DEF Reducing, Substituting, Answer
      <4> QED BY <4>3, <4>4, <4>5
    <3> QED BY <3>3, <3>4
  <2> QED BY <1>3, <2>9, <2>10, <2>12 DEF ElInv
<1> QED BY <1>6, <1>7

\* The rows below the last column's are empty: one that should not be has no
\* solution, and the last column's row is found.
LEMMA ElZeroRow ==
  ASSUME ElInv, EL!ZeroRow
  PROVE  ElInv'
<1>1. /\ ElTypes /\ SameSolutions
      /\ Independent => Reducing /\ Reduced /\ DroppingZeroRows /\ Substituting /\ Answer
  BY DEF ElInv
<1>2. /\ stage = "zeroRows" /\ system' = system /\ A' = A /\ b' = b /\ nextRow' = nextRow
      /\ col' = col /\ sol' = sol
      /\ IF col \in A[lastRow]
         THEN stage' = "substitute" /\ lastRow' = lastRow
         ELSE /\ stage' = IF lastRow \in b \/ lastRow = 0 THEN "thrown" ELSE stage
              /\ lastRow' = lastRow - 1
  BY DEF EL!ZeroRow
<1>3. EL!Row' = EL!Row /\ EL!Col' = EL!Col /\ (Independent' <=> Independent)
  BY <1>2 DEF EL!Row, EL!Col, Independent, EL!Times, EL!Dot
<1>4. /\ system.rows \in Nat \ {0} /\ system.cols \in Nat \ {0} /\ lastRow \in EL!Row
      /\ A \in [EL!Row -> SUBSET EL!Col] /\ b \subseteq EL!Row /\ col \in EL!Col
  BY <1>1, <1>2 DEF ElTypes, IsSystem
<1>5. ElTypes'
  BY <1>1, <1>2, <1>3, <1>4 DEF ElTypes, EL!Row
<1>6. SameSolutions'
  BY <1>1, <1>2, <1>3 DEF SameSolutions
<1>7. ASSUME Independent
      PROVE  Reducing' /\ Reduced' /\ DroppingZeroRows' /\ Substituting' /\ Answer'
  <2>1. /\ system.cols <= system.rows /\ Triangular(A, system.cols, system.rows)
        /\ col = system.cols - 1 /\ sol = {}
        /\ lastRow \in system.cols - 1 .. system.rows - 1
        /\ \A r \in lastRow + 1 .. system.rows - 1 : r \notin b
    BY <1>1, <1>2, <1>7 DEF Reduced, DroppingZeroRows
  <2>2. Reducing' /\ Reduced'
    BY <1>2, <2>1 DEF Reducing, Reduced
  <2>3. CASE col \in A[lastRow]
    <3>1. lastRow = col
      <4>1. \A r \in col + 1 .. system.rows - 1 : col \notin A[r]
        BY <1>4, <2>1 DEF Triangular
      <4> QED BY <1>4, <2>1, <2>3, <4>1
    <3>2. stage' = "substitute" /\ lastRow' = lastRow
      BY <1>2, <2>3
    <3>3. \A r \in system.cols .. system.rows - 1 : r \notin b
      BY <1>4, <2>1, <3>1
    <3>4. col + 1 .. system.cols - 1 = {}
      BY <1>4, <2>1
    <3>5. Substituting'
      BY <1>2, <2>1, <3>1, <3>2, <3>3, <3>4 DEF Substituting
    <3>6. DroppingZeroRows' /\ Answer'
      BY <3>2 DEF DroppingZeroRows, Answer
    <3> QED BY <2>2, <3>5, <3>6
  <2>4. CASE col \notin A[lastRow]
    <3>1. lastRow >= system.cols
      <4>1. col \in A[col]
        BY <1>4, <2>1 DEF Triangular
      <4> QED BY <1>4, <2>1, <2>4, <4>1
    <3>2. A[lastRow] = {}
      <4>1. ASSUME NEW c \in EL!Col PROVE c \notin A[lastRow]
        <5>1. c \in 0 .. system.cols - 1 /\ lastRow \in c + 1 .. system.rows - 1
          BY <1>4, <3>1 DEF EL!Col, EL!Row
        <5> QED BY <2>1, <5>1 DEF Triangular
      <4> QED BY <1>4, <4>1
    <3>3. CASE lastRow \in b
      <4>1. stage' = "thrown"
        BY <1>2, <2>4, <3>3
      <4>2. ASSUME NEW x \in SUBSET EL!Col PROVE ~Solves(A, b, x)
        <5>1. ~EL!Dot(A[lastRow], x)
          BY <3>2, DotNothing
        <5> QED BY <1>4, <3>3, <5>1 DEF Solves
      <4>3. Answer'
        BY <1>2, <1>3, <4>1, <4>2 DEF Answer
      <4>4. DroppingZeroRows' /\ Substituting'
        BY <4>1 DEF DroppingZeroRows, Substituting
      <4> QED BY <2>2, <4>3, <4>4
    <3>4. CASE lastRow \notin b
      <4>1. stage' = "zeroRows" /\ lastRow' = lastRow - 1
        BY <1>2, <1>4, <2>4, <3>1, <3>4
      <4>2. lastRow - 1 \in system.cols - 1 .. system.rows - 1
        BY <1>4, <2>1, <3>1
      <4>3. \A r \in (lastRow - 1) + 1 .. system.rows - 1 : r \notin b
        <5>1. \A r \in (lastRow - 1) + 1 .. system.rows - 1 :
                r = lastRow \/ r \in lastRow + 1 .. system.rows - 1
          BY <1>4 DEF EL!Row
        <5> QED BY <2>1, <3>4, <5>1
      <4>4. DroppingZeroRows'
        BY <1>2, <2>1, <4>1, <4>2, <4>3 DEF DroppingZeroRows
      <4>5. Substituting' /\ Answer'
        BY <4>1 DEF Substituting, Answer
      <4> QED BY <2>2, <4>4, <4>5
    <3> QED BY <3>3, <3>4
  <2> QED BY <2>3, <2>4
<1> QED BY <1>3, <1>5, <1>6, <1>7 DEF ElInv

\* One column gets its value, which the rows below do not see.
LEMMA ElSubstitute ==
  ASSUME ElInv, EL!Substitute
  PROVE  ElInv'
<1>1. /\ ElTypes /\ SameSolutions
      /\ Independent => Reducing /\ Reduced /\ DroppingZeroRows /\ Substituting /\ Answer
  BY DEF ElInv
<1>2. /\ stage = "substitute" /\ system' = system /\ A' = A /\ b' = b /\ nextRow' = nextRow
  BY DEF EL!Substitute
<1>3. EL!Row' = EL!Row /\ EL!Col' = EL!Col /\ (Independent' <=> Independent)
  BY <1>2 DEF EL!Row, EL!Col, Independent, EL!Times, EL!Dot
<1>4. /\ system.rows \in Nat \ {0} /\ system.cols \in Nat \ {0}
      /\ lastRow \in -1 .. system.rows - 1 /\ sol \in SUBSET EL!Col
      /\ A \in [EL!Row -> SUBSET EL!Col] /\ b \subseteq EL!Row /\ col \in EL!Col
  BY <1>1, <1>2 DEF ElTypes, IsSystem
<1>5. ElTypes'
  <2>1. CASE lastRow = -1
    <3>1. stage' = "thrown" /\ col' = col /\ lastRow' = lastRow /\ sol' = sol
      BY <2>1 DEF EL!Substitute
    <3> QED BY <1>1, <1>2, <1>3, <3>1 DEF ElTypes
  <2>2. CASE lastRow # -1
    <3>1. /\ sol' = sol \/ sol' = sol \cup {col}
          /\ lastRow' = lastRow \/ lastRow' = lastRow - 1
          /\ col' = col - 1
          /\ stage' = IF col = 0 THEN "solved" ELSE stage
      BY <2>2 DEF EL!Substitute
    <3>2. sol' \in SUBSET EL!Col
      BY <1>4, <3>1
    <3>3. lastRow' \in -1 .. system.rows - 1
      BY <1>4, <2>2, <3>1
    <3>4. stage' \in {"substitute", "solved"} /\ (stage' = "substitute" => col' \in EL!Col)
      BY <1>2, <1>4, <3>1 DEF EL!Col
    <3> QED BY <1>1, <1>2, <1>3, <3>2, <3>3, <3>4 DEF ElTypes
  <2> QED BY <2>1, <2>2
<1>6. SameSolutions'
  BY <1>1, <1>2, <1>3 DEF SameSolutions
<1>7. ASSUME Independent
      PROVE  Reducing' /\ Reduced' /\ DroppingZeroRows' /\ Substituting' /\ Answer'
  <2>1. /\ system.cols <= system.rows /\ Triangular(A, system.cols, system.rows)
        /\ lastRow = col /\ sol \subseteq col + 1 .. system.cols - 1
        /\ \A r \in system.cols .. system.rows - 1 : r \notin b
        /\ \A r \in col + 1 .. system.cols - 1 : EL!Dot(A[r], sol) <=> r \in b
    BY <1>1, <1>2, <1>7 DEF Reduced, Substituting
  <2>2. col \in A[col] /\ \A r \in col + 1 .. system.rows - 1 : col \notin A[r]
    BY <1>4, <2>1 DEF Triangular, EL!Col
  <2>3. lastRow # -1 /\ col \in Nat
    BY <1>4, <2>1 DEF EL!Col
  <2>4. /\ sol' = IF EL!Dot(A[col], sol) # (col \in b) THEN sol \cup {col} ELSE sol
        /\ lastRow' = col - 1 /\ col' = col - 1
        /\ stage' = IF col = 0 THEN "solved" ELSE "substitute"
    BY <1>2, <2>1, <2>2, <2>3 DEF EL!Substitute
  <2>5. IsFiniteSet(sol) /\ col \notin sol
    BY <1>1, <1>4, <2>1, <2>3, ColsFinite
  <2>6. sol' \subseteq col .. system.cols - 1
    BY <1>4, <2>1, <2>4 DEF EL!Col
  <2>7. ASSUME NEW r \in col .. system.cols - 1 PROVE EL!Dot(A[r], sol') <=> r \in b
    <3>1. CASE r = col
      <4>1. EL!Dot(A[col], sol \cup {col}) <=> ~EL!Dot(A[col], sol)
        BY <2>2, <2>5, DotOneMore
      <4>2. EL!Dot(A[col], sol) \in BOOLEAN /\ (col \in b) \in BOOLEAN
        BY DEF EL!Dot
      <4> QED BY <2>4, <3>1, <4>1, <4>2
    <3>2. CASE r # col
      <4>1. r \in col + 1 .. system.cols - 1 /\ r \in col + 1 .. system.rows - 1
        BY <1>4, <2>1, <2>3, <3>2
      <4>2. EL!Dot(A[r], sol \cup {col}) <=> EL!Dot(A[r], sol)
        BY <2>2, <2>5, <4>1, DotOneMore
      <4> QED BY <2>1, <2>4, <4>1, <4>2
    <3> QED BY <3>1, <3>2
  <2>8. Reducing' /\ Reduced' /\ DroppingZeroRows'
    BY <1>2, <2>1, <2>4 DEF Reducing, Reduced, DroppingZeroRows
  <2>9. CASE col = 0
    <3>1. stage' = "solved"
      BY <2>4, <2>9
    <3>2. ASSUME NEW r \in EL!Row PROVE EL!Dot(A[r], sol') <=> r \in b
      <4>1. CASE r < system.cols
        BY <1>4, <2>7, <2>9, <4>1 DEF EL!Row
      <4>2. CASE ~(r < system.cols)
        <5>1. r \in system.cols .. system.rows - 1
          BY <1>4, <4>2 DEF EL!Row
        <5>2. A[r] = {}
          <6>1. ASSUME NEW c \in EL!Col PROVE c \notin A[r]
            <7>1. c \in 0 .. system.cols - 1 /\ r \in c + 1 .. system.rows - 1
              BY <1>4, <5>1 DEF EL!Col
            <7> QED BY <2>1, <7>1 DEF Triangular
          <6> QED BY <1>4, <6>1
        <5>3. ~EL!Dot(A[r], sol')
          BY <5>2, DotNothing
        <5> QED BY <2>1, <5>1, <5>3
      <4> QED BY <4>1, <4>2
    <3>3. Answer'
      BY <1>2, <1>4, <3>1, <3>2 DEF Answer, Solves
    <3>4. Substituting'
      BY <3>1 DEF Substituting
    <3> QED BY <2>8, <3>3, <3>4
  <2>10. CASE col # 0
    <3>1. stage' = "substitute"
      BY <2>4, <2>10
    <3>2. (col - 1) + 1 = col
      BY <2>3
    <3>3. Substituting'
      BY <1>2, <2>1, <2>4, <2>6, <2>7, <3>2 DEF Substituting, EL!Dot
    <3>4. Answer'
      BY <3>1 DEF Answer
    <3> QED BY <2>8, <3>3, <3>4
  <2> QED BY <2>9, <2>10
<1> QED BY <1>3, <1>5, <1>6, <1>7 DEF ElInv

\* Every step keeps the invariant.
LEMMA ElNext == ElInv /\ [Next]_vars => ElInv'
<1> SUFFICES ASSUME ElInv, [Next]_vars PROVE ElInv'
  OBVIOUS
<1>1. CASE Solve
  <2>1. EL!Step
    BY <1>1 DEF Solve
  <2> QED BY <2>1, ElReduce, ElZeroRow, ElSubstitute DEF EL!Step
<1>2. CASE UNCHANGED elimVars
  <2>1. system' = system /\ A' = A /\ b' = b /\ nextRow' = nextRow /\ col' = col
        /\ lastRow' = lastRow /\ sol' = sol /\ stage' = stage
    BY <1>2 DEF elimVars
  <2>2. EL!Row' = EL!Row /\ EL!Col' = EL!Col /\ (Independent' <=> Independent)
    BY <2>1 DEF EL!Row, EL!Col, Independent, EL!Times, EL!Dot
  <2>3. (ElTypes' <=> ElTypes) /\ (SameSolutions' <=> SameSolutions)
    BY <2>1, <2>2 DEF ElTypes, SameSolutions
  <2>4. (Reducing' <=> Reducing) /\ (Reduced' <=> Reduced) /\ (DroppingZeroRows' <=> DroppingZeroRows)
    BY <2>1 DEF Reducing, Reduced, DroppingZeroRows
  <2>5. (Substituting' <=> Substituting) /\ (Answer' <=> Answer)
    BY <2>1, <2>2 DEF Substituting, Answer
  <2> QED BY <2>2, <2>3, <2>4, <2>5 DEF ElInv
<1> QED BY <1>1, <1>2 DEF Next, Hash, Filter, Key, vars

\* The inverse leaders' elimination (isZeroXOR): what it works on has the solutions
\* of what it was called with, and under independent masks it is triangular.
THEOREM ElInvariant == Spec => []ElInv
BY ElInit, ElNext, PTL DEF Spec

\* One mask of every party, and they add up to b.
OnePerParty(x) ==
  \A p \in 0 .. (system.cols \div system.block) - 1 :
    Cardinality(x \cap (p * system.block .. (p + 1) * system.block - 1)) = 1

\* NaiveInverseLeader and SimpleHashingNaiveInverseLeader answer by Gaussian
\* elimination what the search over all choices of masks would answer: the
\* elimination preserves the solutions, finds one if there is any, and if the
\* masks are linearly independent there is no other.
THEOREM EliminationAgrees == Spec => []AgreesWithSearch
<1>1. ElInv => AgreesWithSearch
  <2> SUFFICES ASSUME ElInv, stage \in {"solved", "thrown"}, Independent
               PROVE  EL!MatchFound <=> SearchFinds
    BY DEF AgreesWithSearch
  <2>1. ElTypes /\ SameSolutions /\ Answer
    BY DEF ElInv
  <2>2. DOMAIN system.A = EL!Row /\ DOMAIN A = EL!Row /\ system.b \subseteq EL!Row
        /\ sol \in SUBSET EL!Col
    BY <2>1 DEF ElTypes, IsSystem, EL!Row
  <2>3. ASSUME NEW x \in SUBSET EL!Col
        PROVE  EL!Times(system.A, x) = system.b <=> Solves(A, b, x)
    BY <2>1, <2>2, TimesSolves DEF SameSolutions
  <2>4. SearchFinds <=> \E x \in SUBSET EL!Col : OnePerParty(x) /\ Solves(A, b, x)
    BY <2>3 DEF SearchFinds, OnePerParty
  <2>5. EL!MatchFound <=> stage = "solved" /\ OnePerParty(sol)
    BY SameCardinality DEF EL!MatchFound, OnePerParty
  <2>6. CASE stage = "thrown"
    BY <2>1, <2>4, <2>5, <2>6 DEF Answer
  <2>7. CASE stage = "solved"
    <3>1. Solves(A, b, sol)
      BY <2>1, <2>7 DEF Answer
    <3>2. ASSUME NEW x \in SUBSET EL!Col, Solves(A, b, x) PROVE x = sol
      <4>1. IsFiniteSet(x) /\ IsFiniteSet(sol)
        BY <2>1, <2>2, ColsFinite
      <4>2. Solves(A, {}, EL!Add(x, sol))
        <5>1. ASSUME NEW r \in DOMAIN A PROVE ~EL!Dot(A[r], EL!Add(x, sol))
          <6>1. (EL!Dot(A[r], x) <=> r \in b) /\ (EL!Dot(A[r], sol) <=> r \in b)
            BY <3>1, <3>2 DEF Solves
          <6> QED BY <4>1, <6>1, AddDot
        <5> QED BY <5>1 DEF Solves
      <4>3. EL!Add(x, sol) \in SUBSET EL!Col
        BY <2>2 DEF EL!Add
      <4>4. EL!Add(x, sol) = {}
        BY <2>1, <4>2, <4>3, IndependentNow
      <4> QED BY <4>4 DEF EL!Add
    <3> QED BY <2>2, <2>4, <2>5, <2>7, <3>1, <3>2
  <2> QED BY <2>6, <2>7
<1> QED BY <1>1, ElInvariant, PTL

-----------------------------------------------------------------------------
(***************************************************************************)
(* The garbled Bloom filter: the inductive invariant.  A slot is written   *)
(* once, before it is in use; the slots an element has visited are in use  *)
(* from then on, but for the one its final share goes to, and that share   *)
(* is at any time what the others still lack to make the element's mask.   *)
(***************************************************************************)

Before(e) == UNION {GF!Slots(d) : d \in 0 .. e - 1}
Visited == {digest[element][i] : i \in 0 .. hash - 1}
Holders(part, S, dt) == {s \in S : part \in dt[s]}

FiTypes ==
  /\ digest \in [GF!Element -> [GF!Hash -> GF!Slot]]
  /\ element \in 0 .. NumElements /\ (building => element \in GF!Element)
  /\ hash \in 0 .. NumHashes
  /\ DOMAIN indHis = GF!Hash /\ DOMAIN data = GF!Slot
  /\ emptySlot \in GF!Slot \cup {GF!NoSlot}

Adding ==
  /\ \A i \in 0 .. hash - 1 : indHis[i] = digest[element][i]
  /\ emptySlot # GF!NoSlot => emptySlot \in Visited /\ emptySlot \notin bf
  /\ Visited \ {emptySlot} \subseteq bf
  /\ emptySlot = GF!NoSlot => Visited \subseteq Before(element)
  /\ bf \subseteq Before(element) \cup Visited

StillLacks ==
  \A part : part \in finalShare <=>
              ~(part = GF!Mask(element) <=> Odd(Holders(part, Visited \ {emptySlot}, data)))

Answered ==
  \A e \in 0 .. element - 1 :
    /\ GF!Slots(e) \subseteq bf
    /\ GF!Query(e) = {GF!Mask(e)} \/ (e \in lost /\ GF!Slots(e) \subseteq Before(e))

FiInv == FiTypes /\ Adding /\ StillLacks /\ Answered

\* The filter has slots, and finitely many.
LEMMA SlotsFinite == /\ NumSlots \in Nat \ {0} /\ IsFiniteSet(GF!Slot)
                     /\ GF!NoSlot \notin GF!Slot /\ NumHashes \in Nat \ {0} /\ NumElements \in Nat \ {0}
<1> DEFINE x == NumElements * NumHashes
<1>1. x \in Nat \ {0}
  BY FilterSizes
<1>2. NumSlots = (((x * 1442696 + 999999) \div 1000000 + 7) \div 8) * 8
  BY FilterSizes DEF GF!SlotsFor
<1> HIDE DEF x
<1>3. NumSlots \in Nat \ {0}
  BY <1>1, <1>2
<1>4. 0 \in Int /\ NumSlots - 1 \in Int
  BY <1>3
<1>5. IsFiniteSet(GF!Slot)
  BY <1>4, FS_Interval DEF GF!Slot
<1>6. GF!NoSlot \notin GF!Slot
  BY <1>3 DEF GF!NoSlot, GF!Slot
<1> QED BY <1>3, <1>5, <1>6, FilterSizes

\* What the XOR of some slots holds: what an odd number of them holds.
LEMMA HoldersFinite ==
  ASSUME NEW S, S \subseteq GF!Slot, NEW dt, NEW part
  PROVE  IsFiniteSet(Holders(part, S, dt))
<1>1. Holders(part, S, dt) \in SUBSET GF!Slot
  BY DEF Holders
<1> QED BY <1>1, SlotsFinite, FS_Subset

\* A slot more changes the XOR in the parts that it holds.
LEMMA OneSlotMore ==
  ASSUME NEW S, S \subseteq GF!Slot, NEW s \in GF!Slot, s \notin S, NEW dt, NEW part
  PROVE  Odd(Holders(part, S \cup {s}, dt)) <=>
           ~(part \in dt[s] <=> Odd(Holders(part, S, dt)))
<1>1. IsFiniteSet(Holders(part, S, dt))
  BY HoldersFinite
<1>2. CASE part \in dt[s]
  <2>1. Holders(part, S \cup {s}, dt) = Holders(part, S, dt) \cup {s}
    BY <1>2 DEF Holders
  <2>2. s \notin Holders(part, S, dt)
    BY DEF Holders
  <2>3. Odd(Holders(part, S, dt) \cup {s}) <=> ~Odd(Holders(part, S, dt))
    BY <1>1, <2>2, OddOneMore
  <2> QED BY <1>2, <2>1, <2>3, Zenon
<1>3. CASE part \notin dt[s]
  <2>1. Holders(part, S \cup {s}, dt) = Holders(part, S, dt)
    BY <1>3 DEF Holders
  <2> QED BY <1>3, <2>1
<1> QED BY <1>2, <1>3

QueryOf(S, dt) ==
  {part \in UNION {dt[s] : s \in S} : Cardinality({s \in S : part \in dt[s]}) % 2 = 1}

\* A query finds the parts that an odd number of the slots holds.
LEMMA QueryHolds ==
  ASSUME NEW S, NEW dt
  PROVE  \A part : part \in QueryOf(S, dt) <=> Odd(Holders(part, S, dt))
<1>1. ASSUME NEW part PROVE part \in QueryOf(S, dt) <=> Odd(Holders(part, S, dt))
  <2> DEFINE H == Holders(part, S, dt)
             U == UNION {dt[s] : s \in S}
  <2>1. part \in QueryOf(S, dt) <=> part \in U /\ Odd(H)
    BY DEF QueryOf, Odd, Holders
  <2>2. Odd(H) => H # {}
    BY FS_EmptySet DEF Odd
  <2>3. H # {} => part \in U
    BY DEF Holders
  <2> QED BY <2>1, <2>2, <2>3
<1> QED BY <1>1

\* GBF_query is this XOR over the element's slots.
LEMMA QueryIs ==
  ASSUME NEW x
  PROVE  GF!Query(x) = QueryOf(GF!Slots(x), data)
BY SameCardinality DEF GF!Query, QueryOf

\* What the query of an element finds, if the slots hold what they held.
LEMMA QueryStays ==
  ASSUME NEW S, NEW dt, NEW du, \A s \in S : du[s] = dt[s]
  PROVE  QueryOf(S, du) = QueryOf(S, dt)
<1>1. {du[s] : s \in S} = {dt[s] : s \in S}
  OBVIOUS
<1>2. \A part : {s \in S : part \in du[s]} = {s \in S : part \in dt[s]}
  OBVIOUS
<1> QED BY <1>1, <1>2 DEF QueryOf

\* A new filter satisfies the invariant, whatever lies in its slots.
LEMMA FiStart ==
  ASSUME NEW d \in [GF!Element -> [GF!Hash -> GF!Slot]], GF!Start(d)
  PROVE  FiInv
<1>1. /\ digest = d /\ element = 0 /\ hash = 0 /\ indHis = [i \in GF!Hash |-> 0]
      /\ emptySlot = GF!NoSlot /\ finalShare = {GF!Mask(0)}
      /\ data = [s \in GF!Slot |-> {GF!Random(s)}] /\ bf = {} /\ lost = {}
  BY DEF GF!Start
<1>2. FiTypes
  BY <1>1, SlotsFinite DEF FiTypes, GF!Element
<1>3. Visited = {}
  BY <1>1 DEF Visited
<1>4. Adding
  BY <1>1, <1>3 DEF Adding
<1>5. StillLacks
  <2>1. \A part : Holders(part, Visited \ {emptySlot}, data) = {}
    BY <1>3 DEF Holders
  <2>2. ~Odd({})
    BY FS_EmptySet DEF Odd
  <2> QED BY <1>1, <2>1, <2>2 DEF StillLacks
<1>6. Answered
  BY <1>1 DEF Answered
<1> QED BY <1>2, <1>4, <1>5, <1>6 DEF FiInv

\* And so does the initial state, whichever algorithm runs.
LEMMA FiInit == Init => FiInv
<1> SUFFICES ASSUME Init PROVE FiInv
  OBVIOUS
<1>1. CASE NoFilter
  <2> DEFINE d == [e \in GF!Element |-> [i \in GF!Hash |-> 0]]
  <2>1. d \in [GF!Element -> [GF!Hash -> GF!Slot]]
    BY SlotsFinite DEF GF!Slot
  <2>2. GF!Start(d)
    BY <1>1 DEF NoFilter
  <2> QED BY <2>1, <2>2, FiStart
<1>2. CASE \E d \in Digests : GF!Start(d)
  BY <1>2, FilterSizes, FiStart
<1> QED BY <1>1, <1>2 DEF Init

\* One hash: a slot the element has not been to is kept for the final share, or
\* is in use, and counts from now on.
LEMMA FiDigest ==
  ASSUME FiInv, GF!Digest
  PROVE  FiInv'
<1> DEFINE index == digest[element][hash]
           first == ~GF!Exists(index) /\ index \notin bf /\ emptySlot = GF!NoSlot
<1>1. FiTypes /\ Adding /\ StillLacks /\ Answered
  BY DEF FiInv
<1>2. /\ building /\ hash < NumHashes /\ hash' = hash + 1
      /\ digest' = digest /\ element' = element /\ data' = data /\ lost' = lost
      /\ building' = building
      /\ indHis' = [indHis EXCEPT ![hash] = index]
      /\ emptySlot' = IF first THEN index ELSE emptySlot
      /\ IF first \/ GF!Exists(index)
         THEN finalShare' = finalShare /\ bf' = bf
         ELSE finalShare' = GF!Add(finalShare, data[index]) /\ bf' = bf \cup {index}
  BY DEF GF!Digest
<1>3. /\ element \in GF!Element /\ element \in Nat /\ hash \in Nat /\ hash \in GF!Hash
      /\ index \in GF!Slot
  BY <1>1, <1>2, SlotsFinite DEF FiTypes, GF!Element, GF!Hash
<1>4. Visited' = Visited \cup {index}
  <2>1. 0 .. (hash + 1) - 1 = (0 .. hash - 1) \cup {hash}
    BY <1>3
  <2> QED BY <1>2, <2>1 DEF Visited
<1>5. GF!Exists(index) <=> index \in Visited
  BY <1>1 DEF GF!Exists, Adding, Visited
<1>6. Visited \subseteq GF!Slot
  BY <1>1, <1>2, <1>3, SlotsFinite DEF FiTypes, Visited, GF!Hash
<1>7. Before(element)' = Before(element) /\ \A e : GF!Slots(e)' = GF!Slots(e) /\ Before(e)' = Before(e)
  BY <1>2 DEF Before, GF!Slots
<1> HIDE DEF index
<1>8. FiTypes'
  BY <1>1, <1>2, <1>3, SlotsFinite DEF FiTypes
<1>9. \A i \in 0 .. hash' - 1 : indHis'[i] = digest'[element'][i]
  <2>1. ASSUME NEW i \in 0 .. hash' - 1 PROVE indHis'[i] = digest'[element'][i]
    <3>1. CASE i = hash
      BY <1>1, <1>2, <1>3, <3>1 DEF FiTypes, index
    <3>2. CASE i # hash
      <4>1. i \in 0 .. hash - 1 /\ i \in GF!Hash
        BY <1>2, <1>3, <3>2, SlotsFinite DEF GF!Hash
      <4> QED BY <1>1, <1>2, <3>2, <4>1 DEF FiTypes, Adding
    <3> QED BY <3>1, <3>2
  <2> QED BY <2>1
<1>10. emptySlot # GF!NoSlot => emptySlot \in Visited /\ emptySlot \notin bf
  BY <1>1 DEF Adding
<1>11. /\ Visited \ {emptySlot} \subseteq bf
       /\ emptySlot = GF!NoSlot => Visited \subseteq Before(element)
       /\ bf \subseteq Before(element) \cup Visited
  BY <1>1 DEF Adding
<1>12. index # GF!NoSlot
  BY <1>3, SlotsFinite
<1>13. Adding'
  <2>1. /\ emptySlot' # GF!NoSlot => emptySlot' \in Visited' /\ emptySlot' \notin bf'
        /\ Visited' \ {emptySlot'} \subseteq bf'
        /\ bf' \subseteq Before(element) \cup Visited'
    <3>1. CASE first
      <4>1. emptySlot' = index /\ bf' = bf /\ index \notin bf /\ emptySlot = GF!NoSlot
            /\ index \notin Visited
        BY <1>2, <1>5, <3>1
      <4>2. Visited \subseteq bf
        BY <1>6, <1>11, <4>1, SlotsFinite
      <4> QED BY <1>4, <1>11, <4>1, <4>2
    <3>2. CASE GF!Exists(index)
      <4>1. emptySlot' = emptySlot /\ bf' = bf /\ Visited' = Visited
        BY <1>2, <1>4, <1>5, <3>2
      <4> QED BY <1>10, <1>11, <4>1
    <3>3. CASE ~first /\ ~GF!Exists(index)
      <4>1. emptySlot' = emptySlot /\ bf' = bf \cup {index} /\ index \notin Visited
        BY <1>2, <1>5, <3>3
      <4> QED BY <1>4, <1>10, <1>11, <4>1
    <3> QED BY <3>1, <3>2, <3>3
  <2>2. emptySlot' = GF!NoSlot => Visited' \subseteq Before(element)
    BY <1>2, <1>4, <1>5, <1>11, <1>12
  <2>3. Before(element)' = Before(element)
    BY <1>7
  <2> QED BY <1>9, <2>1, <2>2, <2>3 DEF Adding, GF!NoSlot
<1>14. StillLacks'
  <2> DEFINE S == Visited \ {emptySlot}
             T == Visited' \ {emptySlot'}
  <2>1. ASSUME NEW part
        PROVE  part \in finalShare' <=> ~(part = GF!Mask(element) <=> Odd(Holders(part, T, data)))
    <3>1. part \in finalShare <=> ~(part = GF!Mask(element) <=> Odd(Holders(part, S, data)))
      BY <1>1 DEF StillLacks
    <3>2. CASE first \/ GF!Exists(index)
      <4>1. T = S
        BY <1>2, <1>4, <1>5, <1>6, <3>2, SlotsFinite
      <4> QED BY <1>2, <3>1, <3>2, <4>1
    <3>3. CASE ~(first \/ GF!Exists(index))
      <4>1. finalShare' = GF!Add(finalShare, data[index]) /\ emptySlot' = emptySlot
        BY <1>2, <3>3
      <4>2. T = S \cup {index} /\ index \notin S /\ S \subseteq GF!Slot
        BY <1>4, <1>5, <1>6, <1>10, <1>12, <3>3, <4>1
      <4>3. Odd(Holders(part, T, data)) <=> ~(part \in data[index] <=> Odd(Holders(part, S, data)))
        <5> HIDE DEF S, T
        <5> QED BY <1>3, <4>2, OneSlotMore
      <4>4. part \in finalShare' <=> ~(part \in finalShare <=> part \in data[index])
        BY <4>1 DEF GF!Add
      <4> QED BY <3>1, <4>3, <4>4
    <3> QED BY <3>2, <3>3
  <2> QED BY <1>2, <2>1 DEF StillLacks, GF!Mask
<1>15. Answered'
  <2>1. \A e : GF!Query(e)' = GF!Query(e)
    BY <1>2 DEF GF!Query, GF!Slots
  <2>2. bf \subseteq bf'
    BY <1>2
  <2> QED BY <1>1, <1>2, <1>7, <2>1, <2>2 DEF Answered, GF!Mask
<1> QED BY <1>8, <1>13, <1>14, <1>15 DEF FiInv

\* What an element has visited when all its hashes are through, and what is
\* known of the next before its first.
LEMMA AllVisited ==
  ASSUME FiInv, building, hash = NumHashes
  PROVE  Visited = GF!Slots(element)
<1>1. 0 .. hash - 1 = GF!Hash
  BY SlotsFinite DEF GF!Hash
<1> QED BY <1>1 DEF Visited, GF!Slots

\* From one element to the next, the visited slots count as the earlier ones'.
LEMMA FiNextElement ==
  ASSUME FiInv, building, GF!NextElement, digest' = digest, UNCHANGED indHis,
         DOMAIN data' = GF!Slot, building' => element + 1 < NumElements,
         hash = NumHashes, bf' = bf \cup (GF!Slots(element) \cap {emptySlot})
  PROVE  FiTypes' /\ Adding' /\ StillLacks'
<1>1. FiTypes /\ Adding
  BY DEF FiInv
<1>2. element' = element + 1 /\ hash' = 0 /\ emptySlot' = GF!NoSlot
      /\ finalShare' = {GF!Mask(element + 1)}
  BY DEF GF!NextElement
<1>3. element \in 0 .. NumElements - 1 /\ NumElements \in Nat
  BY <1>1, SlotsFinite DEF FiTypes, GF!Element
<1>4. FiTypes'
  <2>1. element' \in 0 .. NumElements /\ (building' => element' \in GF!Element)
    BY <1>2, <1>3 DEF GF!Element
  <2>2. hash' \in 0 .. NumHashes
    BY <1>2, SlotsFinite
  <2> QED BY <1>1, <1>2, <2>1, <2>2 DEF FiTypes, GF!NoSlot
<1>5. Visited' = {}
  BY <1>2 DEF Visited
<1>6. Before(element)' = Before(element) \cup GF!Slots(element)
  <2>1. 0 .. (element + 1) - 1 = (0 .. element - 1) \cup {element}
    BY <1>3
  <2>2. \A d : GF!Slots(d)' = GF!Slots(d)
    BY DEF GF!Slots
  <2>3. Before(element)' = UNION {GF!Slots(d) : d \in 0 .. (element + 1) - 1}
    BY <1>2, <2>2 DEF Before
  <2> QED BY <2>1, <2>3 DEF Before
<1>7. bf' \subseteq Before(element)'
  <2>1. bf \subseteq Before(element) \cup GF!Slots(element)
    BY <1>1, AllVisited DEF Adding
  <2> QED BY <1>6, <2>1
<1>8. Adding'
  BY <1>2, <1>5, <1>7 DEF Adding, GF!NoSlot
<1>9. StillLacks'
  <2>1. \A part : Holders(part, Visited' \ {emptySlot'}, data') = {}
    BY <1>5 DEF Holders
  <2>2. ~Odd({})
    BY FS_EmptySet DEF Odd
  <2>3. \A part : part \in finalShare' <=> part = GF!Mask(element')
    BY <1>2 DEF GF!Mask
  <2> QED BY <2>1, <2>2, <2>3 DEF StillLacks, GF!Mask
<1> QED BY <1>4, <1>8, <1>9

\* The share fills up the element's mask, in a slot no element before has used.
LEMMA FiPutShare ==
  ASSUME FiInv, GF!PutShare
  PROVE  FiInv'
<1>1. FiTypes /\ Adding /\ StillLacks /\ Answered
  BY DEF FiInv
<1>2. /\ building /\ hash = NumHashes /\ emptySlot # GF!NoSlot
      /\ data' = [data EXCEPT ![emptySlot] = finalShare]
      /\ bf' = bf \cup {emptySlot} /\ GF!NextElement
      /\ building' = (element + 1 < NumElements)
      /\ digest' = digest /\ indHis' = indHis /\ lost' = lost
  BY DEF GF!PutShare
<1>3. Visited = GF!Slots(element)
  BY <1>2, AllVisited
<1>4. /\ emptySlot \in GF!Slots(element) /\ emptySlot \notin bf /\ emptySlot \in GF!Slot
      /\ GF!Slots(element) \ {emptySlot} \subseteq bf
  BY <1>1, <1>2, <1>3 DEF Adding, FiTypes
<1>5. element \in GF!Element /\ element \in Nat /\ element' = element + 1
  BY <1>1, <1>2 DEF FiTypes, GF!Element, GF!NextElement
<1>6. GF!Slots(element) \subseteq GF!Slot
  BY <1>1, <1>5 DEF FiTypes, GF!Slots
<1>7. FiTypes' /\ Adding' /\ StillLacks'
  <2>1. DOMAIN data' = GF!Slot
    BY <1>1, <1>2 DEF FiTypes
  <2>2. bf' = bf \cup (GF!Slots(element) \cap {emptySlot})
    BY <1>2, <1>4
  <2> QED BY <1>2, <2>1, <2>2, FiNextElement
<1>8. \A e : GF!Slots(e)' = GF!Slots(e) /\ Before(e)' = Before(e)
  BY <1>2 DEF Before, GF!Slots
<1>9. data'[emptySlot] = finalShare /\ \A s \in GF!Slot \ {emptySlot} : data'[s] = data[s]
  BY <1>1, <1>2, <1>4 DEF FiTypes
<1>10. \A e : GF!Query(e) = QueryOf(GF!Slots(e), data)
  BY QueryIs
<1>11. \A e : GF!Query(e)' = QueryOf(GF!Slots(e), data')
  <2>1. ASSUME NEW e PROVE GF!Query(e)' = QueryOf(GF!Slots(e)', data')
    BY SameCardinality DEF GF!Query, QueryOf, GF!Cardinality, Cardinality
  <2> QED BY <1>8, <2>1
<1>12. QueryOf(GF!Slots(element), data') = {GF!Mask(element)}
  <2> DEFINE S == GF!Slots(element) \ {emptySlot}
             U == GF!Slots(element)
  <2>1. U = S \cup {emptySlot} /\ emptySlot \notin S /\ S \subseteq GF!Slot
    BY <1>4, <1>6
  <2>2. ASSUME NEW part PROVE Odd(Holders(part, U, data')) <=> part = GF!Mask(element)
    <3>1. part \in finalShare <=> ~(part = GF!Mask(element) <=> Odd(Holders(part, S, data)))
      BY <1>1, <1>3 DEF StillLacks
    <3>2. Holders(part, S, data') = Holders(part, S, data)
      BY <1>9, <2>1 DEF Holders
    <3>3. Odd(Holders(part, U, data')) <=>
            ~(part \in data'[emptySlot] <=> Odd(Holders(part, S, data')))
      <4> HIDE DEF S, U
      <4> QED BY <1>4, <2>1, OneSlotMore
    <3> QED BY <1>9, <3>1, <3>2, <3>3
  <2>3. \A part : part \in QueryOf(U, data') <=> part = GF!Mask(element)
    BY <2>2, QueryHolds
  <2> QED BY <2>3
<1>13. Answered'
  <2>1. ASSUME NEW e \in 0 .. element' - 1
        PROVE  /\ GF!Slots(e) \subseteq bf'
               /\ \/ GF!Query(e)' = {GF!Mask(e)}
                  \/ e \in lost' /\ GF!Slots(e) \subseteq Before(e)
    <3>1. CASE e = element
      BY <1>2, <1>4, <1>11, <1>12, <3>1
    <3>2. CASE e # element
      <4>1. e \in 0 .. element - 1
        BY <1>5, <3>2
      <4>2. GF!Slots(e) \subseteq bf
        BY <1>1, <4>1 DEF Answered
      <4>3. \A s \in GF!Slots(e) : data'[s] = data[s]
        <5>1. e \in GF!Element
          BY <1>5, <4>1, SlotsFinite DEF GF!Element
        <5>2. GF!Slots(e) \subseteq GF!Slot
          BY <1>1, <5>1 DEF FiTypes, GF!Slots
        <5> QED BY <1>4, <1>9, <4>2, <5>2
      <4>4. GF!Query(e)' = GF!Query(e)
        BY <1>10, <1>11, <4>3, QueryStays
      <4> QED BY <1>1, <1>2, <4>1, <4>2, <4>4 DEF Answered
    <3> QED BY <3>1, <3>2
  <2> QED BY <1>8, <2>1 DEF Answered, GF!Mask
<1> QED BY <1>7, <1>13 DEF FiInv

\* Nothing is written to the filter; the element has only been to slots of
\* others.
LEMMA FiPutNowhere ==
  ASSUME FiInv, GF!PutNowhere
  PROVE  FiInv'
<1>1. FiTypes /\ Adding /\ StillLacks /\ Answered
  BY DEF FiInv
<1>2. /\ building /\ hash = NumHashes /\ emptySlot = GF!NoSlot
      /\ lost' = lost \cup {element} /\ GF!NextElement
      /\ building' \in {FALSE, element + 1 < NumElements}
      /\ digest' = digest /\ indHis' = indHis /\ data' = data /\ bf' = bf
  BY DEF GF!PutNowhere
<1>3. element \in GF!Element /\ element \in Nat /\ element' = element + 1
  BY <1>1, <1>2 DEF FiTypes, GF!Element, GF!NextElement
<1>4. GF!Slots(element) \subseteq GF!Slot /\ emptySlot \notin GF!Slots(element)
  BY <1>1, <1>2, <1>3, SlotsFinite DEF FiTypes, GF!Slots
<1>5. Visited = GF!Slots(element)
  BY <1>2, AllVisited
<1>6. GF!Slots(element) \subseteq bf /\ GF!Slots(element) \subseteq Before(element)
  BY <1>1, <1>2, <1>4, <1>5 DEF Adding
<1>7. FiTypes' /\ Adding' /\ StillLacks'
  <2>1. DOMAIN data' = GF!Slot
    BY <1>1, <1>2 DEF FiTypes
  <2>2. bf' = bf \cup (GF!Slots(element) \cap {emptySlot})
    BY <1>2, <1>4
  <2>3. building' => element + 1 < NumElements
    BY <1>2
  <2> QED BY <1>2, <2>1, <2>2, <2>3, FiNextElement
<1>8. \A e : GF!Slots(e)' = GF!Slots(e) /\ Before(e)' = Before(e) /\ GF!Query(e)' = GF!Query(e)
  BY <1>2 DEF Before, GF!Slots, GF!Query
<1>9. Answered'
  <2>1. ASSUME NEW e \in 0 .. element' - 1
        PROVE  /\ GF!Slots(e) \subseteq bf'
               /\ \/ GF!Query(e)' = {GF!Mask(e)}
                  \/ e \in lost' /\ GF!Slots(e) \subseteq Before(e)
    <3>1. CASE e = element
      BY <1>2, <1>6, <3>1
    <3>2. CASE e # element
      <4>1. e \in 0 .. element - 1
        BY <1>3, <3>2
      <4> QED BY <1>1, <1>2, <1>8, <4>1 DEF Answered
    <3> QED BY <3>1, <3>2
  <2> QED BY <1>8, <2>1 DEF Answered, GF!Mask
<1> QED BY <1>7, <1>9 DEF FiInv

\* Every step keeps the invariant.
LEMMA FiNext == FiInv /\ [Next]_vars => FiInv'
<1> SUFFICES ASSUME FiInv, [Next]_vars PROVE FiInv'
  OBVIOUS
<1>1. CASE Filter
  <2>1. GF!Step
    BY <1>1 DEF Filter
  <2> QED BY <2>1, FiDigest, FiPutShare, FiPutNowhere DEF GF!Step
<1>2. CASE UNCHANGED filterVars
  <2>1. /\ digest' = digest /\ element' = element /\ hash' = hash /\ indHis' = indHis
        /\ emptySlot' = emptySlot /\ finalShare' = finalShare /\ data' = data /\ bf' = bf
        /\ lost' = lost /\ building' = building
    BY <1>2 DEF filterVars
  <2>2. (\A e : GF!Slots(e)' = GF!Slots(e) /\ Before(e)' = Before(e) /\ GF!Query(e)' = GF!Query(e))
        /\ Visited' = Visited
    BY <2>1 DEF Before, GF!Slots, GF!Query, Visited
  <2>3. (FiTypes' <=> FiTypes) /\ (Adding' <=> Adding)
    BY <2>1, <2>2 DEF FiTypes, Adding, GF!NoSlot
  <2>4. (StillLacks' <=> StillLacks) /\ (Answered' <=> Answered)
    BY <2>1, <2>2 DEF StillLacks, Answered, GF!Mask
  <2> QED BY <2>3, <2>4 DEF FiInv
<1> QED BY <1>1, <1>2 DEF Next, Hash, Solve, Key, vars

\* BLOOM_FILTER's GBF_add: slots in use are never written again, and the final
\* share is at any time what the element's other slots lack of its mask.
THEOREM FilterInvariant == Spec => []FiInv
BY FiInit, FiNext, PTL DEF Spec

\* BLOOM_FILTER: an element that GBF_add has put into the filter is answered
\* with its own mask from then on, whatever the elements after it write; one
\* that is not had only slots the elements before it had been to.
THEOREM FilterKeepsAnswers == Spec => []FilterAnswers
<1>1. FiInv => FilterAnswers
  BY DEF FiInv, Answered, FilterAnswers, Before
<1> QED BY <1>1, FilterInvariant, PTL

-----------------------------------------------------------------------------
(***************************************************************************)
(* Powers of two, and the number that a set of bits stands for.            *)
(***************************************************************************)

\* With one element more there are twice as many subsets, so each power of two
\* is twice the one before.
LEMMA PowerDoubles ==
  ASSUME NEW n \in Nat
  PROVE  2 ^ n \in Nat \ {0} /\ 2 ^ (n + 1) = 2 * 2 ^ n
<1> DEFINE S == 0 .. n - 1
           T == S \cup {n}
           U == {x \cup {n} : x \in SUBSET S}
<1>1. IsFiniteSet(S) /\ Cardinality(S) = n
  <2>1. 0 \in Int /\ n - 1 \in Int
    OBVIOUS
  <2>2. IsFiniteSet(S) /\ Cardinality(S) = IF 0 > n - 1 THEN 0 ELSE (n - 1) - 0 + 1
    BY <2>1, FS_Interval
  <2> QED BY <2>2
<1>2. n \notin S
  OBVIOUS
<1>3. IsFiniteSet(T) /\ Cardinality(T) = n + 1
  BY <1>1, <1>2, FS_AddElement
<1> HIDE DEF S
<1>4. /\ IsFiniteSet(SUBSET S) /\ Cardinality(SUBSET S) = 2 ^ n
      /\ Cardinality(SUBSET T) = 2 ^ (n + 1)
  BY <1>1, <1>3, FS_SUBSET
<1>5. IsFiniteSet(U) /\ Cardinality(U) = Cardinality(SUBSET S)
  <2> DEFINE f == [x \in SUBSET S |-> x \cup {n}]
  <2>1. f \in [SUBSET S -> U] /\ \A u \in U : \E x \in SUBSET S : f[x] = u
    OBVIOUS
  <2>2. \A x, y \in SUBSET S : f[x] = f[y] => x = y
    BY <1>2
  <2>3. f \in Bijection(SUBSET S, U)
    <3> HIDE DEF f, U
    <3>1. f \in Injection(SUBSET S, U)
      BY <2>1, <2>2 DEF Injection, IsInjective
    <3>2. f \in Surjection(SUBSET S, U)
      BY <2>1 DEF Surjection
    <3> QED BY <3>1, <3>2 DEF Bijection
  <2>4. ExistsBijection(SUBSET S, U)
    BY <2>3 DEF ExistsBijection
  <2> QED BY <1>4, <2>4, FS_Bijection
<1>6. SUBSET T = (SUBSET S) \cup U
  <2>1. ASSUME NEW x \in SUBSET T PROVE x \in (SUBSET S) \cup U
    <3>1. CASE n \in x
      <4>1. x \ {n} \in SUBSET S /\ x = (x \ {n}) \cup {n}
        BY <3>1
      <4> QED BY <4>1
    <3>2. CASE n \notin x
      BY <3>2
    <3> QED BY <3>1, <3>2
  <2>2. ASSUME NEW x \in (SUBSET S) \cup U PROVE x \in SUBSET T
    OBVIOUS
  <2> QED BY <2>1, <2>2
<1>7. (SUBSET S) \cap U = {}
  BY <1>2
<1>8. Cardinality((SUBSET S) \cap U) = 0
  BY <1>7, FS_EmptySet
<1>9. Cardinality(SUBSET T) = Cardinality(SUBSET S) + Cardinality(U) - Cardinality((SUBSET S) \cap U)
  <2>1. Cardinality((SUBSET S) \cup U) =
          Cardinality(SUBSET S) + Cardinality(U) - Cardinality((SUBSET S) \cap U)
    <3> HIDE DEF U
    <3> QED BY <1>4, <1>5, FS_Union
  <2> QED BY <1>6, <2>1
<1>10. Cardinality(SUBSET S) \in Nat
  BY <1>4, FS_CardinalityType
<1>11. Cardinality(SUBSET S) # 0
  <2>1. SUBSET S # {}
    OBVIOUS
  <2> QED BY <1>4, <2>1, FS_EmptySet
<1>12. 2 ^ n \in Nat \ {0}
  BY <1>4, <1>10, <1>11
<1> DEFINE p == 2 ^ n
           q == 2 ^ (n + 1)
<1>13. p \in Nat /\ q = p + p - 0
  BY <1>4, <1>5, <1>8, <1>9, <1>12
<1> HIDE DEF p, q
<1>14. q = 2 * p
  BY <1>13
<1> QED BY <1>12, <1>14 DEF p, q

\* The first two powers of two.
LEMMA FirstPowers ==
  ASSUME NEW n \in Nat
  PROVE  (n = 0 => 2 ^ n = 1) /\ (n = 1 => 2 ^ n = 2)
<1> DEFINE p == 2 ^ 0
           q == 2 ^ 1
<1>1. p = 1 /\ q = 2
  OBVIOUS
<1>2. n = 0 => 2 ^ n = p
  BY Zenon
<1>3. n = 1 => 2 ^ n = q
  BY Zenon
<1> HIDE DEF p, q
<1> QED BY <1>1, <1>2, <1>3

\* Powers of two grow with the exponent.
LEMMA PowerGrows ==
  ASSUME NEW i \in Nat, NEW j \in Nat, i < j
  PROVE  2 ^ i < 2 ^ j
<1> DEFINE S == {k \in Nat : ~(2 ^ i < 2 ^ ((i + 1) + k))}
<1>1. S = {}
  <2>1. SUFFICES ASSUME S # {} PROVE FALSE
    OBVIOUS
  <2>2. PICK m \in S : \A k \in S : m <= k
    BY <2>1, LowestOf
  <2>3. CASE m = 0
    <3>1. 2 ^ i \in Nat \ {0} /\ 2 ^ (i + 1) = 2 * 2 ^ i
      BY PowerDoubles
    <3>2. (i + 1) + 0 = i + 1
      OBVIOUS
    <3>3. ~(2 ^ i < 2 ^ (i + 1))
      BY <2>2, <2>3, <3>2
    <3> DEFINE p == 2 ^ i
    <3>4. p \in Nat \ {0} /\ ~(p < 2 * p)
      BY <3>1, <3>3
    <3> HIDE DEF p
    <3> QED BY <3>4
  <2>4. CASE m # 0
    <3> DEFINE n == m - 1
               e == (i + 1) + n
    <3>1. n \in Nat /\ e \in Nat /\ (i + 1) + m = e + 1 /\ n \notin S
      BY <2>2, <2>4
    <3>2. 2 ^ i < 2 ^ e
      BY <3>1
    <3>3. 2 ^ e \in Nat \ {0} /\ 2 ^ (e + 1) = 2 * 2 ^ e /\ 2 ^ i \in Nat
      <4> HIDE DEF e
      <4> QED BY <3>1, PowerDoubles
    <3>4. ~(2 ^ i < 2 ^ (e + 1))
      <4> HIDE DEF e
      <4> QED BY <2>2, <3>1
    <3> DEFINE p == 2 ^ i
               q == 2 ^ e
               r == 2 ^ (e + 1)
    <3>5. p \in Nat /\ q \in Nat \ {0} /\ r = 2 * q /\ p < q /\ ~(p < r)
      BY <3>2, <3>3, <3>4
    <3> HIDE DEF p, q, r
    <3> QED BY <3>5
  <2> QED BY <2>3, <2>4
<1> DEFINE k == j - (i + 1)
<1>2. k \in Nat /\ j = (i + 1) + k
  OBVIOUS
<1> HIDE DEF k
<1> QED BY <1>1, <1>2

\* CeilLog2 and FloorLog2, for what fits the 30 bits of the model: they differ
\* except at the powers of two.
LEMMA Logarithms ==
  ASSUME NEW x \in 2 .. 2 ^ 30
  PROVE  LET a == HE!CeilLog2(x)
             f == HE!FloorLog2(x)
         IN  /\ a \in 1 .. 30 /\ f \in 1 .. 30 /\ x <= 2 ^ a
             /\ (f = a /\ x = 2 ^ a) \/ (f = a - 1 /\ x # 2 ^ a)
<1> DEFINE C(k) == 2 ^ (k - 1) < x /\ x <= 2 ^ k
           F(k) == 2 ^ k <= x /\ x < 2 ^ (k + 1)
           a == HE!CeilLog2(x)
           f == HE!FloorLog2(x)
<1>1. x \in Nat /\ x # 1 /\ x >= 2 /\ x <= 2 ^ 30
  OBVIOUS
<1> DEFINE S == {k \in Nat : x <= 2 ^ k}
<1>2. PICK c \in S : \A k \in S : c <= k
  <2>1. S # {} /\ S \subseteq Nat
    BY <1>1
  <2> HIDE DEF S
  <2> QED BY <2>1, LowestOf
<1>3. c \in 1 .. 30 /\ C(c)
  <2>1. c \in Nat /\ x <= 2 ^ c
    BY <1>2
  <2>2. c <= 30
    BY <1>1, <1>2
  <2>3. c # 0
    <3>1. c = 0 => 2 ^ c = 1
      BY <2>1, FirstPowers
    <3> QED BY <1>1, <2>1, <3>1
  <2>4. c - 1 \in Nat /\ c - 1 \notin S
    BY <1>2, <2>1, <2>3
  <2>5. ~(x <= 2 ^ (c - 1)) /\ 2 ^ (c - 1) \in Nat
    BY <2>4, PowerDoubles
  <2> QED BY <1>1, <2>1, <2>2, <2>3, <2>5
<1>4. a \in 1 .. 30 /\ C(a)
  <2>1. a = CHOOSE k \in 1 .. 30 : C(k)
    BY <1>1 DEF HE!CeilLog2
  <2>2. \E k \in 1 .. 30 : C(k)
    BY <1>3
  <2> HIDE DEF C, a
  <2> QED BY <2>1, <2>2
<1>5. \E k \in 1 .. 30 : F(k)
  <2>1. 2 ^ c \in Nat /\ 2 ^ (c + 1) = 2 * 2 ^ c /\ 2 ^ c # 0
    BY <1>3, PowerDoubles
  <2>2. CASE x = 2 ^ c
    BY <1>3, <2>1, <2>2
  <2>3. CASE x # 2 ^ c
    <3>1. (c - 1) + 1 = c /\ c - 1 \in Nat
      BY <1>3
    <3>2. F(c - 1)
      BY <1>1, <1>3, <2>1, <2>3, <3>1, PowerDoubles
    <3>3. c # 1
      <4>1. c = 1 => 2 ^ c = 2
        BY <1>3, FirstPowers
      <4>2. x <= 2 ^ c
        BY <1>3
      <4> QED BY <1>1, <2>3, <4>1, <4>2
    <3>4. c - 1 \in 1 .. 30
      BY <1>3, <3>3
    <3> QED BY <3>2, <3>4
  <2> QED BY <2>2, <2>3
<1>6. f \in 1 .. 30 /\ F(f)
  <2>1. f = CHOOSE k \in 1 .. 30 : F(k)
    BY <1>1 DEF HE!FloorLog2
  <2> HIDE DEF F, f
  <2> QED BY <1>5, <2>1
<1> HIDE DEF a, f
<1>7. /\ a \in Nat /\ f \in Nat /\ a - 1 \in Nat /\ f + 1 \in Nat
      /\ 2 ^ a \in Nat /\ 2 ^ f \in Nat /\ 2 ^ (a - 1) \in Nat /\ 2 ^ (f + 1) \in Nat
  BY <1>4, <1>6, PowerDoubles
<1>8. ~(a < f)
  <2>1. SUFFICES ASSUME a < f PROVE FALSE
    OBVIOUS
  <2>2. 2 ^ a < 2 ^ f
    BY <1>7, <2>1, PowerGrows
  <2> QED BY <1>1, <1>4, <1>6, <1>7, <2>2
<1>9. ~(f + 1 < a)
  <2>1. SUFFICES ASSUME f + 1 < a PROVE FALSE
    OBVIOUS
  <2>2. f + 1 = a - 1 \/ f + 1 < a - 1
    BY <1>7, <2>1
  <2>3. 2 ^ (f + 1) <= 2 ^ (a - 1)
    BY <1>7, <2>2, PowerGrows
  <2> QED BY <1>1, <1>4, <1>6, <1>7, <2>3
<1>10. f = a \/ f = a - 1
  BY <1>7, <1>8, <1>9
<1>11. f = a => x = 2 ^ a
  BY <1>1, <1>4, <1>6, <1>7
<1>12. f = a - 1 => x # 2 ^ a
  <2>1. SUFFICES ASSUME f = a - 1 PROVE x # 2 ^ a
    OBVIOUS
  <2>2. f + 1 = a
    BY <1>7, <2>1
  <2>3. 2 ^ (f + 1) = 2 ^ a
    BY <2>2
  <2>4. x < 2 ^ (f + 1)
    BY <1>6
  <2> QED BY <1>1, <1>7, <2>3, <2>4
<1>13. (f = a /\ x = 2 ^ a) \/ (f = a - 1 /\ x # 2 ^ a)
  BY <1>10, <1>11, <1>12
<1>14. x <= 2 ^ a
  BY <1>4
<1> HIDE DEF C, F
<1> QED BY <1>4, <1>6, <1>13, <1>14 DEF a, f

\* Among finite sets is one of which no element can be taken without leaving
\* them: what stands for induction over finite sets.
LEMMA SmallestSet ==
  ASSUME NEW SS, SS # {}, \A s \in SS : IsFiniteSet(s)
  PROVE  \E s \in SS : \A x \in s : s \ {x} \notin SS
<1> DEFINE S == {n \in Nat : \E s \in SS : Cardinality(s) = n}
<1>1. S \subseteq Nat /\ S # {}
  BY FS_CardinalityType
<1>2. PICK n \in S : \A m \in S : n <= m
  <2> HIDE DEF S
  <2> QED BY <1>1, LowestOf
<1>3. PICK s \in SS : Cardinality(s) = n
  BY <1>2
<1>4. ASSUME NEW x \in s PROVE s \ {x} \notin SS
  <2>1. SUFFICES ASSUME s \ {x} \in SS PROVE FALSE
    OBVIOUS
  <2>2. Cardinality(s \ {x}) = n - 1 /\ Cardinality(s \ {x}) \in Nat /\ n \in Nat
    BY <1>2, <1>3, <2>1, FS_RemoveElement, FS_CardinalityType
  <2>3. n <= n - 1
    BY <1>2, <2>1, <2>2
  <2> QED BY <2>2, <2>3
<1> QED BY <1>3, <1>4

Pick(s) == CHOOSE x \in s : TRUE
Adds(X, f) == f = [s \in SUBSET X |-> IF s = {} THEN 0 ELSE 2 ^ Pick(s) + f[s \ {Pick(s)}]]
NumberOf(X) == (CHOOSE f : Adds(X, f))[X]

\* The number of a set of bits is this sum.
LEMMA NumberIs == \A X : HE!Number(X) = NumberOf(X)
BY DEF HE!Number, HE!MapThenSumSet, HE!MapThenFoldSet, NumberOf, Adds, Pick

\* The fold is defined: for the sets of up to n elements, one n after the other.
UpTo(X, n) == {s \in SUBSET X : Cardinality(s) <= n}
AddsUpTo(X, n, f) ==
  /\ DOMAIN f = UpTo(X, n)
  /\ \A s \in UpTo(X, n) : f[s] = IF s = {} THEN 0 ELSE 2 ^ Pick(s) + f[s \ {Pick(s)}]

\* What the sum takes out first is an element, and one less is left.
LEMMA PickIn ==
  ASSUME NEW s, IsFiniteSet(s), s # {}
  PROVE  /\ Pick(s) \in s /\ IsFiniteSet(s \ {Pick(s)})
         /\ Cardinality(s) \in Nat \ {0} /\ Cardinality(s \ {Pick(s)}) = Cardinality(s) - 1
<1>1. Pick(s) \in s
  BY DEF Pick
<1>2. Cardinality(s) \in Nat /\ Cardinality(s) # 0
  BY FS_CardinalityType, FS_EmptySet
<1> QED BY <1>1, <1>2, FS_RemoveElement

\* So every finite set has its sum.
LEMMA AddsExist ==
  ASSUME NEW X, IsFiniteSet(X)
  PROVE  \E f : Adds(X, f)
<1> DEFINE S == {n \in Nat : ~\E f : AddsUpTo(X, n, f)}
<1>1. \A s \in SUBSET X : IsFiniteSet(s) /\ Cardinality(s) \in Nat
  BY FS_Subset, FS_CardinalityType
<1>2. S = {}
  <2>1. SUFFICES ASSUME S # {} PROVE FALSE
    OBVIOUS
  <2>2. PICK m \in S : \A k \in S : m <= k
    BY <2>1, LowestOf
  <2>3. CASE m = 0
    <3> DEFINE f == [s \in UpTo(X, 0) |-> 0]
    <3>1. \A s \in UpTo(X, 0) : s = {}
      BY <1>1, FS_EmptySet DEF UpTo
    <3>2. AddsUpTo(X, 0, f)
      BY <3>1 DEF AddsUpTo
    <3> QED BY <2>2, <2>3, <3>2
  <2>4. CASE m # 0
    <3>1. m \in Nat /\ m - 1 \in Nat /\ m - 1 \notin S
      BY <2>2, <2>4
    <3>2. PICK f : AddsUpTo(X, m - 1, f)
      BY <3>1
    <3> DEFINE g == [s \in UpTo(X, m) |-> IF s = {} THEN 0 ELSE 2 ^ Pick(s) + f[s \ {Pick(s)}]]
    <3>3. ASSUME NEW s \in UpTo(X, m), s # {} PROVE g[s \ {Pick(s)}] = f[s \ {Pick(s)}]
      <4> DEFINE t == s \ {Pick(s)}
      <4>1. s \in SUBSET X /\ Cardinality(s) <= m
        BY <3>3 DEF UpTo
      <4>2. Cardinality(t) = Cardinality(s) - 1 /\ Cardinality(s) \in Nat
        BY <1>1, <3>3, <4>1, PickIn
      <4>3. t \in UpTo(X, m - 1) /\ t \in UpTo(X, m)
        <5>1. t \in SUBSET X
          BY <4>1
        <5> HIDE DEF t
        <5> QED BY <3>1, <4>1, <4>2, <5>1 DEF UpTo
      <4> HIDE DEF t
      <4>4. f[t] = IF t = {} THEN 0 ELSE 2 ^ Pick(t) + f[t \ {Pick(t)}]
        BY <3>2, <4>3 DEF AddsUpTo
      <4>5. g[t] = IF t = {} THEN 0 ELSE 2 ^ Pick(t) + f[t \ {Pick(t)}]
        BY <4>3
      <4>6. g[t] = f[t]
        BY <4>4, <4>5
      <4> QED BY <4>6 DEF t
    <3>4. ASSUME NEW s \in UpTo(X, m)
          PROVE  g[s] = IF s = {} THEN 0 ELSE 2 ^ Pick(s) + g[s \ {Pick(s)}]
      <4>1. g[s] = IF s = {} THEN 0 ELSE 2 ^ Pick(s) + f[s \ {Pick(s)}]
        OBVIOUS
      <4> HIDE DEF g
      <4> QED BY <3>3, <4>1
    <3>5. DOMAIN g = UpTo(X, m)
      OBVIOUS
    <3>6. AddsUpTo(X, m, g)
      <4> HIDE DEF g
      <4> QED BY <3>4, <3>5 DEF AddsUpTo
    <3> QED BY <2>2, <3>6
  <2> QED BY <2>3, <2>4
<1> DEFINE n == Cardinality(X)
<1>3. n \in Nat /\ UpTo(X, n) = SUBSET X
  <2>1. \A s \in SUBSET X : Cardinality(s) <= Cardinality(X)
    BY FS_Subset
  <2> QED BY <2>1, FS_CardinalityType DEF UpTo
<1>4. PICK f : AddsUpTo(X, n, f)
  BY <1>2, <1>3
<1>5. DOMAIN f = SUBSET X
      /\ \A s \in SUBSET X : f[s] = IF s = {} THEN 0 ELSE 2 ^ Pick(s) + f[s \ {Pick(s)}]
  BY <1>3, <1>4 DEF AddsUpTo
<1> DEFINE h == [s \in SUBSET X |-> f[s]]
<1>6. h = [s \in SUBSET X |-> IF s = {} THEN 0 ELSE 2 ^ Pick(s) + h[s \ {Pick(s)}]]
  <2>1. \A s \in SUBSET X : s \ {Pick(s)} \in SUBSET X
    OBVIOUS
  <2>2. \A s \in SUBSET X : h[s] = IF s = {} THEN 0 ELSE 2 ^ Pick(s) + h[s \ {Pick(s)}]
    BY <1>5, <2>1
  <2>3. h = [s \in SUBSET X |-> h[s]]
    OBVIOUS
  <2> HIDE DEF h
  <2> QED BY <2>2, <2>3
<1> QED BY <1>6 DEF Adds

\* And the same for a set and for a larger one.
LEMMA AddsAgree ==
  ASSUME NEW X, NEW Y, Y \subseteq X, IsFiniteSet(X), NEW f, NEW g, Adds(X, f), Adds(Y, g)
  PROVE  f[Y] = g[Y]
<1> DEFINE SS == {s \in SUBSET Y : f[s] # g[s]}
<1>1. SS = {}
  <2>1. SUFFICES ASSUME SS # {} PROVE FALSE
    OBVIOUS
  <2>2. \A s \in SS : IsFiniteSet(s)
    BY FS_Subset
  <2>3. PICK s \in SS : \A x \in s : s \ {x} \notin SS
    <3> HIDE DEF SS
    <3> QED BY <2>1, <2>2, SmallestSet
  <2>4. s \in SUBSET X /\ s \in SUBSET Y /\ f[s] # g[s]
    OBVIOUS
  <2>5. f[s] = IF s = {} THEN 0 ELSE 2 ^ Pick(s) + f[s \ {Pick(s)}]
    BY <2>4 DEF Adds
  <2>6. g[s] = IF s = {} THEN 0 ELSE 2 ^ Pick(s) + g[s \ {Pick(s)}]
    BY <2>4 DEF Adds
  <2>7. s # {} => f[s \ {Pick(s)}] = g[s \ {Pick(s)}]
    BY <2>3, <2>4 DEF Pick
  <2> QED BY <2>4, <2>5, <2>6, <2>7
<1> QED BY <1>1

\* The sum, without the element it takes first.
LEMMA NumberStep ==
  ASSUME NEW X, IsFiniteSet(X)
  PROVE  NumberOf(X) = IF X = {} THEN 0 ELSE 2 ^ Pick(X) + NumberOf(X \ {Pick(X)})
<1> DEFINE f == CHOOSE h : Adds(X, h)
           Y == X \ {Pick(X)}
           g == CHOOSE h : Adds(Y, h)
<1>1. Adds(X, f)
  BY AddsExist
<1>2. IsFiniteSet(Y) /\ Y \subseteq X
  BY FS_Subset
<1>3. Adds(Y, g)
  <2> HIDE DEF Y
  <2> QED BY <1>2, AddsExist
<1>4. NumberOf(X) = f[X] /\ NumberOf(Y) = g[Y]
  BY DEF NumberOf
<1> HIDE DEF f, g
<1>5. f[Y] = g[Y]
  <2> HIDE DEF Y
  <2> QED BY <1>1, <1>2, <1>3, AddsAgree
<1>6. f[X] = IF X = {} THEN 0 ELSE 2 ^ Pick(X) + f[X \ {Pick(X)}]
  <2>1. X \in SUBSET X
    OBVIOUS
  <2> QED BY <1>1, <2>1 DEF Adds
<1> QED BY <1>4, <1>5, <1>6

\* The number of a finite set of naturals is a natural.
LEMMA NumberNat ==
  ASSUME NEW X \in SUBSET Nat, IsFiniteSet(X)
  PROVE  NumberOf(X) \in Nat
<1> DEFINE SS == {s \in SUBSET X : NumberOf(s) \notin Nat}
<1>1. SS = {}
  <2>1. SUFFICES ASSUME SS # {} PROVE FALSE
    OBVIOUS
  <2>2. \A s \in SS : IsFiniteSet(s)
    BY FS_Subset
  <2>3. PICK s \in SS : \A x \in s : s \ {x} \notin SS
    <3> HIDE DEF SS
    <3> QED BY <2>1, <2>2, SmallestSet
  <2>4. NumberOf(s) = IF s = {} THEN 0 ELSE 2 ^ Pick(s) + NumberOf(s \ {Pick(s)})
    BY <2>2, <2>3, NumberStep
  <2>5. CASE s = {}
    BY <2>3, <2>4, <2>5
  <2>6. CASE s # {}
    <3>1. Pick(s) \in s /\ Pick(s) \in Nat
      BY <2>3, <2>6 DEF Pick
    <3>2. NumberOf(s \ {Pick(s)}) \in Nat
      BY <2>3, <3>1
    <3>3. 2 ^ Pick(s) \in Nat
      BY <3>1, PowerDoubles
    <3> QED BY <2>3, <2>4, <2>6, <3>2, <3>3
  <2> QED BY <2>5, <2>6
<1> QED BY <1>1

\* The order of the summands does not matter.
LEMMA NumberWithout ==
  ASSUME NEW X \in SUBSET Nat, IsFiniteSet(X), NEW x \in X
  PROVE  NumberOf(X) = 2 ^ x + NumberOf(X \ {x})
<1> DEFINE SS == {s \in SUBSET X : \E y \in s : NumberOf(s) # 2 ^ y + NumberOf(s \ {y})}
<1>1. \A s \in SUBSET X : IsFiniteSet(s) /\ s \in SUBSET Nat /\ NumberOf(s) \in Nat
  BY FS_Subset, NumberNat
<1>2. SS = {}
  <2>1. SUFFICES ASSUME SS # {} PROVE FALSE
    OBVIOUS
  <2>2. \A s \in SS : IsFiniteSet(s)
    BY <1>1
  <2>3. PICK s \in SS : \A y \in s : s \ {y} \notin SS
    <3> HIDE DEF SS
    <3> QED BY <2>1, <2>2, SmallestSet
  <2>4. PICK y \in s : NumberOf(s) # 2 ^ y + NumberOf(s \ {y})
    BY <2>3
  <2> DEFINE c == Pick(s)
  <2>5. c \in s /\ NumberOf(s) = 2 ^ c + NumberOf(s \ {c})
    <3>1. s # {}
      OBVIOUS
    <3> QED BY <1>1, <2>3, <3>1, NumberStep DEF Pick
  <2> HIDE DEF c
  <2>6. y # c /\ y \in s \ {c} /\ c \in s \ {y}
    BY <2>4, <2>5
  <2>7. s \ {c} \in SUBSET X /\ s \ {y} \in SUBSET X /\ (s \ {c}) \ {y} = (s \ {y}) \ {c}
        /\ (s \ {c}) \ {y} \in SUBSET X
    BY <2>3
  <2>8. NumberOf(s \ {c}) = 2 ^ y + NumberOf((s \ {c}) \ {y})
    <3>1. s \ {c} \notin SS
      BY <2>3, <2>5
    <3> QED BY <2>6, <2>7, <3>1
  <2>9. NumberOf(s \ {y}) = 2 ^ c + NumberOf((s \ {y}) \ {c})
    <3>1. s \ {y} \notin SS
      BY <2>3
    <3> QED BY <2>6, <2>7, <3>1
  <2> DEFINE r == NumberOf((s \ {c}) \ {y})
             p == 2 ^ c
             q == 2 ^ y
             t == NumberOf(s \ {y})
             v == NumberOf(s)
             w == NumberOf(s \ {c})
  <2>10. r \in Nat /\ p \in Nat /\ q \in Nat
    <3>1. c \in Nat /\ y \in Nat
      BY <1>1, <2>3, <2>5
    <3> QED BY <1>1, <2>7, <3>1, PowerDoubles
  <2>11. v = p + w /\ w = q + r /\ t = p + r /\ v # q + t
    BY <2>4, <2>5, <2>7, <2>8, <2>9
  <2> HIDE DEF r, p, q, t, v, w
  <2> QED BY <2>10, <2>11
<1> QED BY <1>2

\* Shifted by one bit to the right, a number is half of what it was.
Half(X) == {bit \in Nat : bit + 1 \in X}

\* Half a finite set of bits is one, too.
LEMMA HalfFinite ==
  ASSUME NEW X \in SUBSET Nat, IsFiniteSet(X)
  PROVE  Half(X) \in SUBSET Nat /\ IsFiniteSet(Half(X))
<1> DEFINE f == [bit \in Half(X) |-> bit + 1]
<1>1. f \in [Half(X) -> X] /\ \A bit, c \in Half(X) : f[bit] = f[c] => bit = c
  BY DEF Half
<1>2. f \in Injection(Half(X), X)
  <2> HIDE DEF f
  <2> QED BY <1>1 DEF Injection, IsInjective
<1>3. IsFiniteSet(Half(X))
  <2> HIDE DEF f
  <2> QED BY <1>2, FS_Injection
<1> QED BY <1>3 DEF Half

\* Moving the bits one to the right halves the number.
LEMMA NumberHalf ==
  ASSUME NEW X \in SUBSET Nat, IsFiniteSet(X)
  PROVE  NumberOf(X) = 2 * NumberOf(Half(X)) + (IF 0 \in X THEN 1 ELSE 0)
<1> DEFINE Good(s) == NumberOf(s) = 2 * NumberOf(Half(s)) + (IF 0 \in s THEN 1 ELSE 0)
           SS == {s \in SUBSET X : ~Good(s)}
<1>1. \A s \in SUBSET X : /\ IsFiniteSet(s) /\ s \in SUBSET Nat /\ NumberOf(s) \in Nat
                          /\ IsFiniteSet(Half(s)) /\ Half(s) \in SUBSET Nat
                          /\ NumberOf(Half(s)) \in Nat
  BY FS_Subset, NumberNat, HalfFinite
<1>2. SS = {}
  <2>1. SUFFICES ASSUME SS # {} PROVE FALSE
    OBVIOUS
  <2>2. \A s \in SS : IsFiniteSet(s)
    BY <1>1
  <2>3. PICK s \in SS : \A x \in s : s \ {x} \notin SS
    <3> HIDE DEF SS
    <3> QED BY <2>1, <2>2, SmallestSet
  <2>4. s \in SUBSET X /\ ~Good(s)
    OBVIOUS
  <2> HIDE DEF Good
  <2>5. CASE s = {}
    <3>1. Half(s) = {} /\ NumberOf({}) = 0
      BY <2>5, FS_EmptySet, NumberStep DEF Half
    <3> QED BY <2>4, <2>5, <3>1 DEF Good
  <2>6. CASE 0 \in s
    <3> DEFINE t == s \ {0}
               n == NumberOf(t)
               h == NumberOf(Half(t))
    <3>1. t \in SUBSET X /\ t \notin SS /\ Good(t)
      BY <2>3, <2>4, <2>6
    <3>2. Half(t) = Half(s)
      BY DEF Half
    <3>3. NumberOf(s) = 2 ^ 0 + n
      <4> HIDE DEF t
      <4>1. NumberOf(s) = 2 ^ 0 + NumberOf(s \ {0})
        BY <1>1, <2>4, <2>6, NumberWithout
      <4> QED BY <4>1 DEF t
    <3>4. n = 2 * h
      BY <1>1, <3>1 DEF Good
    <3>5. h \in Nat /\ NumberOf(Half(s)) = h
      BY <1>1, <3>1, <3>2
    <3> HIDE DEF n, h, t
    <3>6. NumberOf(s) = 2 * h + 1
      BY <3>3, <3>4, <3>5
    <3> QED BY <2>4, <2>6, <3>5, <3>6 DEF Good
  <2>7. CASE s # {} /\ 0 \notin s
    <3>1. PICK x \in s : TRUE
      BY <2>7
    <3>2. x \in Nat /\ x - 1 \in Nat /\ x - 1 \in Half(s) /\ (x - 1) + 1 = x
      BY <1>1, <2>4, <2>7 DEF Half
    <3> DEFINE t == s \ {x}
               y == x - 1
               n == NumberOf(t)
               h == NumberOf(Half(t))
               p == 2 ^ y
    <3>3. t \in SUBSET X /\ t \notin SS /\ Good(t) /\ 0 \notin t
      BY <2>3, <2>4, <2>7
    <3>4. Half(t) = Half(s) \ {y}
      BY <3>2 DEF Half
    <3>5. NumberOf(s) = 2 ^ x + n
      BY <1>1, <2>4, NumberWithout
    <3>6. NumberOf(Half(s)) = p + NumberOf(Half(s) \ {y})
      <4> HIDE DEF y
      <4> QED BY <1>1, <2>4, <3>2, NumberWithout DEF y
    <3>7. p \in Nat /\ 2 ^ x = 2 * p
      <4>1. 2 ^ y \in Nat /\ 2 ^ (y + 1) = 2 * 2 ^ y
        <5> HIDE DEF y
        <5> QED BY <3>2, PowerDoubles DEF y
      <4>2. y + 1 = x
        BY <3>2
      <4> HIDE DEF y
      <4>3. 2 ^ (y + 1) = 2 ^ x
        BY <4>2
      <4> QED BY <4>1, <4>3
    <3>8. h \in Nat
      BY <1>1, <3>3
    <3>9. n = 2 * h
      <4> HIDE DEF t
      <4>1. n = 2 * h + (IF 0 \in t THEN 1 ELSE 0)
        BY <3>3 DEF Good
      <4> HIDE DEF n, h
      <4> QED BY <3>3, <3>8, <4>1
    <3> HIDE DEF t, y, n, h, p
    <3>10. NumberOf(Half(s)) = p + h
      BY <3>4, <3>6 DEF h
    <3>11. NumberOf(s) = 2 * NumberOf(Half(s))
      BY <3>5, <3>7, <3>8, <3>9, <3>10
    <3>12. NumberOf(Half(s)) \in Nat
      BY <1>1, <2>4
    <3> QED BY <2>4, <2>7, <3>11, <3>12 DEF Good
  <2> QED BY <2>5, <2>6, <2>7
<1>3. Good(X)
  BY <1>2
<1> QED BY <1>3

\* Two numbers that agree modulo a power of two have the bits below it.
LEMMA NumberTells ==
  ASSUME NEW n \in Nat
  PROVE  \A X, Y \in SUBSET Nat, d \in Int :
           IsFiniteSet(X) /\ IsFiniteSet(Y) /\ NumberOf(X) - NumberOf(Y) = 2 ^ n * d
             => \A bit \in 0 .. n - 1 : bit \in X <=> bit \in Y
<1> DEFINE Same(X, Y, k) == \A bit \in 0 .. k - 1 : bit \in X <=> bit \in Y
           Tells(k) == \A X, Y \in SUBSET Nat, d \in Int :
                         IsFiniteSet(X) /\ IsFiniteSet(Y) /\ NumberOf(X) - NumberOf(Y) = 2 ^ k * d
                           => Same(X, Y, k)
           S == {k \in Nat : ~Tells(k)}
<1>1. Tells(0)
  OBVIOUS
<1>2. ASSUME NEW k \in Nat, Tells(k) PROVE Tells(k + 1)
  <2>1. SUFFICES ASSUME NEW X \in SUBSET Nat, NEW Y \in SUBSET Nat, NEW d \in Int,
                        IsFiniteSet(X), IsFiniteSet(Y),
                        NumberOf(X) - NumberOf(Y) = 2 ^ (k + 1) * d
                 PROVE  Same(X, Y, k + 1)
    OBVIOUS
  <2> DEFINE x == NumberOf(Half(X))
             y == NumberOf(Half(Y))
             p == 2 ^ k
             q == p * d
             u == IF 0 \in X THEN 1 ELSE 0
             v == IF 0 \in Y THEN 1 ELSE 0
  <2>2. /\ Half(X) \in SUBSET Nat /\ Half(Y) \in SUBSET Nat
        /\ IsFiniteSet(Half(X)) /\ IsFiniteSet(Half(Y))
    BY <2>1, HalfFinite
  <2>3. x \in Nat /\ y \in Nat
    BY <2>2, NumberNat
  <2>4. NumberOf(X) = 2 * x + u /\ NumberOf(Y) = 2 * y + v
    BY <2>1, NumberHalf
  <2>5. 2 ^ (k + 1) = 2 * p /\ p \in Nat
    BY PowerDoubles
  <2>6. u \in {0, 1} /\ v \in {0, 1} /\ (u = 1 <=> 0 \in X) /\ (v = 1 <=> 0 \in Y)
    OBVIOUS
  <2> HIDE DEF x, y, p, u, v
  <2>7. q \in Int /\ (2 * p) * d = 2 * q
    BY <2>5
  <2> HIDE DEF q
  <2>8. (2 * x + u) - (2 * y + v) = 2 * q
    BY <2>1, <2>4, <2>5, <2>7
  <2>9. u = v /\ x - y = q
    BY <2>3, <2>6, <2>7, <2>8
  <2>10. Same(Half(X), Half(Y), k)
    <3>1. NumberOf(Half(X)) - NumberOf(Half(Y)) = 2 ^ k * d
      BY <2>9 DEF x, y, p, q
    <3> HIDE DEF Same
    <3> QED BY <1>2, <2>2, <3>1
  <2>11. ASSUME NEW bit \in 0 .. (k + 1) - 1 PROVE bit \in X <=> bit \in Y
    <3>1. CASE bit = 0
      BY <2>6, <2>9, <3>1
    <3>2. CASE bit # 0
      <4>1. bit - 1 \in 0 .. k - 1 /\ bit - 1 \in Nat /\ (bit - 1) + 1 = bit
        BY <3>2
      <4> QED BY <2>10, <4>1 DEF Half
    <3> QED BY <3>1, <3>2
  <2> QED BY <2>11
<1>3. S = {}
  <2>1. SUFFICES ASSUME S # {} PROVE FALSE
    OBVIOUS
  <2> HIDE DEF Tells
  <2>2. PICK m \in S : \A k \in S : m <= k
    BY <2>1, LowestOf
  <2>3. m \in Nat /\ m # 0
    BY <1>1, <2>2
  <2>4. m - 1 \in Nat /\ m - 1 \notin S /\ (m - 1) + 1 = m
    BY <2>2, <2>3
  <2>5. Tells(m - 1)
    BY <2>4
  <2>6. Tells((m - 1) + 1)
    BY <1>2, <2>4, <2>5
  <2> QED BY <2>2, <2>4, <2>6
<1>4. Tells(n)
  <2> HIDE DEF Tells
  <2> QED BY <1>3
<1> QED BY <1>4

SameRemainder(X, Y, m) == HE!Number(X) % m = HE!Number(Y) % m
SameBelow(X, Y, n) == \A bit \in 0 .. n - 1 : bit \in X <=> bit \in Y

\* The remainders of two numbers by a power of two tell the bits below it.
LEMMA RemainderTells ==
  ASSUME NEW X \in SUBSET Nat, NEW Y \in SUBSET Nat, IsFiniteSet(X), IsFiniteSet(Y),
         NEW n \in Nat, NEW m, m = 2 ^ n, SameRemainder(X, Y, m)
  PROVE  SameBelow(X, Y, n)
<1> DEFINE x == NumberOf(X)
           y == NumberOf(Y)
           q == x \div m
           r == y \div m
<1>1. x \in Nat /\ y \in Nat /\ m \in Nat \ {0} /\ x % m = y % m
  BY NumberNat, NumberIs, PowerDoubles DEF SameRemainder
<1> HIDE DEF x, y
<1>2. x = m * q + (x % m) /\ y = m * r + (y % m) /\ q \in Int /\ r \in Int
      /\ x % m \in Nat
  BY <1>1
<1> HIDE DEF q, r
<1>3. m * q - m * r = m * (q - r) /\ m * q \in Int /\ m * r \in Int
  BY <1>1, <1>2
<1>4. x - y = m * (q - r) /\ q - r \in Int
  <2> DEFINE s == m * q
             t == m * r
             e == x % m
  <2>1. x = s + e /\ y = t + e /\ s \in Int /\ t \in Int /\ e \in Int
    BY <1>1, <1>2, <1>3
  <2> HIDE DEF s, t, e
  <2>2. x - y = s - t
    BY <2>1
  <2> QED BY <1>2, <1>3, <2>2 DEF s, t
<1> DEFINE d == q - r
<1>5. NumberOf(X) - NumberOf(Y) = 2 ^ n * d /\ d \in Int
  BY <1>4 DEF x, y
<1> HIDE DEF d
<1>6. IsFiniteSet(X) /\ IsFiniteSet(Y)
       /\ NumberOf(X) - NumberOf(Y) = 2 ^ n * d => \A c \in 0 .. n - 1 : c \in X <=> c \in Y
  BY <1>5, NumberTells
<1> QED BY <1>5, <1>6 DEF SameBelow

-----------------------------------------------------------------------------
(***************************************************************************)
(* hashElement: what bin and value are made of.                            *)
(***************************************************************************)

HashOf(side) == [address |-> [i \in HE!HF |-> HE!Address(side, i)], val |-> HE!Val(side)]

HaTypes ==
  /\ HE!ValidSetup(hs)
  /\ eleptr \in [HE!Side -> SUBSET (0 .. hs.inbitlen - 1)]
  /\ behind \in [HE!Side -> SUBSET Nat]

HaInv ==
  /\ HaTypes
  /\ DOMAIN hashed = HE!Side
  /\ \A side \in HE!Side : hashed[side] = None \/ hashed[side] = HashOf(side)

\* What hashElement is called with satisfies the invariant.
LEMMA HaStart ==
  ASSUME NEW s, HE!ValidSetup(s), NEW e \in [HE!Side -> SUBSET (0 .. s.inbitlen - 1)],
         NEW r \in [HE!Side -> SUBSET Nat], HE!Start(s, e, r)
  PROVE  HaInv
BY DEF HaInv, HaTypes, HE!Start

\* And so does the initial state, whichever algorithm runs.
LEMMA HaInit == Init => HaInv
<1> SUFFICES ASSUME Init PROVE HaInv
  OBVIOUS
<1>1. CASE NoInput
  <2> DEFINE s == [setsize |-> 1, inbitlen |-> HE!WordBits]
             e == [side \in HE!Side |-> {}]
  <2>1. s.setsize = 1 /\ s.inbitlen = 32
    BY DEF HE!WordBits
  <2>2. HE!CeilDivide(6 * 1, 5) = 2
    BY DEF HE!CeilDivide
  <2>3. HE!Start(s, e, e)
    BY <1>1 DEF NoInput
  <2> HIDE DEF s
  <2>4. HE!ValidSetup(s)
    BY <2>1, <2>2 DEF HE!ValidSetup, HE!MaxBins, HE!ByteBits, HE!WordBits
  <2>5. e \in [HE!Side -> SUBSET (0 .. s.inbitlen - 1)] /\ e \in [HE!Side -> SUBSET Nat]
    OBVIOUS
  <2> HIDE DEF e
  <2> QED BY <2>3, <2>4, <2>5, HaStart
<1>2. CASE \E i \in Inputs : HE!Start(i.hs, i.eleptr, i.behind)
  BY <1>2, HashInputs, HaStart
<1> QED BY <1>1, <1>2 DEF Init

\* Each side hashes once, what it has been given.
LEMMA HaNext == HaInv /\ [Next]_vars => HaInv'
<1> SUFFICES ASSUME HaInv, [Next]_vars PROVE HaInv'
  OBVIOUS
<1>1. hs' = hs /\ eleptr' = eleptr /\ behind' = behind =>
        /\ HaTypes' /\ \A side : HashOf(side)' = HashOf(side)
  <2> SUFFICES ASSUME hs' = hs, eleptr' = eleptr, behind' = behind
               PROVE  HaTypes' /\ \A side : HashOf(side)' = HashOf(side)
    OBVIOUS
  <2>1. HaTypes'
    BY DEF HaInv, HaTypes
  <2>2. /\ HE!NumBins' = HE!NumBins /\ HE!AddrBitLen' = HE!AddrBitLen
        /\ HE!FloorAddrBitLen' = HE!FloorAddrBitLen
    BY DEF HE!NumBins, HE!AddrBitLen, HE!FloorAddrBitLen
  <2>3. /\ HE!OutBitLen' = HE!OutBitLen /\ HE!OutByteLen' = HE!OutByteLen
        /\ HE!MaskBits' = HE!MaskBits /\ HE!RestAt' = HE!RestAt
    BY <2>2 DEF HE!OutBitLen, HE!OutByteLen, HE!MaskBits, HE!InByteLen, HE!RestAt
  <2>4. ASSUME NEW side PROVE HashOf(side)' = HashOf(side)
    <3>1. HE!Memory(side)' = HE!Memory(side) /\ HE!Word(side)' = HE!Word(side)
      BY DEF HE!Memory, HE!Word
    <3>2. HE!L(side)' = HE!L(side) /\ HE!R(side)' = HE!R(side)
      BY <2>2, <2>3, <3>1 DEF HE!L, HE!R
    <3>3. HE!Val(side)' = HE!Val(side)
      BY <2>3, <3>1, <3>2 DEF HE!Val
    <3>4. \A i \in HE!HF : HE!Address(side, i)' = HE!Address(side, i)
      BY <2>2, <3>2 DEF HE!Address, HE!HfMaskAddr
    <3> QED BY <3>3, <3>4 DEF HashOf
  <2> QED BY <2>1, <2>4
<1>2. CASE Hash
  <2>1. PICK side \in HE!Side : HE!HashElement(side)
    BY <1>2 DEF Hash, HE!Step
  <2>2. /\ hashed' = [hashed EXCEPT ![side] = HashOf(side)]
        /\ hs' = hs /\ eleptr' = eleptr /\ behind' = behind
    BY <2>1 DEF HE!HashElement, HashOf
  <2>3. DOMAIN hashed = HE!Side /\ \A t \in HE!Side : hashed[t] = None \/ hashed[t] = HashOf(t)
    BY DEF HaInv
  <2>4. DOMAIN hashed' = HE!Side /\ \A t \in HE!Side : hashed'[t] = None \/ hashed'[t] = HashOf(t)
    BY <2>2, <2>3
  <2> QED BY <1>1, <2>2, <2>4 DEF HaInv
<1>3. CASE UNCHANGED hashVars
  <2>1. hs' = hs /\ eleptr' = eleptr /\ behind' = behind /\ hashed' = hashed
    BY <1>3 DEF hashVars
  <2> QED BY <1>1, <2>1 DEF HaInv
<1> QED BY <1>2, <1>3 DEF Next, Filter, Solve, Key, vars

\* hashElement: a side has hashed nothing yet, or what its element gives.
THEOREM HashInvariant == Spec => []HaInv
BY HaInit, HaNext, PTL DEF Spec

\* The whole bytes that the bits of the bin fill.
Full == (HE!AddrBitLen - 1) \div 8

\* The lengths, where nothing behind the element is read: the bits of the bin
\* and those that are left out of the word for it fill the same bytes.
LEMMA Lengths ==
  ASSUME HaTypes, ~HE!ReadsBehind
  PROVE  /\ hs.inbitlen \in Nat /\ hs.inbitlen % 8 = 0 /\ hs.inbitlen >= 32
         /\ HE!AddrBitLen \in 1 .. 30 /\ HE!OutBitLen = hs.inbitlen - HE!AddrBitLen + 1
         /\ HE!NumBins \in Nat \ {0} /\ HE!MaskBits = 32
         /\ Full \in Nat /\ 8 * Full < HE!AddrBitLen
         /\ HE!OutByteLen * 8 = hs.inbitlen - 8 * Full
         /\ hs.inbitlen > 32 => HE!RestAt * 8 = 32 - 8 * Full
         /\ hs.inbitlen > 32 => (HE!OutByteLen - HE!RestAt) * 8 = hs.inbitlen - 32
<1> DEFINE n == hs.inbitlen
           a == HE!AddrBitLen
           f == HE!FloorAddrBitLen
           N == HE!NumBins
<1>1. /\ hs.setsize \in Nat \ {0} /\ HE!CeilDivide(6 * hs.setsize, 5) <= 2 ^ 30
      /\ n \in Nat /\ n % 8 = 0
  BY DEF HaTypes, HE!ValidSetup, HE!MaxBins, HE!ByteBits
<1>2. n >= 32
  BY <1>1 DEF HE!ReadsBehind, HE!WordBits
<1>3. N \in 2 .. 2 ^ 30
  BY <1>1 DEF HE!NumBins, HE!CeilDivide
<1> DEFINE c == HE!CeilLog2(N)
           g == HE!FloorLog2(N)
<1>4. c \in 1 .. 30 /\ g \in 1 .. 30 /\ ((g = c /\ N = 2 ^ c) \/ (g = c - 1 /\ N # 2 ^ c))
  <2> HIDE DEF N
  <2> QED BY <1>3, Logarithms
<1>5. a = c /\ f = g
  <2> HIDE DEF c, g
  <2>1. a = HE!Shorter(c, n) /\ f = HE!Shorter(g, n)
    BY DEF HE!AddrBitLen, HE!FloorAddrBitLen, c, g
  <2> HIDE DEF a, f
  <2> QED BY <1>2, <1>4, <2>1 DEF HE!Shorter
<1> HIDE DEF c, g
<1>6. n > 32 => f \div 8 = (a - 1) \div 8
  <2> SUFFICES ASSUME n > 32 PROVE f \div 8 = (a - 1) \div 8
    OBVIOUS
  <2>1. N \notin {2 ^ 8, 2 ^ 16, 2 ^ 24}
    BY DEF HE!ReadsBehind, HE!WordBits
  <2>2. CASE g = c - 1
    BY <1>5, <2>2
  <2>3. CASE g = c /\ N = 2 ^ c
    <3> DEFINE p == 2 ^ 8
               q == 2 ^ 16
               r == 2 ^ 24
    <3>1. (c = 8 => 2 ^ c = p) /\ (c = 16 => 2 ^ c = q) /\ (c = 24 => 2 ^ c = r)
      BY Zenon
    <3>2. N # p /\ N # q /\ N # r
      BY <2>1
    <3> HIDE DEF p, q, r, N
    <3>3. c # 8 /\ c # 16 /\ c # 24
      BY <2>3, <3>1, <3>2
    <3>4. c \div 8 = (c - 1) \div 8
      BY <1>4, <3>3
    <3> QED BY <1>5, <2>3, <3>4
  <2> QED BY <1>4, <2>2, <2>3
<1>7. a \in 1 .. 30
  BY <1>4, <1>5
<1>8. HE!OutBitLen = n - a + 1
  BY DEF HE!OutBitLen
<1>9. Full = (a - 1) \div 8
  BY DEF Full
<1>10. HE!RestAt = 4 - (f \div 8)
  BY DEF HE!RestAt, HE!WordBytes, HE!ByteBits
<1>11. HE!OutByteLen = ((n - a) \div 8) + 1
  <2>1. HE!OutByteLen = HE!CeilDivide(n - a + 1, 8)
    BY <1>8 DEF HE!OutByteLen, HE!ByteBits
  <2> HIDE DEF n, a
  <2> QED BY <1>1, <1>2, <1>7, <2>1 DEF HE!CeilDivide
<1>12. HE!MaskBits = 32
  <2>1. HE!InByteLen = HE!CeilDivide(n, 8)
    BY DEF HE!InByteLen, HE!ByteBits
  <2>2. ~(HE!InByteLen < 4)
    <3> HIDE DEF n
    <3> QED BY <1>1, <1>2, <2>1 DEF HE!CeilDivide
  <2> QED BY <2>2 DEF HE!MaskBits, HE!WordBytes, HE!WordBits
<1>13. f \in 0 .. 30
  BY <1>4, <1>5
<1>14. N \in Nat \ {0}
  BY <1>3
<1> HIDE DEF n, a, f, N
<1>15. Full \in Nat /\ 8 * Full < a
  BY <1>7, <1>9
<1>16. HE!OutByteLen * 8 = n - 8 * Full
  BY <1>1, <1>7, <1>9, <1>11
<1>17. n > 32 => HE!RestAt * 8 = 32 - 8 * Full
  BY <1>6, <1>9, <1>10, <1>13
<1>18. n > 32 => (HE!OutByteLen - HE!RestAt) * 8 = n - 32
  <2> SUFFICES ASSUME n > 32 PROVE (HE!OutByteLen - HE!RestAt) * 8 = n - 32
    OBVIOUS
  <2>1. HE!OutByteLen \in Int /\ HE!RestAt \in Int
    BY <1>1, <1>7, <1>10, <1>11, <1>13
  <2> QED BY <1>1, <1>15, <1>16, <1>17, <2>1
<1> QED BY <1>1, <1>2, <1>7, <1>8, <1>12, <1>14, <1>15, <1>16, <1>17, <1>18 DEF n, a, N

\* The word, the bin's part of it and the rest of it.
LEMMA WordBits ==
  ASSUME HaTypes, ~HE!ReadsBehind, NEW side \in HE!Side
  PROVE  /\ \A bit : bit \in HE!Word(side) <=> bit \in eleptr[side] /\ bit < 32
         /\ \A bit : bit \in HE!L(side) <=> bit \in eleptr[side] /\ bit < HE!AddrBitLen
         /\ \A p : p \in HE!R(side) <=>
                     p \in Nat /\ p + HE!AddrBitLen \in eleptr[side] /\ p + HE!AddrBitLen < 32
<1> DEFINE n == hs.inbitlen
           a == HE!AddrBitLen
           e == eleptr[side]
           r == behind[side]
           W == HE!Word(side)
<1>1. n \in Nat /\ n >= 32 /\ a \in 1 .. 30 /\ HE!MaskBits = 32
  BY Lengths
<1>2. e \in SUBSET (0 .. n - 1) /\ r \in SUBSET Nat
  BY DEF HaTypes
<1>3. W = (e \cup {z + n : z \in r}) \cap (0 .. 32 - 1)
  BY DEF HE!Word, HE!Low, HE!Memory, HE!LeftShift, HE!WordBits
<1>4. HE!L(side) = W \cap (0 .. a - 1)
  BY DEF HE!L, HE!Low
<1>5. HE!R(side) = {z - a : z \in {c \in W : c >= a}} \cap (0 .. 32 - 1)
  BY <1>1 DEF HE!R, HE!Low, HE!RightShift
<1> HIDE DEF n, a, e, r, W
<1>6. ASSUME NEW x PROVE x \in W <=> x \in e /\ x < 32
  <2>1. ASSUME x \in W PROVE x \in e /\ x < 32
    <3>1. x \in 0 .. 31 /\ x \in e \cup {z + n : z \in r}
      BY <1>3, <2>1
    <3>2. ASSUME NEW z \in r, x = z + n PROVE FALSE
      <4>1. z \in Nat
        BY <1>2, <3>2
      <4> QED BY <1>1, <3>1, <3>2, <4>1
    <3> QED BY <3>1, <3>2
  <2>2. ASSUME x \in e, x < 32 PROVE x \in W
    <3>1. x \in 0 .. n - 1
      BY <1>2, <2>2
    <3>2. x \in 0 .. 32 - 1
      BY <1>1, <2>2, <3>1
    <3> QED BY <1>3, <2>2, <3>2
  <2> QED BY <2>1, <2>2
<1>7. W \in SUBSET (0 .. 31)
  BY <1>3
<1>8. ASSUME NEW x PROVE x \in HE!L(side) <=> x \in e /\ x < a
  <2>1. x \in HE!L(side) <=> x \in W /\ x \in 0 .. a - 1
    BY <1>4
  <2>2. x \in W => (x \in 0 .. a - 1 <=> x < a)
    BY <1>1, <1>7
  <2>3. x \in e /\ x < a => x < 32
    <3>1. x \in e => x \in 0 .. n - 1
      BY <1>2
    <3> QED BY <1>1, <3>1
  <2> QED BY <1>6, <2>1, <2>2, <2>3
<1>9. ASSUME NEW p PROVE p \in HE!R(side) <=> p \in Nat /\ p + a \in e /\ p + a < 32
  <2>1. ASSUME p \in HE!R(side) PROVE p \in Nat /\ p + a \in W
    <3>1. PICK c \in W : c >= a /\ p = c - a /\ p \in 0 .. 31
      BY <1>5, <2>1
    <3>2. p + a = c
      BY <1>1, <1>7, <3>1
    <3> QED BY <3>1, <3>2
  <2>2. ASSUME p \in Nat, p + a \in W PROVE p \in HE!R(side)
    <3>1. p + a >= a /\ (p + a) - a = p /\ p \in 0 .. 32 - 1
      BY <1>1, <1>7, <2>2
    <3> QED BY <1>5, <2>2, <3>1
  <2> QED BY <1>6, <2>1, <2>2
<1> QED BY <1>6, <1>8, <1>9 DEF a, e, W

\* The value: the word's rest; in longer elements the other bits follow it, as
\* far as the last byte is not cut.
InVal(p, e, n, a, full, cut) ==
  /\ p \in Nat
  /\ \/ p + a \in e /\ p + a < 32
     \/ n > 32 /\ p >= 32 - 8 * full /\ p + 8 * full \in e /\ p + 8 * full < n - cut

\* The bits of the value, place by place.
LEMMA ValBits ==
  ASSUME HaTypes, ~HE!ReadsBehind, NEW side \in HE!Side, NEW p
  PROVE  p \in HE!Val(side) <=>
           InVal(p, eleptr[side], hs.inbitlen, HE!AddrBitLen, Full, HE!OutBitLen % 4)
<1> DEFINE n == hs.inbitlen
           a == HE!AddrBitLen
           e == eleptr[side]
           r == behind[side]
           cut == HE!OutBitLen % 4
           M == HE!Memory(side)
           R == HE!R(side)
           full == Full
           Z == HE!OutByteLen * 8
<1>1. /\ n \in Nat /\ n % 8 = 0 /\ n >= 32 /\ a \in 1 .. 30 /\ HE!OutBitLen = n - a + 1
      /\ full \in Nat /\ 8 * full < a
      /\ Z = n - 8 * full
      /\ n > 32 => HE!RestAt * 8 = 32 - 8 * full
      /\ n > 32 => (HE!OutByteLen - HE!RestAt) * 8 = n - 32
  BY Lengths
<1>2. e \in SUBSET (0 .. n - 1) /\ r \in SUBSET Nat
  BY DEF HaTypes
<1>3. \A x : x \in R <=> x \in Nat /\ x + a \in e /\ x + a < 32
  BY WordBits
<1>4. M = e \cup {z + n : z \in r}
  BY DEF HE!Memory, HE!LeftShift
<1>5. cut \in 0 .. 3
  <2>1. n - a + 1 \in Nat
    BY <1>1
  <2> HIDE DEF n, a
  <2> QED BY <1>1, <2>1
<1>6. CASE n = 32
  <2>1. HE!Val(side) = R \cap (0 .. Z - 1)
    BY <1>6 DEF HE!Val, HE!Low, HE!WordBits, HE!ByteBits
  <2> HIDE DEF n, a, e, r, cut, M, R, full, Z
  <2>2. p \in HE!Val(side) <=> p \in Nat /\ p + a \in e /\ p + a < 32
    BY <1>1, <1>3, <1>6, <2>1
  <2>3. InVal(p, e, n, a, full, cut) <=> p \in Nat /\ p + a \in e /\ p + a < 32
    BY <1>6 DEF InVal
  <2> QED BY <2>2, <2>3 DEF n, a, e, cut, full
<1>7. CASE n > 32
  <2> DEFINE q == HE!RestAt * 8
             t == (HE!OutByteLen - HE!RestAt) * 8
             rest == {z - 32 : z \in {c \in M : c >= 32}} \cap (0 .. t - 1)
             moved == {z + q : z \in rest}
  <2>1. HE!Val(side) = ((R \cap (0 .. q - 1)) \cup moved) \cap (0 .. (Z - cut) - 1)
    BY <1>1, <1>7 DEF HE!Val, HE!Low, HE!RightShift, HE!LeftShift, HE!WordBits, HE!ByteBits
  <2> HIDE DEF n, a, e, r, cut, M, R, full, Z, q, t
  <2>2. q = 32 - 8 * full /\ t = n - 32 /\ Z = n - 8 * full
    BY <1>1, <1>7 DEF q, t
  <2>3. n >= 40
    BY <1>1, <1>7
  <2>4. \A x : x \in rest <=> x \in Nat /\ x + 32 \in e
    <3>1. ASSUME NEW x, x \in rest PROVE x \in Nat /\ x + 32 \in e
      <4>1. PICK c \in M : c >= 32 /\ x = c - 32 /\ x \in 0 .. t - 1
        BY <3>1
      <4>2. c \in e
        BY <1>1, <1>2, <1>4, <2>2, <4>1
      <4> QED BY <1>1, <1>2, <4>1, <4>2
    <3>2. ASSUME NEW x \in Nat, x + 32 \in e PROVE x \in rest
      <4>1. x + 32 \in M /\ x + 32 >= 32 /\ (x + 32) - 32 = x /\ x \in 0 .. t - 1
        BY <1>1, <1>2, <1>4, <2>2, <3>2
      <4> QED BY <4>1
    <3> QED BY <3>1, <3>2
  <2> HIDE DEF rest
  <2>5. p \in moved <=> p \in Nat /\ p >= q /\ p + 8 * full \in e
    <3>1. ASSUME p \in moved PROVE p \in Nat /\ p >= q /\ p + 8 * full \in e
      <4>1. PICK x \in rest : p = x + q
        BY <3>1
      <4>2. x \in Nat /\ x + 32 \in e
        BY <2>4, <4>1
      <4>3. p + 8 * full = x + 32 /\ p \in Nat /\ p >= q
        BY <1>1, <2>2, <4>1, <4>2
      <4> QED BY <4>2, <4>3
    <3>2. ASSUME p \in Nat, p >= q, p + 8 * full \in e PROVE p \in moved
      <4>1. p - q \in Nat /\ (p - q) + 32 = p + 8 * full /\ p = (p - q) + q
        BY <1>1, <2>2, <3>2
      <4>2. p - q \in rest
        BY <2>4, <3>2, <4>1
      <4> QED BY <4>1, <4>2
    <3> QED BY <3>1, <3>2
  <2> HIDE DEF moved
  <2>6. p \in HE!Val(side) <=>
          p \in Nat /\ p < Z - cut /\ (p \in moved \/ (p \in R /\ p < q))
    BY <1>1, <1>3, <1>5, <2>1, <2>2, <2>5
  <2>7. p \in Nat /\ p + a \in e /\ p + a < 32 => p < q /\ p < Z - cut
    BY <1>1, <1>5, <2>2, <2>3
  <2>8. p \in Nat => (p < Z - cut <=> p + 8 * full < n - cut)
    BY <1>1, <1>5, <2>2
  <2>9. p \in HE!Val(side) <=> InVal(p, e, n, a, full, cut)
    BY <1>3, <1>7, <2>2, <2>5, <2>6, <2>7, <2>8 DEF InVal
  <2> QED BY <2>9 DEF n, a, e, cut, full
<1> HIDE DEF n
<1> QED BY <1>1, <1>6, <1>7

\* The leader and a follower put the same element in the same bins under the
\* same value, whatever lies behind it in the memory of each.
THEOREM HashesAlike == Spec => []SameWhereverItLies
<1>1. HaInv => SameWhereverItLies
  <2> SUFFICES ASSUME HaInv, HE!Done, eleptr["leader"] = eleptr["follower"], ~HE!ReadsBehind
               PROVE  hashed["leader"] = hashed["follower"]
    BY DEF SameWhereverItLies
  <2>1. "leader" \in HE!Side /\ "follower" \in HE!Side
    BY DEF HE!Side
  <2>2. /\ HaTypes
        /\ hashed["leader"] = HashOf("leader") /\ hashed["follower"] = HashOf("follower")
    BY <2>1 DEF HaInv, HE!Done
  <2>3. HE!L("leader") = HE!L("follower")
    <3>1. \A x : x \in HE!L("leader") <=> x \in HE!L("follower")
      BY <2>1, <2>2, WordBits
    <3>2. HE!L("leader") \subseteq HE!L("follower") /\ HE!L("follower") \subseteq HE!L("leader")
      BY <3>1
    <3> QED BY <3>2
  <2>4. HE!R("leader") = HE!R("follower")
    <3>1. \A x : x \in HE!R("leader") <=> x \in HE!R("follower")
      BY <2>1, <2>2, WordBits
    <3>2. HE!R("leader") \subseteq HE!R("follower") /\ HE!R("follower") \subseteq HE!R("leader")
      BY <3>1
    <3> QED BY <3>2
  <2>5. HE!Val("leader") = HE!Val("follower")
    <3>1. \A x : x \in HE!Val("leader") <=> x \in HE!Val("follower")
      BY <2>1, <2>2, ValBits
    <3>2. HE!Val("leader") \subseteq HE!Val("follower") /\ HE!Val("follower") \subseteq HE!Val("leader")
      BY <3>1
    <3> QED BY <3>2
  <2>6. \A i \in HE!HF : HE!Address("leader", i) = HE!Address("follower", i)
    BY <2>3, <2>4 DEF HE!Address, HE!HfMaskAddr
  <2> QED BY <2>2, <2>5, <2>6 DEF HashOf
<1> QED BY <1>1, HashInvariant, PTL

\* Sharing bin and value under one hash function, two elements differ at most
\* in the bits the code drops: the value tells those above the bin's and below
\* the cut, and so, from the hash of the value, the bin tells its own if there
\* is a power of two of bins.
THEOREM HashesApart == Spec => []ApartUnlessForgotten
<1>1. HaInv => ApartUnlessForgotten
  <2> SUFFICES ASSUME HaInv, HE!Done, ~HE!ReadsBehind, NEW i \in HE!HF, HE!SameIn(i),
                      NEW c, ~(c \in eleptr["leader"] <=> c \in eleptr["follower"])
               PROVE  c \in HE!Forgotten
    BY DEF ApartUnlessForgotten
  <2> DEFINE n == hs.inbitlen
             a == HE!AddrBitLen
             full == Full
             cut == HE!OutBitLen % 4
             d == eleptr["leader"]
             e == eleptr["follower"]
  <2>1. "leader" \in HE!Side /\ "follower" \in HE!Side
    BY DEF HE!Side
  <2>2. /\ HaTypes
        /\ hashed["leader"] = HashOf("leader") /\ hashed["follower"] = HashOf("follower")
    BY <2>1 DEF HaInv, HE!Done
  <2>3. /\ HE!Address("leader", i) = HE!Address("follower", i)
        /\ HE!Val("leader") = HE!Val("follower")
    BY <2>2 DEF HE!SameIn, HashOf
  <2>4. /\ n \in Nat /\ n % 8 = 0 /\ n >= 32 /\ a \in 1 .. 30 /\ HE!OutBitLen = n - a + 1
        /\ full \in Nat /\ 8 * full < a
    BY <2>2, Lengths
  <2>5. d \in SUBSET (0 .. n - 1) /\ e \in SUBSET (0 .. n - 1)
    BY <2>1, <2>2 DEF HaTypes
  <2>6. cut \in 0 .. 3
    <3>1. n - a + 1 \in Nat
      BY <2>4
    <3> HIDE DEF n, a
    <3> QED BY <2>4, <3>1
  <2>7. \A p : InVal(p, d, n, a, full, cut) <=> InVal(p, e, n, a, full, cut)
    BY <2>1, <2>2, <2>3, ValBits
  <2>8. c \in 0 .. n - 1
    BY <2>5
  <2> HIDE DEF n, a, full, cut, d, e
  <2>9. ASSUME NEW x \in 0 .. n - 1, x >= a, x < 32 PROVE x \in d <=> x \in e
    <3> DEFINE p == x - a
    <3>1. p \in Nat /\ p + a = x /\ ~(n > 32 /\ p >= 32 - 8 * full)
      BY <2>4, <2>9
    <3> HIDE DEF p
    <3>2. \A s : InVal(p, s, n, a, full, cut) <=> x \in s
      BY <2>9, <3>1 DEF InVal
    <3> QED BY <2>7, <3>2
  <2>10. ASSUME NEW x \in 0 .. n - 1, x >= 32, x < n - cut PROVE x \in d <=> x \in e
    <3> DEFINE p == x - 8 * full
    <3>1. p \in Nat /\ p + 8 * full = x /\ p >= 32 - 8 * full /\ n > 32 /\ ~(p + a < 32)
      BY <2>4, <2>10
    <3> HIDE DEF p
    <3>2. \A s : InVal(p, s, n, a, full, cut) <=> x \in s
      BY <2>10, <3>1 DEF InVal
    <3> QED BY <2>7, <3>2
  <2>11. CASE c >= 32
    <3>1. c >= n - cut /\ n > 32
      <4>1. n > 32
        BY <2>4, <2>8, <2>11
      <4>2. ~(c < n - cut)
        BY <2>8, <2>10, <2>11 DEF d, e
      <4> QED BY <2>4, <2>6, <2>8, <4>1, <4>2
    <3>2. c \in n - cut .. n - 1
      BY <2>4, <2>6, <2>8, <3>1
    <3> QED BY <3>1, <3>2 DEF HE!Forgotten, HE!WordBits, n, cut
  <2>12. CASE c < 32
    <3>1. c < a
      BY <2>4, <2>8, <2>9, <2>12 DEF d, e
    <3>2. c \in 0 .. a - 1
      BY <2>4, <2>8, <3>1
    <3>3. HE!NumBins # 2 ^ a
      <4>1. SUFFICES ASSUME HE!NumBins = 2 ^ a PROVE FALSE
        OBVIOUS
      <4> DEFINE l == HE!L("leader")
                 m == HE!L("follower")
                 h == HfValue(i, HE!HfMaskAddr("leader"))
                 X == HE!SymDiff(l, h)
                 Y == HE!SymDiff(m, h)
      <4>2. /\ \A x : x \in l <=> x \in d /\ x < a
            /\ \A x : x \in m <=> x \in e /\ x < a
        BY <2>1, <2>2, WordBits DEF a, d, e
      <4>3. HE!R("leader") = HE!R("follower")
        <5>1. ASSUME NEW p PROVE p \in HE!R("leader") <=> p \in HE!R("follower")
          <6>1. /\ p \in HE!R("leader") <=> p \in Nat /\ p + a \in d /\ p + a < 32
                /\ p \in HE!R("follower") <=> p \in Nat /\ p + a \in e /\ p + a < 32
            BY <2>1, <2>2, WordBits DEF a, d, e
          <6>2. p \in Nat /\ p + a < 32 => p + a \in 0 .. n - 1 /\ p + a >= a
            BY <2>4
          <6> QED BY <2>9, <6>1, <6>2
        <5>2. HE!R("leader") \subseteq HE!R("follower") /\ HE!R("follower") \subseteq HE!R("leader")
          BY <5>1
        <5> QED BY <5>2
      <4>4. HE!HfMaskAddr("leader") = HE!HfMaskAddr("follower")
        BY <4>3 DEF HE!HfMaskAddr
      <4>5. h \in SUBSET (0 .. 31)
        <5>1. HE!HfMaskAddr("leader") \in SUBSET (0 .. 2 * HE!ByteBits - 1)
          BY DEF HE!HfMaskAddr, HE!Low
        <5> QED BY <5>1, HashWords DEF HE!WordBits
      <4>6. /\ HE!Address("leader", i) = HE!Number(X) % HE!NumBins
            /\ HE!Address("follower", i) = HE!Number(Y) % HE!NumBins
        BY <4>4 DEF HE!Address
      <4> HIDE DEF l, m, h
      <4>7. /\ X \in SUBSET (0 .. 31) /\ Y \in SUBSET (0 .. 31)
            /\ \A x : x \in X <=> ~(x \in l <=> x \in h)
            /\ \A x : x \in Y <=> ~(x \in m <=> x \in h)
        <5>1. ASSUME NEW x, x \in d \/ x \in e, x < a PROVE x \in 0 .. 31
          <6>1. x \in 0 .. n - 1
            BY <2>5, <5>1
          <6> QED BY <2>4, <5>1, <6>1
        <5>2. l \in SUBSET (0 .. 31) /\ m \in SUBSET (0 .. 31)
          BY <4>2, <5>1
        <5> QED BY <4>5, <5>2 DEF HE!SymDiff
      <4> HIDE DEF X, Y
      <4>8. X \in SUBSET Nat /\ Y \in SUBSET Nat /\ IsFiniteSet(X) /\ IsFiniteSet(Y)
        <5>1. 0 \in Int /\ 31 \in Int
          OBVIOUS
        <5>2. IsFiniteSet(0 .. 31)
          BY <5>1, FS_Interval
        <5>3. IsFiniteSet(X) /\ IsFiniteSet(Y)
          BY <4>7, <5>2, FS_Subset
        <5> QED BY <4>7, <5>3
      <4>9. SameBelow(X, Y, a)
        <5>1. SameRemainder(X, Y, HE!NumBins)
          BY <2>3, <4>6 DEF SameRemainder
        <5>2. a \in Nat
          BY <2>4
        <5> QED BY <4>1, <4>8, <5>1, <5>2, RemainderTells
      <4>10. c \in X <=> c \in Y
        BY <3>2, <4>9 DEF SameBelow
      <4> QED BY <3>1, <4>2, <4>7, <4>10 DEF d, e
    <3> QED BY <3>2, <3>3 DEF HE!Forgotten, a
  <2> QED BY <2>4, <2>8, <2>11, <2>12
<1> QED BY <1>1, HashInvariant, PTL

=============================================================================
