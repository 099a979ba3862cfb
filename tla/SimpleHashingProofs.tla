------------------------- MODULE SimpleHashingProofs -------------------------
(***************************************************************************)
(* Proofs about SimpleHashing for every number of elements, bins and       *)
(* threads and every address function.                                     *)
(*                                                                         *)
(* A list is sorted when each entry comes Before the ones behind it.  The  *)
(* bins of a thread's table are sorted lists of what the thread has        *)
(* inserted; joined task after task and bin after bin they are the sorted  *)
(* list of all entries, whichever thread was faster.  What is made of the  *)
(* table later, the slots or the polynomials, follows from that.           *)
(***************************************************************************)
EXTENDS SimpleHashing, FiniteSetTheorems, SequenceTheorems, WellFoundedInduction, TLAPS

AllEntries == {Entry(p[1], p[2], IsDummy(p[1], p[2])) : p \in Pair}

\* s is the list of the entries X, in order.
Listed(s, X) ==
  /\ s \in Seq(X)
  /\ \A x \in X : \E i \in 1 .. Len(s) : s[i] = x
  /\ \A i, j \in 1 .. Len(s) : i < j => Before(s[i], s[j])

-----------------------------------------------------------------------------
(***************************************************************************)
(* Sizes and parts.                                                        *)
(***************************************************************************)
LEMMA CeilDivideIs ==
  ASSUME NEW x \in Nat \ {0}, NEW y \in Nat \ {0}
  PROVE  /\ CeilDivide(x, y) \in Nat \ {0}
         /\ x <= y * CeilDivide(x, y)
<1>1. x - 1 \in Nat
  OBVIOUS
<1> DEFINE q == (x - 1) \div y
<1>2. q \in Nat /\ x - 1 < y * q + y
  BY <1>1
<1>3. CeilDivide(x, y) = q + 1
  BY DEF CeilDivide
<1> HIDE DEF q
<1>4. y * (q + 1) = y * q + y
  BY <1>2
<1> QED BY <1>2, <1>3, <1>4

LEMMA CeilLog2Is == ASSUME NEW n \in Nat PROVE CeilLog2(n) \in Nat
<1> DEFINE S == {i \in 0 .. n : 2 ^ i < n}
<1>1. IsFiniteSet(0 .. n)
  BY FS_Interval
<1>2. IsFiniteSet(S)
  BY <1>1, FS_Subset
<1>3. Cardinality(S) \in Nat
  BY <1>2, FS_CardinalityType
<1> QED BY <1>3 DEF CeilLog2

LEMMA Sizes ==
  /\ PerTask \in Nat \ {0} /\ NumEles <= NumTasks * PerTask
  /\ InitialRoom \in Nat \ {0} /\ MaxBinSize \in Nat \ {0}
  /\ {NumEles, NumBins, NumTasks} \subseteq Nat \ {0}
<1>1. {NumEles, NumBins, NumTasks} \subseteq Nat \ {0}
  BY HashingSizes
<1>2. PerTask \in Nat \ {0} /\ NumEles <= NumTasks * PerTask
  BY <1>1, CeilDivideIs DEF PerTask
<1>3. CeilDivide(PerTask, NumBins) \in Nat \ {0} /\ CeilDivide(NumEles, NumBins) \in Nat \ {0}
  BY <1>1, <1>2, CeilDivideIs
<1>4. CeilLog2(PerTask) \in Nat /\ CeilLog2(NumEles) \in Nat
  BY <1>1, <1>2, CeilLog2Is
<1> HIDE DEF CeilDivide, CeilLog2, PerTask
<1>5. InitialRoom \in Nat \ {0}
  BY <1>3, <1>4 DEF InitialRoom, Maximum
<1>6. MaxBinSize \in Nat \ {0}
  BY <1>3, <1>4 DEF MaxBinSize, Maximum
<1> QED BY <1>1, <1>2, <1>5, <1>6

\* Every element is in the part of just one thread, and the parts ascend.
LEMMA PartsAre ==
  ASSUME NEW t \in Task
  PROVE  /\ StartPos(t) \in Nat /\ EndPos(t) \in Nat
         /\ EndPos(t) <= NumEles /\ EndPos(t) <= StartPos(t) + PerTask
         /\ \A u \in Task : t < u => StartPos(t) + PerTask <= StartPos(u)
<1>1. t \in Nat /\ PerTask \in Nat \ {0} /\ NumEles \in Nat
  BY Sizes DEF Task
<1>2. StartPos(t) = t * PerTask /\ t * PerTask \in Nat
  BY <1>1 DEF StartPos
<1>3. EndPos(t) \in Nat /\ EndPos(t) <= NumEles /\ EndPos(t) <= StartPos(t) + PerTask
  BY <1>1, <1>2 DEF EndPos, Minimum
<1>4. ASSUME NEW u \in Task, t < u PROVE StartPos(t) + PerTask <= StartPos(u)
  <2>1. u \in Nat /\ StartPos(u) = u * PerTask
    BY <1>4 DEF Task, StartPos
  <2>2. (t + 1) * PerTask <= u * PerTask /\ (t + 1) * PerTask = t * PerTask + PerTask
    BY <1>1, <1>4, <2>1
  <2> QED BY <1>1, <1>2, <2>1, <2>2
<1> QED BY <1>2, <1>3, <1>4

LEMMA EveryElement ==
  ASSUME NEW e \in Ele
  PROVE  \E t \in Task : StartPos(t) <= e /\ e < EndPos(t)
<1>1. /\ PerTask \in Nat \ {0} /\ NumEles <= NumTasks * PerTask
      /\ NumEles \in Nat /\ NumTasks \in Nat /\ e \in Nat /\ e < NumEles
  BY Sizes DEF Ele
<1> DEFINE t == e \div PerTask
<1>2. t \in Nat /\ PerTask * t <= e /\ e < PerTask * t + PerTask
  BY <1>1
<1> HIDE DEF t
<1>3. t < NumTasks
  <2>1. SUFFICES ASSUME NumTasks <= t PROVE FALSE
    BY <1>1, <1>2
  <2>2. PerTask * NumTasks <= PerTask * t
    BY <1>1, <1>2, <2>1
  <2> QED BY <1>1, <1>2, <2>2
<1>4. t \in Task
  BY <1>1, <1>2, <1>3 DEF Task
<1>5. StartPos(t) = PerTask * t
  BY <1>1, <1>2 DEF StartPos
<1> QED BY <1>1, <1>2, <1>4, <1>5 DEF EndPos, Minimum

LEMMA LowestOf ==
  ASSUME NEW S, S \subseteq Nat, S # {}
  PROVE  \E n \in S : \A m \in S : n <= m
<1>1. IsWellFoundedOn(OpToRel(<, Nat), Nat)
  BY NatLessThanWellFounded
<1>2. PICK n \in S : \A m \in S : <<m, n>> \notin OpToRel(<, Nat)
  BY <1>1, WFMin
<1>3. ASSUME NEW m \in S PROVE n <= m
  <2>1. m \in Nat /\ n \in Nat
    OBVIOUS
  <2>2. <<m, n>> \notin {ss \in Nat \X Nat : ss[1] < ss[2]}
    BY <1>2 DEF OpToRel
  <2>3. ~(m < n)
    BY <2>1, <2>2
  <2> QED BY <2>1, <2>3
<1> QED BY <1>3

-----------------------------------------------------------------------------
(***************************************************************************)
(* Sorted lists.                                                           *)
(***************************************************************************)

\* What an entry is, for a fixed address function.
Entries == [ele : Ele, hf : HF, dummy : BOOLEAN]

LEMMA BeforeIs ==
  ASSUME address \in Addresses, NEW x \in Entries, NEW y \in Entries
  PROVE  /\ address[x.ele][x.hf] \in Bin /\ address[y.ele][y.hf] \in Bin
         /\ Before(x, y) => ~Before(y, x)
         /\ ~Before(x, x)
<1>1. address \in [Ele -> [HF -> Bin]]
  BY HashingSizes
<1>2. /\ x.ele \in Ele /\ x.hf \in HF /\ y.ele \in Ele /\ y.hf \in HF
  BY DEF Entries
<1>3. address[x.ele][x.hf] \in Bin /\ address[y.ele][y.hf] \in Bin
  BY <1>1, <1>2
<1>4. /\ address[x.ele][x.hf] \in Int /\ address[y.ele][y.hf] \in Int
      /\ x.ele \in Int /\ y.ele \in Int /\ x.hf \in Int /\ y.hf \in Int
  BY <1>2, <1>3 DEF Bin, Ele, HF
<1> QED BY <1>3, <1>4 DEF Before

LEMMA ListedIs ==
  ASSUME NEW X, NEW s, Listed(s, X)
  PROVE  /\ Len(s) \in Nat /\ DOMAIN s = 1 .. Len(s) /\ s \in Seq(X)
         /\ \A i \in 1 .. Len(s) : s[i] \in X
         /\ \A x \in X : \E i \in 1 .. Len(s) : s[i] = x
         /\ \A i, j \in 1 .. Len(s) : i < j => Before(s[i], s[j])
BY LenProperties DEF Listed

LEMMA ListedEmpty == Listed(<<>>, {})
<1>1. <<>> \in Seq({}) /\ Len(<<>>) = 0
  OBVIOUS
<1> QED BY <1>1 DEF Listed

LEMMA ListedConcat ==
  ASSUME NEW X, NEW Y, NEW s, NEW z, Listed(s, X), Listed(z, Y),
         \A x \in X, y \in Y : Before(x, y)
  PROVE  /\ Listed(s \o z, X \cup Y)
         /\ Len(s \o z) = Len(s) + Len(z)
         /\ \A i \in 1 .. Len(s) : (s \o z)[i] = s[i]
         /\ \A i \in 1 .. Len(z) : (s \o z)[Len(s) + i] = z[i]
<1> DEFINE w == s \o z
           S == X \cup Y
<1>1. /\ Len(s) \in Nat /\ s \in Seq(X) /\ Len(z) \in Nat /\ z \in Seq(Y)
      /\ \A i \in 1 .. Len(s) : s[i] \in X
      /\ \A i \in 1 .. Len(z) : z[i] \in Y
      /\ \A x \in X : \E i \in 1 .. Len(s) : s[i] = x
      /\ \A y \in Y : \E i \in 1 .. Len(z) : z[i] = y
      /\ \A i, j \in 1 .. Len(s) : i < j => Before(s[i], s[j])
      /\ \A i, j \in 1 .. Len(z) : i < j => Before(z[i], z[j])
  BY ListedIs
<1>2. s \in Seq(S) /\ z \in Seq(S)
  BY <1>1, SeqMonotonic
<1>3. /\ w \in Seq(S) /\ Len(w) = Len(s) + Len(z)
      /\ \A i \in 1 .. Len(s) + Len(z) : w[i] = IF i <= Len(s) THEN s[i] ELSE z[i - Len(s)]
  BY <1>2, ConcatProperties
<1> HIDE DEF w
<1>4. /\ \A i \in 1 .. Len(s) : i \in 1 .. Len(w) /\ w[i] = s[i]
      /\ \A i \in 1 .. Len(z) : Len(s) + i \in 1 .. Len(w) /\ w[Len(s) + i] = z[i]
  <2>1. ASSUME NEW i \in 1 .. Len(s) PROVE i \in 1 .. Len(w) /\ w[i] = s[i]
    <3>1. i \in 1 .. Len(s) + Len(z) /\ i <= Len(s)
      BY <1>1
    <3> QED BY <1>3, <3>1
  <2>2. ASSUME NEW i \in 1 .. Len(z)
        PROVE  Len(s) + i \in 1 .. Len(w) /\ w[Len(s) + i] = z[i]
    <3> DEFINE m == Len(s) + i
    <3>1. m \in 1 .. Len(s) + Len(z) /\ ~(m <= Len(s)) /\ m - Len(s) = i
      BY <1>1
    <3> HIDE DEF m
    <3>2. m \in 1 .. Len(w) /\ w[m] = z[i]
      BY <1>3, <3>1
    <3> QED BY <3>2 DEF m
  <2> QED BY <2>1, <2>2
<1>5. ASSUME NEW x \in S PROVE \E i \in 1 .. Len(w) : w[i] = x
  <2>1. CASE x \in X
    <3>1. PICK i \in 1 .. Len(s) : s[i] = x
      BY <1>1, <2>1
    <3> QED BY <1>4, <3>1
  <2>2. CASE x \in Y
    <3>1. PICK i \in 1 .. Len(z) : z[i] = x
      BY <1>1, <2>2
    <3>2. Len(s) + i \in 1 .. Len(w) /\ w[Len(s) + i] = x
      BY <1>4, <3>1
    <3> QED BY <3>2
  <2> QED BY <2>1, <2>2
<1>6. ASSUME NEW i \in 1 .. Len(w), NEW j \in 1 .. Len(w), i < j
      PROVE  Before(w[i], w[j])
  <2>1. CASE j <= Len(s)
    <3>1. i \in 1 .. Len(s) /\ j \in 1 .. Len(s)
      BY <1>1, <1>3, <1>6, <2>1
    <3> QED BY <1>1, <1>4, <1>6, <3>1
  <2>2. CASE i <= Len(s) /\ ~(j <= Len(s))
    <3>1. i \in 1 .. Len(s) /\ j - Len(s) \in 1 .. Len(z)
      BY <1>1, <1>3, <1>6, <2>2
    <3>2. w[i] = s[i] /\ w[j] = z[j - Len(s)]
      BY <1>1, <1>3, <1>6, <2>2
    <3> QED BY <1>1, <3>1, <3>2
  <2>3. CASE ~(i <= Len(s))
    <3>1. i - Len(s) \in 1 .. Len(z) /\ j - Len(s) \in 1 .. Len(z) /\ i - Len(s) < j - Len(s)
      BY <1>1, <1>3, <1>6, <2>3
    <3>2. i \in 1 .. Len(s) + Len(z) /\ j \in 1 .. Len(s) + Len(z) /\ ~(j <= Len(s))
      BY <1>1, <1>3, <1>6, <2>3
    <3>3. w[i] = z[i - Len(s)] /\ w[j] = z[j - Len(s)]
      BY <1>3, <2>3, <3>2
    <3> QED BY <1>1, <3>1, <3>3
  <2> QED BY <1>1, <1>3, <1>6, <2>1, <2>2, <2>3
<1>7. Listed(w, S)
  BY <1>3, <1>5, <1>6 DEF Listed
<1> QED BY <1>3, <1>4, <1>7 DEF w

LEMMA ListedOne == ASSUME NEW y PROVE Listed(<<y>>, {y})
<1>1. <<y>> \in Seq({y}) /\ Len(<<y>>) = 1 /\ <<y>>[1] = y
  OBVIOUS
<1> HIDE DEF Before
<1> QED BY <1>1 DEF Listed

LEMMA ListedAppend ==
  ASSUME NEW X, NEW s, Listed(s, X), NEW y, \A x \in X : Before(x, y)
  PROVE  /\ Listed(Append(s, y), X \cup {y})
         /\ Len(Append(s, y)) = Len(s) + 1
<1>1. Listed(<<y>>, {y}) /\ Len(<<y>>) = 1
  BY ListedOne
<1>2. Listed(s \o <<y>>, X \cup {y}) /\ Len(s \o <<y>>) = Len(s) + 1
  BY <1>1, ListedConcat
<1>3. s \in Seq(X \cup {y})
  BY ListedIs, SeqMonotonic
<1>4. Append(s, y) = s \o <<y>>
  BY <1>3, AppendIsConcat
<1> QED BY <1>2, <1>4

\* A list has no entry twice, and is as long as what it lists.
LEMMA ListedOnce ==
  ASSUME address \in Addresses, NEW X, X \subseteq Entries, NEW s, Listed(s, X)
  PROVE  \A i, j \in 1 .. Len(s) : s[i] = s[j] => i = j
<1> SUFFICES ASSUME NEW i \in 1 .. Len(s), NEW j \in 1 .. Len(s), s[i] = s[j]
             PROVE  i = j
  OBVIOUS
<1>1. s[i] \in Entries /\ ~Before(s[i], s[i])
  BY ListedIs, BeforeIs
<1>2. (i < j => Before(s[i], s[j])) /\ (j < i => Before(s[j], s[i]))
  BY ListedIs
<1> QED BY <1>1, <1>2

LEMMA ListedLength ==
  ASSUME address \in Addresses, NEW X, X \subseteq Entries, NEW s, Listed(s, X)
  PROVE  IsFiniteSet(X) /\ Cardinality(X) = Len(s)
<1> DEFINE D == 1 .. Len(s)
           f == [i \in D |-> s[i]]
<1>1. /\ Len(s) \in Nat
      /\ \A i \in D : s[i] \in X
      /\ \A x \in X : \E i \in D : s[i] = x
  BY ListedIs
<1>2. \A i, j \in D : s[i] = s[j] => i = j
  BY ListedOnce
<1>3. f \in Bijection(D, X)
  <2>1. f \in [D -> X] /\ \A i \in D : f[i] = s[i]
    BY <1>1
  <2> HIDE DEF f, D
  <2>2. f \in Injection(D, X)
    BY <1>2, <2>1 DEF Injection, IsInjective
  <2>3. f \in Surjection(D, X)
    BY <1>1, <2>1 DEF Surjection
  <2> QED BY <2>2, <2>3 DEF Bijection
<1>4. ExistsBijection(D, X)
  BY <1>3 DEF ExistsBijection
<1>5. IsFiniteSet(D) /\ Cardinality(D) = Len(s)
  BY <1>1, FS_Interval
<1> HIDE DEF D
<1> QED BY <1>4, <1>5, FS_Bijection

-----------------------------------------------------------------------------
(***************************************************************************)
(* The recursive functions of the model.  Where a recursion defines a      *)
(* function, one exists: there is no least number of steps without one.    *)
(***************************************************************************)

\* The recursion of Progress, up to bin n, for the numbers of entries nb.
Sums(nb, n, f) == f = [c \in 0 .. n |-> IF c = 0 THEN 0 ELSE f[c - 1] + nb[c - 1]]

SumTo(nb, b) == (CHOOSE f : Sums(nb, NumBins, f))[b]

LEMMA ProgressIsSum == \A b : Progress(b) = SumTo(nelesinbin, b)
BY DEF Progress, SumTo, Sums

LEMMA SumsExist == ASSUME NEW nb, NEW n \in Nat PROVE \E f : Sums(nb, n, f)
<1> DEFINE S == {m \in Nat : ~ \E f : Sums(nb, m, f)}
<1>1. SUFFICES ASSUME S # {} PROVE FALSE
  OBVIOUS
<1>2. PICK m \in S : \A l \in S : m <= l
  <2>1. S \subseteq Nat
    OBVIOUS
  <2> HIDE DEF S
  <2> QED BY <1>1, <2>1, LowestOf
<1>3. CASE m = 0
  <2> DEFINE f == [c \in 0 .. 0 |-> 0]
  <2>1. Sums(nb, 0, f)
    BY DEF Sums
  <2> QED BY <1>3, <2>1
<1>4. CASE m # 0
  <2>1. m - 1 \in Nat /\ m - 1 \notin S /\ m \in Nat
    BY <1>2, <1>4
  <2>2. PICK f : Sums(nb, m - 1, f)
    BY <2>1
  <2> DEFINE g == [c \in 0 .. m |-> IF c = m THEN f[m - 1] + nb[m - 1] ELSE f[c]]
  <2>3. ASSUME NEW c \in 0 .. m PROVE g[c] = IF c = 0 THEN 0 ELSE g[c - 1] + nb[c - 1]
    <3>1. CASE c = m
      BY <2>1, <1>4, <3>1
    <3>2. CASE c # m
      <4>1. c \in 0 .. m - 1
        BY <2>1, <3>2
      <4>2. f[c] = IF c = 0 THEN 0 ELSE f[c - 1] + nb[c - 1]
        BY <2>2, <4>1 DEF Sums
      <4>3. g[c] = f[c] /\ (c # 0 => g[c - 1] = f[c - 1])
        BY <2>1, <4>1
      <4> QED BY <4>2, <4>3
    <3> QED BY <3>1, <3>2
  <2>4. g = [c \in 0 .. m |-> IF c = 0 THEN 0 ELSE g[c - 1] + nb[c - 1]]
    <3>1. g = [c \in 0 .. m |-> g[c]]
      OBVIOUS
    <3> HIDE DEF g
    <3> QED BY <2>3, <3>1
  <2>5. Sums(nb, m, g)
    BY <2>4 DEF Sums
  <2> QED BY <2>5
<1> QED BY <1>3, <1>4

LEMMA SumToIs ==
  ASSUME NEW nb
  PROVE  /\ SumTo(nb, 0) = 0
         /\ \A b \in Bin : SumTo(nb, b + 1) = SumTo(nb, b) + nb[b]
<1> DEFINE f == CHOOSE g : Sums(nb, NumBins, g)
<1>1. NumBins \in Nat \ {0}
  BY Sizes
<1>2. Sums(nb, NumBins, f)
  BY <1>1, SumsExist
<1>3. \A b : SumTo(nb, b) = f[b]
  BY DEF SumTo
<1> HIDE DEF f
<1>4. \A c \in 0 .. NumBins : f[c] = IF c = 0 THEN 0 ELSE f[c - 1] + nb[c - 1]
  BY <1>2 DEF Sums
<1>5. f[0] = 0
  BY <1>1, <1>4
<1>6. ASSUME NEW b \in Bin PROVE f[b + 1] = f[b] + nb[b]
  <2> DEFINE c == b + 1
  <2>1. c \in 0 .. NumBins /\ c # 0 /\ c - 1 = b
    BY <1>1 DEF Bin
  <2> HIDE DEF c
  <2>2. f[c] = f[b] + nb[b]
    BY <1>4, <2>1
  <2> QED BY <2>2 DEF c
<1> QED BY <1>3, <1>5, <1>6

\* The bins lie one behind the other.
LEMMA SumsGrow ==
  ASSUME NEW nb \in [Bin -> Nat], NEW c \in 0 .. NumBins
  PROVE  /\ SumTo(nb, c) \in Nat
         /\ \A b \in Bin : b < c => SumTo(nb, b) \in Nat /\ SumTo(nb, b) + nb[b] <= SumTo(nb, c)
<1> DEFINE P(n) == SumTo(nb, n)
           Good(n) == /\ P(n) \in Nat
                      /\ \A b \in Bin : b < n => P(b) \in Nat /\ P(b) + nb[b] <= P(n)
           S == {n \in 0 .. NumBins : ~ Good(n)}
<1>0. NumBins \in Nat /\ \A b \in Bin : b \in Nat
  BY Sizes DEF Bin
<1>1. SUFFICES ASSUME S # {} PROVE FALSE
  OBVIOUS
<1>2. PICK n \in S : \A m \in S : n <= m
  <2>1. S \subseteq Nat
    BY <1>0
  <2> HIDE DEF S
  <2> QED BY <1>1, <2>1, LowestOf
<1>3. n \in Nat /\ n <= NumBins /\ ~ Good(n)
  BY <1>0, <1>2
<1>4. CASE n = 0
  BY <1>0, <1>3, <1>4, SumToIs
<1>5. CASE n # 0
  <2>1. n - 1 \in Bin /\ n - 1 \in 0 .. NumBins /\ n - 1 \notin S
    BY <1>0, <1>2, <1>3, <1>5 DEF Bin
  <2>2. Good(n - 1)
    BY <2>1
  <2>3. P(n - 1 + 1) = P(n - 1) + nb[n - 1] /\ n - 1 + 1 = n
    BY <1>3, <2>1, SumToIs
  <2>4. \A b \in Bin : nb[b] \in Nat
    OBVIOUS
  <2>5. P(n) \in Nat /\ P(n) = P(n - 1) + nb[n - 1] /\ P(n - 1) \in Nat
    BY <2>1, <2>2, <2>3, <2>4
  <2>6. ASSUME NEW b \in Bin, b < n PROVE P(b) \in Nat /\ P(b) + nb[b] <= P(n)
    <3>1. CASE b = n - 1
      BY <2>5, <3>1
    <3>2. CASE b < n - 1
      <4>1. P(b) \in Nat /\ P(b) + nb[b] <= P(n - 1)
        BY <2>2, <3>2
      <4> HIDE DEF P
      <4> QED BY <2>1, <2>4, <2>5, <4>1
    <3> QED BY <1>0, <1>3, <2>6, <3>1, <3>2
  <2> QED BY <1>3, <2>5, <2>6
<1> QED BY <1>4, <1>5

\* The number of entries of a bin is of no account for the bins before it.
LEMMA SumsBelow ==
  ASSUME NEW nb, NEW mb, NEW n \in 0 .. NumBins, \A b \in Bin : b < n => mb[b] = nb[b],
         NEW i \in 0 .. n
  PROVE  SumTo(mb, i) = SumTo(nb, i)
<1> DEFINE S == {c \in 0 .. n : SumTo(mb, c) # SumTo(nb, c)}
<1>0. NumBins \in Nat /\ n \in Nat /\ n <= NumBins
  BY Sizes
<1>1. SUFFICES ASSUME S # {} PROVE FALSE
  OBVIOUS
<1>2. PICK c \in S : \A d \in S : c <= d
  <2>1. S \subseteq Nat
    BY <1>0
  <2> HIDE DEF S
  <2> QED BY <1>1, <2>1, LowestOf
<1>3. c # 0
  BY SumToIs
<1>4. c - 1 \in Bin /\ c - 1 \in 0 .. n /\ c - 1 < n /\ c - 1 + 1 = c
  BY <1>0, <1>2, <1>3 DEF Bin
<1>5. SumTo(mb, c - 1) = SumTo(nb, c - 1)
  BY <1>2, <1>4
<1>6. /\ SumTo(mb, c - 1 + 1) = SumTo(mb, c - 1) + mb[c - 1]
      /\ SumTo(nb, c - 1 + 1) = SumTo(nb, c - 1) + nb[c - 1]
  BY <1>4, SumToIs
<1> QED BY <1>2, <1>4, <1>5, <1>6

\* The recursion of Gathered, up to the task before n, for the tables bn.
Joined(bn, b, n, f) == f = [t \in -1 .. n - 1 |-> IF t = -1 THEN <<>> ELSE f[t - 1] \o bn[t][b]]

LEMMA GatheredJoins ==
  Gathered(k) = (CHOOSE f : Joined(bins, k, NumTasks, f))[NumTasks - 1]
BY DEF Gathered, Joined

LEMMA JoinedExist == ASSUME NEW bn, NEW b, NEW n \in Nat PROVE \E f : Joined(bn, b, n, f)
<1> DEFINE S == {m \in Nat : ~ \E f : Joined(bn, b, m, f)}
<1>1. SUFFICES ASSUME S # {} PROVE FALSE
  OBVIOUS
<1>2. PICK m \in S : \A l \in S : m <= l
  <2>1. S \subseteq Nat
    OBVIOUS
  <2> HIDE DEF S
  <2> QED BY <1>1, <2>1, LowestOf
<1>3. CASE m = 0
  <2> DEFINE f == [t \in -1 .. 0 - 1 |-> <<>>]
  <2>1. Joined(bn, b, 0, f)
    BY DEF Joined
  <2> QED BY <1>3, <2>1
<1>4. CASE m # 0
  <2>1. m - 1 \in Nat /\ m - 1 \notin S /\ m \in Nat
    BY <1>2, <1>4
  <2>2. PICK f : Joined(bn, b, m - 1, f)
    BY <2>1
  <2> DEFINE g == [t \in -1 .. m - 1 |-> IF t = m - 1 THEN f[m - 2] \o bn[m - 1][b] ELSE f[t]]
  <2>3. ASSUME NEW t \in -1 .. m - 1
        PROVE  g[t] = IF t = -1 THEN <<>> ELSE g[t - 1] \o bn[t][b]
    <3>1. CASE t = m - 1
      <4>1. m - 2 \in -1 .. m - 1 /\ m - 2 # m - 1 /\ t # -1 /\ t - 1 = m - 2
        BY <2>1, <3>1
      <4>2. g[t - 1] = f[m - 2]
        BY <4>1
      <4> QED BY <3>1, <4>1, <4>2
    <3>2. CASE t # m - 1
      <4>1. t \in -1 .. (m - 1) - 1
        BY <2>1, <3>2
      <4>2. f[t] = IF t = -1 THEN <<>> ELSE f[t - 1] \o bn[t][b]
        BY <2>2, <4>1 DEF Joined
      <4>3. g[t] = f[t] /\ (t # -1 => g[t - 1] = f[t - 1])
        BY <2>1, <4>1
      <4> QED BY <4>2, <4>3
    <3> QED BY <3>1, <3>2
  <2>4. g = [t \in -1 .. m - 1 |-> IF t = -1 THEN <<>> ELSE g[t - 1] \o bn[t][b]]
    <3>1. g = [t \in -1 .. m - 1 |-> g[t]]
      OBVIOUS
    <3> HIDE DEF g
    <3> QED BY <2>3, <3>1
  <2>5. Joined(bn, b, m, g)
    BY <2>4 DEF Joined
  <2> QED BY <2>5
<1> QED BY <1>3, <1>4

\* All entries of a bin, and those in the parts of the tasks before n.
Of(b) == {x \in AllEntries : address[x.ele][x.hf] = b}
InPart(x, t) == StartPos(t) <= x.ele /\ x.ele < EndPos(t)
OfTask(t, b) == {x \in Of(b) : InPart(x, t)}
OfTasks(n, b) == {x \in Of(b) : \E t \in Task : t < n /\ InPart(x, t)}

LEMMA AllAreEntries == AllEntries \subseteq Entries
<1> SUFFICES ASSUME NEW p \in Pair
             PROVE  Entry(p[1], p[2], IsDummy(p[1], p[2])) \in Entries
  BY DEF AllEntries
<1>1. p[1] \in Ele /\ p[2] \in HF
  BY DEF Pair
<1>2. IsDummy(p[1], p[2]) \in BOOLEAN
  BY DEF IsDummy
<1> QED BY <1>1, <1>2 DEF Entries, Entry

LEMMA PartsApart ==
  ASSUME address \in Addresses, NEW t \in Task, NEW b \in Bin
  PROVE  /\ OfTasks(t + 1, b) = OfTasks(t, b) \cup OfTask(t, b)
         /\ \A x \in OfTasks(t, b), y \in OfTask(t, b) : Before(x, y)
<1>1. \A u \in Task : u \in Nat
  BY DEF Task
<1>2. OfTasks(t + 1, b) = OfTasks(t, b) \cup OfTask(t, b)
  <2>1. \A u \in Task : u < t + 1 <=> u < t \/ u = t
    BY <1>1
  <2> QED BY <2>1 DEF OfTasks, OfTask
<1>3. ASSUME NEW x \in OfTasks(t, b), NEW y \in OfTask(t, b) PROVE Before(x, y)
  <2>1. PICK u \in Task : u < t /\ InPart(x, u)
    BY <1>3 DEF OfTasks
  <2>2. /\ StartPos(u) \in Nat /\ EndPos(u) \in Nat /\ EndPos(u) <= StartPos(u) + PerTask
        /\ StartPos(u) + PerTask <= StartPos(t) /\ StartPos(t) \in Nat
    BY <2>1, PartsAre
  <2>3. x \in Entries /\ y \in Entries
    BY <1>3, AllAreEntries DEF OfTasks, OfTask, Of
  <2>4. x.ele \in Nat /\ y.ele \in Nat /\ PerTask \in Nat
    BY <2>3, Sizes DEF Entries, Ele
  <2>5. x.ele < y.ele
    BY <1>3, <2>1, <2>2, <2>4 DEF OfTask, InPart
  <2>6. address[x.ele][x.hf] = b /\ address[y.ele][y.hf] = b
    BY <1>3 DEF OfTasks, OfTask, Of
  <2> QED BY <2>5, <2>6 DEF Before
<1> QED BY <1>2, <1>3

\* The threads' bins joined are the list of all entries of the bin.
LEMMA GatheredIs ==
  ASSUME address \in Addresses, k \in Bin, \A t \in Task : Listed(bins[t][k], OfTask(t, k))
  PROVE  Listed(Gathered(k), Of(k))
<1> DEFINE f == CHOOSE g : Joined(bins, k, NumTasks, g)
<1>1. NumTasks \in Nat \ {0} /\ NumEles \in Nat
  BY Sizes
<1>2. Joined(bins, k, NumTasks, f)
  BY <1>1, JoinedExist
<1>3. Gathered(k) = f[NumTasks - 1]
  BY GatheredJoins
<1> HIDE DEF f
<1>4. \A t \in -1 .. NumTasks - 1 : f[t] = IF t = -1 THEN <<>> ELSE f[t - 1] \o bins[t][k]
  BY <1>2 DEF Joined
<1> DEFINE S == {n \in 0 .. NumTasks : ~ Listed(f[n - 1], OfTasks(n, k))}
<1>5. S = {}
  <2>1. SUFFICES ASSUME S # {} PROVE FALSE
    OBVIOUS
  <2>2. PICK n \in S : \A m \in S : n <= m
    <3>1. S \subseteq Nat
      BY <1>1
    <3> HIDE DEF S
    <3> QED BY <2>1, <3>1, LowestOf
  <2>3. n \in Nat /\ n <= NumTasks /\ ~ Listed(f[n - 1], OfTasks(n, k))
    BY <1>1, <2>2
  <2>4. CASE n = 0
    <3>1. f[n - 1] = <<>>
      BY <1>1, <1>4, <2>4
    <3>2. OfTasks(n, k) = {}
      BY <2>4 DEF OfTasks, Task
    <3> QED BY <2>3, <3>1, <3>2, ListedEmpty
  <2>5. CASE n # 0
    <3> DEFINE t == n - 1
    <3>1. t \in Task /\ t \in 0 .. NumTasks /\ t \notin S /\ t + 1 = n
      BY <1>1, <2>2, <2>3, <2>5 DEF Task
    <3>2. Listed(f[t - 1], OfTasks(t, k))
      BY <3>1
    <3>3. f[t] = f[t - 1] \o bins[t][k]
      <4>1. t \in -1 .. NumTasks - 1 /\ t # -1
        BY <1>1, <3>1 DEF Task
      <4> HIDE DEF t
      <4> QED BY <1>4, <4>1
    <3> HIDE DEF t
    <3>4. Listed(f[t], OfTasks(t + 1, k))
      <4>1. /\ OfTasks(t + 1, k) = OfTasks(t, k) \cup OfTask(t, k)
            /\ \A x \in OfTasks(t, k), y \in OfTask(t, k) : Before(x, y)
        BY <3>1, PartsApart
      <4>2. Listed(bins[t][k], OfTask(t, k))
        BY <3>1
      <4>3. Listed(f[t - 1] \o bins[t][k], OfTasks(t, k) \cup OfTask(t, k))
        BY <3>2, <4>1, <4>2, ListedConcat
      <4> QED BY <3>3, <4>1, <4>3
    <3> QED BY <2>3, <3>1, <3>4 DEF t
  <2> QED BY <2>3, <2>4, <2>5
<1>6. Listed(f[NumTasks - 1], OfTasks(NumTasks, k))
  BY <1>1, <1>5
<1>7. OfTasks(NumTasks, k) = Of(k)
  <2>1. ASSUME NEW x \in Of(k) PROVE \E t \in Task : t < NumTasks /\ InPart(x, t)
    <3>1. x.ele \in Ele
      BY <2>1, AllAreEntries DEF Of, Entries
    <3>2. PICK t \in Task : StartPos(t) <= x.ele /\ x.ele < EndPos(t)
      BY <3>1, EveryElement
    <3>3. t < NumTasks
      BY <1>1 DEF Task
    <3> QED BY <3>2, <3>3 DEF InPart
  <2> QED BY <2>1 DEF OfTasks
<1> QED BY <1>3, <1>6, <1>7

-----------------------------------------------------------------------------
(***************************************************************************)
(* The invariant.                                                          *)
(***************************************************************************)

\* What is in bin b of thread t's table before hash function h of element c.
HeldAt(t, b, c, h) ==
  {x \in Of(b) : StartPos(t) <= x.ele /\ (x.ele < c \/ (x.ele = c /\ x.hf < h))}

\* The bins that are merged, and the entries of the bins before n.
Through ==
  IF stage \in {"insert", "copy", "dead"} THEN 0 ELSE IF stage = "merge" THEN k ELSE NumBins

OfBins(n) == {x \in AllEntries : address[x.ele][x.hf] < n}

PositionsOf(nb, b) == SumTo(nb, b) + 1 .. SumTo(nb, b) + nb[b]

Typed ==
  /\ address \in Addresses
  /\ bins = [t \in Task |-> [b \in Bin |-> bins[t][b]]]
  /\ room \in [Task -> Nat] /\ cursor \in [Task -> Nat] /\ hf \in [Task -> HF]
  /\ nelesinbin \in [Bin -> Nat] /\ indexOf \in [Pair -> Int]

Stages ==
  /\ stage \in {"insert", "copy", "dead", "merge", "place", "sent", "interpolate",
                "interpolated", "overfull"}
  /\ stage = "insert" => k = 0
  /\ stage = "copy" => k \in Task
  /\ stage \in {"merge", "place"} => k \in Bin
  /\ stage = "interpolate" => k \in HF

Cursors ==
  \A t \in Task :
    /\ StartPos(t) <= cursor[t]
    /\ cursor[t] <= EndPos(t) \/ cursor[t] = StartPos(t)
    /\ cursor[t] >= EndPos(t) => hf[t] = 0
    /\ stage # "insert" => cursor[t] >= EndPos(t)

Tables ==
  \A t \in Task, b \in Bin : /\ Listed(bins[t][b], HeldAt(t, b, cursor[t], hf[t]))
                            /\ Len(bins[t][b]) < room[t]

\* The bins before n are merged into m, with the numbers nb and the index ix.
MergedTo(n, m, nb, ix) ==
  /\ Listed(m, OfBins(n))
  /\ SumTo(nb, n) = Len(m)
  /\ \A b \in Bin : b < n => \A q \in PositionsOf(nb, b) : address[m[q].ele][m[q].hf] = b
  /\ \A x \in OfBins(n) : /\ ix[<<x.ele, x.hf>>] + 1 \in 1 .. Len(m)
                          /\ m[ix[<<x.ele, x.hf>>] + 1] = x

HashInv ==
  Typed /\ Stages /\ Cursors /\ Tables /\ MergedTo(Through, merged, nelesinbin, indexOf)

LEMMA PositionsAre == \A b : Positions(b) = PositionsOf(nelesinbin, b)
BY ProgressIsSum DEF Positions, PositionsOf

\* All this depends on the address function only.
LEMMA SameOrder ==
  ASSUME UNCHANGED address
  PROVE  /\ \A x, y : Before(x, y)' = Before(x, y)
         /\ \A s, X : Listed(s, X)' = Listed(s, X)
         /\ \A b : Of(b)' = Of(b)
         /\ \A t, b, c, h : HeldAt(t, b, c, h)' = HeldAt(t, b, c, h)
         /\ \A n : OfBins(n)' = OfBins(n)
         /\ \A n, m, nb, ix : MergedTo(n, m, nb, ix)' = MergedTo(n, m, nb, ix)
<1>1. \A x, y : Before(x, y)' = Before(x, y)
  BY DEF Before
<1>2. \A s, X : Listed(s, X)' = Listed(s, X)
  BY <1>1 DEF Listed
<1>3. AllEntries' = AllEntries
  BY DEF AllEntries, IsDummy
<1>4. \A b : Of(b)' = Of(b)
  BY <1>3 DEF Of
<1>5. \A t, b, c, h : HeldAt(t, b, c, h)' = HeldAt(t, b, c, h)
  BY <1>4 DEF HeldAt
<1>6. \A n : OfBins(n)' = OfBins(n)
  BY <1>3 DEF OfBins
<1>7. \A n, m, nb, ix : MergedTo(n, m, nb, ix)' = MergedTo(n, m, nb, ix)
  BY <1>2, <1>6 DEF MergedTo
<1> QED BY <1>1, <1>2, <1>4, <1>5, <1>6, <1>7

LEMMA ThreeFunctions ==
  /\ Cardinality(HF) = 3
  /\ \A j \in HF : (j + 1) % Cardinality(HF) = IF j = 2 THEN 0 ELSE j + 1
<1>1. Cardinality(HF) = 3
  <2>1. 0 \in Int /\ 2 \in Int /\ ~(0 > 2) /\ 2 - 0 + 1 = 3
    OBVIOUS
  <2>2. Cardinality(0 .. 2) = 2 - 0 + 1
    BY <2>1, FS_Interval, Zenon
  <2> QED BY <2>1, <2>2 DEF HF
<1>2. \A j \in {0, 1, 2} : (j + 1) % 3 = IF j = 2 THEN 0 ELSE j + 1
  OBVIOUS
<1>3. HF = {0, 1, 2}
  BY DEF HF
<1> QED BY <1>1, <1>2, <1>3

\* One more entry, the one of hash function h of element c.
LEMMA HeldNext ==
  ASSUME address \in Addresses, NEW t \in Task, NEW c \in Ele, StartPos(t) <= c, NEW h \in HF
  PROVE  LET y == Entry(c, h, IsDummy(c, h))
             d == IF (h + 1) % Cardinality(HF) = 0 THEN c + 1 ELSE c
             g == (h + 1) % Cardinality(HF)
         IN  \A b \in Bin :
               /\ HeldAt(t, b, d, g)
                    = IF b = address[c][h] THEN HeldAt(t, b, c, h) \cup {y} ELSE HeldAt(t, b, c, h)
               /\ b = address[c][h] => \A x \in HeldAt(t, b, c, h) : Before(x, y)
<1> DEFINE y == Entry(c, h, IsDummy(c, h))
           g == (h + 1) % Cardinality(HF)
           d == IF g = 0 THEN c + 1 ELSE c
<1> SUFFICES ASSUME NEW b \in Bin
             PROVE  /\ HeldAt(t, b, d, g)
                         = IF b = address[c][h] THEN HeldAt(t, b, c, h) \cup {y}
                           ELSE HeldAt(t, b, c, h)
                    /\ b = address[c][h] => \A x \in HeldAt(t, b, c, h) : Before(x, y)
  OBVIOUS
<1>1. g = (IF h = 2 THEN 0 ELSE h + 1) /\ h \in {0, 1, 2} /\ c \in Nat
  BY ThreeFunctions DEF HF, Ele
<1>2. y.ele = c /\ y.hf = h /\ y \in AllEntries
  <2>1. <<c, h>> \in Pair
    BY DEF Pair
  <2> QED BY <2>1 DEF AllEntries, Entry
<1>3. ASSUME NEW x \in AllEntries, x.ele = c, x.hf = h PROVE x = y
  <2>1. PICK p \in Pair : x = Entry(p[1], p[2], IsDummy(p[1], p[2]))
    BY DEF AllEntries
  <2>2. p[1] = c /\ p[2] = h
    BY <1>3, <2>1 DEF Entry
  <2> QED BY <2>1, <2>2
<1>4. \A x \in AllEntries : x.ele \in Nat /\ x.hf \in {0, 1, 2}
  BY AllAreEntries DEF Entries, Ele, HF
<1> HIDE DEF g, y
<1>5. d = (IF h = 2 THEN c + 1 ELSE c)
  BY <1>1
<1> HIDE DEF d
<1>6. ASSUME NEW x \in Of(b)
      PROVE  /\ x \in HeldAt(t, b, d, g) <=> x \in HeldAt(t, b, c, h) \/ x = y
             /\ x \in HeldAt(t, b, c, h) => Before(x, y) \/ b # address[c][h]
  <2>1. x \in AllEntries /\ address[x.ele][x.hf] = b
    BY DEF Of
  <2>2. x.ele \in Nat /\ x.hf \in {0, 1, 2} /\ (x = y <=> x.ele = c /\ x.hf = h)
    BY <2>1, <1>2, <1>3, <1>4
  <2>3. x \in HeldAt(t, b, d, g) <=> StartPos(t) <= x.ele /\ (x.ele < d \/ (x.ele = d /\ x.hf < g))
    BY DEF HeldAt
  <2>4. x \in HeldAt(t, b, c, h) <=> StartPos(t) <= x.ele /\ (x.ele < c \/ (x.ele = c /\ x.hf < h))
    BY DEF HeldAt
  <2>5. (x.ele < d \/ (x.ele = d /\ x.hf < g))
          <=> (x.ele < c \/ (x.ele = c /\ x.hf < h)) \/ (x.ele = c /\ x.hf = h)
    BY <1>1, <1>5, <2>2
  <2>6. x \in HeldAt(t, b, d, g) <=> x \in HeldAt(t, b, c, h) \/ x = y
    BY <2>2, <2>3, <2>4, <2>5
  <2>7. x \in HeldAt(t, b, c, h) /\ b = address[c][h] => Before(x, y)
    BY <1>2, <2>1, <2>4 DEF Before
  <2> QED BY <2>6, <2>7
<1>7. /\ HeldAt(t, b, d, g) \subseteq Of(b) /\ HeldAt(t, b, c, h) \subseteq Of(b)
      /\ y \in Of(b) <=> b = address[c][h]
  BY <1>2 DEF HeldAt, Of
<1> QED BY <1>6, <1>7 DEF d, g, y

LEMMA InitHash == Init => HashInv
<1> SUFFICES ASSUME Init PROVE HashInv
  OBVIOUS
<1>1. /\ InitialRoom \in Nat \ {0} /\ NumBins \in Nat \ {0} /\ NumTasks \in Nat \ {0}
      /\ \A t \in Task : StartPos(t) \in Nat
  BY Sizes, PartsAre
<1>2. Typed
  <2>1. address \in Addresses
    BY DEF Init
  <2>2. bins = [t \in Task |-> [b \in Bin |-> bins[t][b]]]
    BY DEF Init
  <2>3. room \in [Task -> Nat] /\ cursor \in [Task -> Nat]
    BY <1>1 DEF Init
  <2>4. hf \in [Task -> HF] /\ nelesinbin \in [Bin -> Nat] /\ indexOf \in [Pair -> Int]
    BY DEF Init, HF, Unset
  <2> QED BY <2>1, <2>2, <2>3, <2>4 DEF Typed
<1>3. Stages
  BY DEF Stages, Init
<1>4. Cursors
  BY <1>1 DEF Cursors, Init
<1>5. Tables
  <2> SUFFICES ASSUME NEW t \in Task, NEW b \in Bin
               PROVE  /\ Listed(bins[t][b], HeldAt(t, b, cursor[t], hf[t]))
                      /\ Len(bins[t][b]) < room[t]
    BY DEF Tables
  <2>1. bins[t][b] = <<>> /\ room[t] = InitialRoom /\ cursor[t] = StartPos(t) /\ hf[t] = 0
    BY DEF Init
  <2>2. HeldAt(t, b, StartPos(t), 0) = {}
    <3> SUFFICES ASSUME NEW x \in HeldAt(t, b, StartPos(t), 0) PROVE FALSE
      OBVIOUS
    <3>1. x.ele \in Nat /\ x.hf \in Nat /\ StartPos(t) \in Nat
      BY <1>1, AllAreEntries DEF HeldAt, Of, Entries, Ele, HF
    <3> QED BY <3>1 DEF HeldAt
  <2>3. Len(<<>>) = 0 /\ 0 < InitialRoom
    BY <1>1
  <2>4. Listed(<<>>, HeldAt(t, b, StartPos(t), 0))
    BY <2>2, ListedEmpty, Zenon
  <2> QED BY <2>1, <2>3, <2>4, Zenon
<1>6. MergedTo(Through, merged, nelesinbin, indexOf)
  <2>1. Through = 0 /\ merged = <<>>
    BY DEF Through, Init
  <2>2. OfBins(0) = {}
    <3> SUFFICES ASSUME NEW x \in OfBins(0) PROVE FALSE
      OBVIOUS
    <3>1. x \in Entries /\ address \in Addresses
      BY <1>2, AllAreEntries DEF OfBins, Typed
    <3>2. address[x.ele][x.hf] \in Bin
      BY <3>1, BeforeIs
    <3> QED BY <3>2 DEF OfBins, Bin
  <2>3. SumTo(nelesinbin, 0) = Len(<<>>)
    BY SumToIs
  <2>4. \A b \in Bin : ~(b < 0)
    BY DEF Bin
  <2> QED BY <2>1, <2>2, <2>3, <2>4, ListedEmpty DEF MergedTo
<1> QED BY <1>2, <1>3, <1>4, <1>5, <1>6 DEF HashInv

\* An element and a hash function determine the entry.
LEMMA OneEntry ==
  /\ \A x, y \in AllEntries : x.ele = y.ele /\ x.hf = y.hf => x = y
  /\ \A x \in AllEntries : <<x.ele, x.hf>> \in Pair
  /\ \A e \in Ele, j \in HF : Entry(e, j, IsDummy(e, j)) \in AllEntries
<1>1. ASSUME NEW x \in AllEntries
      PROVE  /\ <<x.ele, x.hf>> \in Pair
             /\ x = Entry(x.ele, x.hf, IsDummy(x.ele, x.hf))
  <2>1. PICK p \in Pair : x = Entry(p[1], p[2], IsDummy(p[1], p[2]))
    BY DEF AllEntries
  <2>2. p = <<p[1], p[2]>> /\ x.ele = p[1] /\ x.hf = p[2]
    BY <2>1 DEF Pair, Entry
  <2> QED BY <2>1, <2>2
<1>2. ASSUME NEW e \in Ele, NEW j \in HF PROVE Entry(e, j, IsDummy(e, j)) \in AllEntries
  <2>1. <<e, j>> \in Pair /\ <<e, j>>[1] = e /\ <<e, j>>[2] = j
    BY DEF Pair
  <2> QED BY <2>1 DEF AllEntries
<1>3. \A x, y \in AllEntries : x.ele = y.ele /\ x.hf = y.hf => x = y
  BY <1>1
<1> QED BY <1>1, <1>2, <1>3

\* One more bin among the sums.
LEMMA SumsExtend ==
  ASSUME NEW n \in Bin, NEW nb, NEW mb, \A b \in Bin : b < n => mb[b] = nb[b]
  PROVE  /\ SumTo(mb, n + 1) = SumTo(nb, n) + mb[n]
         /\ SumTo(mb, n) = SumTo(nb, n)
         /\ \A b \in Bin : b < n => SumTo(mb, b) = SumTo(nb, b)
<1>1. n \in 0 .. NumBins /\ n \in 0 .. n
  BY Sizes DEF Bin
<1>2. ASSUME NEW i \in 0 .. n PROVE SumTo(mb, i) = SumTo(nb, i)
  BY <1>1, SumsBelow
<1>3. \A b \in Bin : b < n => b \in 0 .. n
  BY <1>1 DEF Bin
<1>4. SumTo(mb, n + 1) = SumTo(mb, n) + mb[n]
  BY SumToIs
<1> QED BY <1>1, <1>2, <1>3, <1>4

\* The index of the entries new of one more bin, which come behind l0 others.
IndexWith(ix, l0, new) ==
  [p \in Pair |-> IF \E l \in DOMAIN new : <<new[l].ele, new[l].hf>> = p
                  THEN l0 + (CHOOSE l \in DOMAIN new : <<new[l].ele, new[l].hf>> = p) - 1
                  ELSE ix[p]]

Indexed(n, ix, l0, new, iy) ==
  /\ \A x \in OfBins(n) : iy[<<x.ele, x.hf>>] = ix[<<x.ele, x.hf>>]
  /\ \A x \in Of(n) : \E l \in 1 .. Len(new) :
       new[l] = x /\ iy[<<x.ele, x.hf>>] = l0 + l - 1

LEMMA IndexNext ==
  ASSUME address \in Addresses, NEW n \in Bin, NEW l0 \in Nat, NEW ix \in [Pair -> Int],
         NEW new, Listed(new, Of(n))
  PROVE  /\ IndexWith(ix, l0, new) \in [Pair -> Int]
         /\ Indexed(n, ix, l0, new, IndexWith(ix, l0, new))
<1> DEFINE iy == IndexWith(ix, l0, new)
           Same(l, p) == <<new[l].ele, new[l].hf>> = p
           L(p) == CHOOSE l \in DOMAIN new : Same(l, p)
<1>0. iy = [p \in Pair |-> IF \E l \in DOMAIN new : Same(l, p) THEN l0 + L(p) - 1 ELSE ix[p]]
  BY DEF IndexWith
<1> HIDE DEF iy
<1>1. /\ Len(new) \in Nat /\ DOMAIN new = 1 .. Len(new)
      /\ \A i \in 1 .. Len(new) : new[i] \in Of(n)
      /\ \A x \in Of(n) : \E i \in 1 .. Len(new) : new[i] = x
  BY ListedIs
<1>2. \A p \in Pair : (\E l \in DOMAIN new : Same(l, p)) =>
        L(p) \in DOMAIN new /\ Same(L(p), p) /\ iy[p] = l0 + L(p) - 1
  BY <1>0
<1>3. \A p \in Pair : ~(\E l \in DOMAIN new : Same(l, p)) => iy[p] = ix[p]
  BY <1>0
<1>4. DOMAIN iy = Pair /\ iy = [p \in Pair |-> iy[p]]
  BY <1>0
<1>5. \A l, x : Same(l, <<x.ele, x.hf>>) <=> new[l].ele = x.ele /\ new[l].hf = x.hf
  OBVIOUS
<1> HIDE DEF L, Same
<1>6. ASSUME NEW p \in Pair PROVE iy[p] \in Int
  <2>1. CASE \E l \in DOMAIN new : Same(l, p)
    <3>1. L(p) \in 1 .. Len(new) /\ iy[p] = l0 + L(p) - 1
      BY <1>1, <1>2, <2>1, Zenon
    <3>2. L(p) \in Int /\ l0 + L(p) - 1 \in Int
      BY <1>1, <3>1
    <3> QED BY <3>1, <3>2, Zenon
  <2>2. CASE ~ \E l \in DOMAIN new : Same(l, p)
    <3>1. ix[p] \in Int
      BY Zenon
    <3> QED BY <1>3, <2>2, <3>1, Zenon
  <2> QED BY <2>1, <2>2, Zenon
<1>7. ASSUME NEW x \in OfBins(n) PROVE iy[<<x.ele, x.hf>>] = ix[<<x.ele, x.hf>>]
  <2>1. x \in AllEntries /\ address[x.ele][x.hf] < n
    BY DEF OfBins
  <2>2. n \in Nat
    BY Sizes DEF Bin
  <2>3. ASSUME NEW l \in DOMAIN new, Same(l, <<x.ele, x.hf>>) PROVE FALSE
    <3>1. new[l].ele = x.ele /\ new[l].hf = x.hf
      BY <1>5, <2>3, Zenon
    <3>2. address[new[l].ele][new[l].hf] = n
      BY <1>1, <2>3, Zenon DEF Of
    <3>3. n < n
      BY <2>1, <3>1, <3>2, Zenon
    <3> QED BY <2>2, <3>3
  <2>4. <<x.ele, x.hf>> \in Pair
    BY <2>1, OneEntry
  <2> QED BY <1>3, <2>3, <2>4, Zenon
<1>8. ASSUME NEW x \in Of(n)
      PROVE  \E l \in 1 .. Len(new) : new[l] = x /\ iy[<<x.ele, x.hf>>] = l0 + l - 1
  <2> DEFINE p == <<x.ele, x.hf>>
  <2>1. x \in AllEntries
    BY DEF Of
  <2>2. p \in Pair
    BY <2>1, OneEntry
  <2>3. \E l \in DOMAIN new : Same(l, p)
    BY <1>1, <1>5, Zenon
  <2>4. L(p) \in 1 .. Len(new) /\ Same(L(p), p) /\ iy[p] = l0 + L(p) - 1
    BY <1>1, <1>2, <2>2, <2>3, Zenon
  <2>5. new[L(p)] \in AllEntries /\ new[L(p)].ele = x.ele /\ new[L(p)].hf = x.hf
    BY <1>1, <1>5, <2>4, Zenon DEF Of
  <2>6. new[L(p)] = x
    BY <2>1, <2>5, OneEntry, Zenon
  <2> QED BY <2>4, <2>6, Zenon
<1> QED BY <1>4, <1>6, <1>7, <1>8 DEF iy, Indexed

Counted(n, nb, new, mb) == mb[n] = Len(new) /\ \A b \in Bin : b < n => mb[b] = nb[b]

\* Merging one more bin.
LEMMA MergeStep ==
  ASSUME address \in Addresses, NEW n \in Bin, NEW m, NEW nb \in [Bin -> Nat],
         NEW ix, MergedTo(n, m, nb, ix), NEW new, Listed(new, Of(n)),
         NEW mb \in [Bin -> Nat], Counted(n, nb, new, mb),
         NEW iy, Indexed(n, ix, Len(m), new, iy)
  PROVE  MergedTo(n + 1, m \o new, mb, iy)
<1> DEFINE w == m \o new
<1>1. /\ n \in Nat /\ n \in 0 .. NumBins /\ n + 1 \in 0 .. NumBins /\ NumBins \in Nat
      /\ \A b \in Bin : b \in Nat /\ (b < n + 1 <=> b < n \/ b = n)
  BY Sizes DEF Bin
<1>2. /\ Listed(m, OfBins(n)) /\ SumTo(nb, n) = Len(m)
      /\ \A b \in Bin : b < n => \A q \in PositionsOf(nb, b) : address[m[q].ele][m[q].hf] = b
      /\ \A x \in OfBins(n) : /\ ix[<<x.ele, x.hf>>] + 1 \in 1 .. Len(m)
                              /\ m[ix[<<x.ele, x.hf>>] + 1] = x
  BY DEF MergedTo
<1>3. /\ Len(new) \in Nat /\ DOMAIN new = 1 .. Len(new)
      /\ \A i \in 1 .. Len(new) : new[i] \in Of(n)
  BY ListedIs
<1>4. Len(m) \in Nat
  BY <1>2, ListedIs
<1>5. mb[n] = Len(new) /\ \A b \in Bin : b < n => mb[b] = nb[b]
  BY DEF Counted
<1>6. /\ \A x \in OfBins(n) : iy[<<x.ele, x.hf>>] = ix[<<x.ele, x.hf>>]
      /\ \A x \in Of(n) : \E l \in 1 .. Len(new) :
           new[l] = x /\ iy[<<x.ele, x.hf>>] = Len(m) + l - 1
  BY DEF Indexed
<1>7. /\ \A x \in OfBins(n) : x \in Entries /\ x \in AllEntries /\ address[x.ele][x.hf] < n
      /\ \A x \in Of(n) : x \in Entries /\ x \in AllEntries /\ address[x.ele][x.hf] = n
      /\ OfBins(n + 1) = OfBins(n) \cup Of(n)
  <2>1. \A x \in AllEntries : x \in Entries /\ address[x.ele][x.hf] \in Bin
    BY AllAreEntries, BeforeIs
  <2> QED BY <1>1, <2>1 DEF OfBins, Of
<1>8. /\ Listed(w, OfBins(n + 1)) /\ Len(w) = Len(m) + Len(new)
      /\ \A i \in 1 .. Len(m) : w[i] = m[i]
      /\ \A i \in 1 .. Len(new) : w[Len(m) + i] = new[i]
  <2>1. ASSUME NEW x \in OfBins(n), NEW y \in Of(n) PROVE Before(x, y)
    <3>1. address[x.ele][x.hf] < n /\ address[y.ele][y.hf] = n
      BY <1>7
    <3>2. address[x.ele][x.hf] < address[y.ele][y.hf]
      BY <3>1
    <3> QED BY <3>2 DEF Before
  <2>2. Listed(m, OfBins(n)) /\ Listed(new, Of(n))
    BY <1>2
  <2>3. \A x \in OfBins(n), y \in Of(n) : Before(x, y)
    BY <2>1
  <2>4. Listed(m \o new, OfBins(n) \cup Of(n))
    BY <2>2, <2>3, ListedConcat
  <2>5. Len(m \o new) = Len(m) + Len(new)
    BY <2>2, <2>3, ListedConcat
  <2>6. /\ \A i \in 1 .. Len(m) : (m \o new)[i] = m[i]
        /\ \A i \in 1 .. Len(new) : (m \o new)[Len(m) + i] = new[i]
    BY <2>2, <2>3, ListedConcat
  <2> QED BY <1>7, <2>4, <2>5, <2>6, Zenon
<1> HIDE DEF w
<1>9. /\ SumTo(mb, n) = Len(m) /\ SumTo(mb, n + 1) = Len(w)
      /\ \A b \in Bin : b < n => SumTo(mb, b) = SumTo(nb, b)
  <2>1. /\ SumTo(mb, n + 1) = SumTo(nb, n) + mb[n]
        /\ SumTo(mb, n) = SumTo(nb, n)
        /\ \A b \in Bin : b < n => SumTo(mb, b) = SumTo(nb, b)
    BY <1>5, SumsExtend
  <2> QED BY <1>2, <1>5, <1>8, <2>1, Zenon
<1>10. ASSUME NEW b \in Bin, b < n + 1, NEW q \in PositionsOf(mb, b)
       PROVE  address[w[q].ele][w[q].hf] = b
  <2>1. CASE b = n
    <3>1. q \in Len(m) + 1 .. Len(m) + Len(new)
      BY <1>5, <1>9, <2>1, <1>10 DEF PositionsOf
    <3> DEFINE i == q - Len(m)
    <3>2. i \in 1 .. Len(new) /\ Len(m) + i = q
      BY <1>3, <1>4, <3>1
    <3> HIDE DEF i
    <3>3. w[q] = new[i]
      BY <1>8, <3>2
    <3> QED BY <1>3, <1>7, <2>1, <3>2, <3>3
  <2>2. CASE b < n
    <3>1. SumTo(nb, b) \in Nat /\ SumTo(nb, b) + nb[b] <= Len(m) /\ nb[b] \in Nat
      BY <1>1, <1>2, <2>2, SumsGrow
    <3>2. q \in PositionsOf(nb, b)
      BY <1>5, <1>9, <2>2, <1>10 DEF PositionsOf
    <3>3. q \in 1 .. Len(m)
      BY <1>4, <3>1, <3>2 DEF PositionsOf
    <3> QED BY <1>2, <1>8, <2>2, <3>2, <3>3
  <2> QED BY <1>1, <1>10, <2>1, <2>2
<1>11. ASSUME NEW x \in OfBins(n + 1)
       PROVE  /\ iy[<<x.ele, x.hf>>] + 1 \in 1 .. Len(w)
              /\ w[iy[<<x.ele, x.hf>>] + 1] = x
  <2> DEFINE p == <<x.ele, x.hf>>
  <2>1. p \in Pair
    BY <1>7, OneEntry
  <2>2. CASE x \in OfBins(n)
    <3>1. iy[p] = ix[p]
      BY <1>6, <2>2
    <3>2. ix[p] + 1 \in 1 .. Len(m) /\ m[ix[p] + 1] = x
      BY <1>2, <2>2
    <3> HIDE DEF p
    <3>3. ix[p] + 1 \in 1 .. Len(w)
      BY <1>3, <1>4, <1>8, <3>2
    <3>4. iy[p] + 1 \in 1 .. Len(w) /\ w[iy[p] + 1] = x
      BY <1>8, <3>1, <3>2, <3>3
    <3> QED BY <3>4 DEF p
  <2>3. CASE x \in Of(n)
    <3>1. PICK l \in 1 .. Len(new) : new[l] = x /\ iy[p] = Len(m) + l - 1
      BY <1>6, <2>3
    <3> HIDE DEF p
    <3>2. iy[p] + 1 = Len(m) + l /\ Len(m) + l \in 1 .. Len(w)
      BY <1>3, <1>4, <1>8, <3>1
    <3>3. iy[p] + 1 \in 1 .. Len(w) /\ w[iy[p] + 1] = x
      BY <1>8, <3>1, <3>2
    <3> QED BY <3>3 DEF p
  <2> QED BY <1>7, <2>2, <2>3
<1>12. MergedTo(n + 1, w, mb, iy)
  BY <1>8, <1>9, <1>10, <1>11 DEF MergedTo
<1> QED BY <1>12 DEF w

-----------------------------------------------------------------------------
(***************************************************************************)
(* The steps of the invariant.                                             *)
(***************************************************************************)

\* One bin of one thread's table is replaced.
WithBin(t, b, v) == [bins EXCEPT ![t][b] = v]

LEMMA OneBin ==
  ASSUME Typed, NEW t \in Task, NEW b \in Bin, NEW v
  PROVE  /\ WithBin(t, b, v) = [u \in Task |-> [c \in Bin |-> WithBin(t, b, v)[u][c]]]
         /\ WithBin(t, b, v)[t][b] = v
         /\ \A u \in Task, c \in Bin : u # t \/ c # b => WithBin(t, b, v)[u][c] = bins[u][c]
<1> DEFINE bn == WithBin(t, b, v)
<1>0. bn = [bins EXCEPT ![t][b] = v]
  BY DEF WithBin
<1>1. bins = [u \in Task |-> [c \in Bin |-> bins[u][c]]]
  BY DEF Typed
<1> HIDE DEF bn
<1> DEFINE B == bins
<1>2. /\ DOMAIN B = Task
      /\ \A u \in Task : DOMAIN B[u] = Bin
  BY <1>1
<1>3. DOMAIN bn = Task /\ \A u \in Task : DOMAIN bn[u] = Bin
  BY <1>0, <1>1
<1>4. \A u \in Task : u # t => bn[u] = bins[u]
  BY <1>0, <1>2
<1>5. bn[t] = [bins[t] EXCEPT ![b] = v]
  BY <1>0, <1>2
<1>6. bn[t][b] = v /\ \A c \in Bin : c # b => bn[t][c] = bins[t][c]
  BY <1>2, <1>5
<1>7. bn = [u \in Task |-> [c \in Bin |-> bn[u][c]]]
  <2>1. bn = [u \in Task |-> bn[u]]
    BY <1>0, <1>2
  <2>2. \A u \in Task : bn[u] = [c \in Bin |-> bn[u][c]]
    <3>1. \A u \in Task : bins[u] = [c \in Bin |-> bins[u][c]]
      BY <1>1
    <3>2. bn[t] = [c \in Bin |-> bn[t][c]]
      BY <1>5, <3>1
    <3> QED BY <1>4, <3>1, <3>2
  <2> HIDE DEF B
  <2> QED BY <2>1, <2>2
<1> QED BY <1>4, <1>6, <1>7 DEF bn

LEMMA InsertKeeps ==
  ASSUME HashInv, NEW t \in Task, Insert(t)
  PROVE  HashInv'
<1> DEFINE e == cursor[t]
           j == hf[t]
           b == address[e][j]
           y == Entry(e, j, IsDummy(e, j))
<1>1. /\ Typed /\ Stages /\ Cursors /\ Tables
      /\ MergedTo(Through, merged, nelesinbin, indexOf)
      /\ address \in [Ele -> [HF -> Bin]] /\ address \in Addresses
  BY HashingSizes DEF HashInv, Typed
<1>2. /\ stage = "insert" /\ e < EndPos(t)
      /\ bins' = [bins EXCEPT ![t][b] = Append(@, y)]
      /\ room' = [room EXCEPT ![t] = NewRoom(t, Len(bins[t][b]) + 1)]
      /\ hf' = [hf EXCEPT ![t] = (j + 1) % Cardinality(HF)]
      /\ cursor' = [cursor EXCEPT ![t] = IF hf'[t] = 0 THEN e + 1 ELSE e]
      /\ UNCHANGED <<address, stage, k, merged, nelesinbin, indexOf>>
  BY DEF Insert, merging
<1>3. /\ room \in [Task -> Nat] /\ cursor \in [Task -> Nat] /\ hf \in [Task -> HF]
      /\ nelesinbin \in [Bin -> Nat] /\ indexOf \in [Pair -> Int]
  BY <1>1 DEF Typed
<1>4. /\ StartPos(t) \in Nat /\ EndPos(t) \in Nat /\ EndPos(t) <= NumEles
      /\ NumEles \in Nat /\ StartPos(t) <= e /\ e \in Nat
  BY <1>1, <1>3, PartsAre, Sizes DEF Cursors
<1>5. e \in Ele /\ j \in HF /\ b \in Bin
  <2>1. e \in Ele
    BY <1>2, <1>4 DEF Ele
  <2> QED BY <1>1, <1>3, <2>1
<1>6. /\ (j + 1) % Cardinality(HF) \in HF
      /\ (j + 1) % Cardinality(HF) = IF j = 2 THEN 0 ELSE j + 1
  BY <1>5, ThreeFunctions DEF HF
<1> DEFINE g == (j + 1) % Cardinality(HF)
           d == IF g = 0 THEN e + 1 ELSE e
<1>7. /\ hf' \in [Task -> HF] /\ hf'[t] = g
      /\ \A u \in Task : u # t => hf'[u] = hf[u]
  BY <1>2, <1>3, <1>6
<1>8. /\ cursor' \in [Task -> Nat] /\ cursor'[t] = d
      /\ \A u \in Task : u # t => cursor'[u] = cursor[u]
  <2>1. d \in Nat
    BY <1>4
  <2>2. cursor' = [cursor EXCEPT ![t] = d]
    BY <1>2, <1>7
  <2> HIDE DEF d
  <2> QED BY <1>3, <2>1, <2>2
<1>9. /\ bins' = [u \in Task |-> [c \in Bin |-> bins'[u][c]]]
      /\ bins'[t][b] = Append(bins[t][b], y)
      /\ \A u \in Task, c \in Bin : u # t \/ c # b => bins'[u][c] = bins[u][c]
  <2>1. PICK c \in Bin : c = b
    BY <1>5
  <2>2. PICK v : v = Append(bins[t][b], y)
    OBVIOUS
  <2>3. bins' = [bins EXCEPT ![t][c] = v]
    BY <1>2, <2>1, <2>2
  <2>4. Typed
    BY <1>1
  <2> HIDE DEF y, b, e, j, g, d
  <2>5. bins' = WithBin(t, c, v)
    BY <2>3 DEF WithBin
  <2>6. /\ WithBin(t, c, v) = [u \in Task |-> [i \in Bin |-> WithBin(t, c, v)[u][i]]]
        /\ WithBin(t, c, v)[t][c] = v
        /\ \A u \in Task, i \in Bin :
             u # t \/ i # c => WithBin(t, c, v)[u][i] = bins[u][i]
    BY <2>4, OneBin
  <2> QED BY <2>1, <2>2, <2>5, <2>6, Zenon
<1>10. /\ Listed(bins[t][b], HeldAt(t, b, e, j)) /\ Len(bins[t][b]) < room[t]
       /\ Len(bins[t][b]) \in Nat
  BY <1>1, <1>5, ListedIs DEF Tables
<1>11. /\ room' \in [Task -> Nat] /\ room[t] <= room'[t]
       /\ Len(bins[t][b]) + 1 < room'[t]
       /\ \A u \in Task : u # t => room'[u] = room[u]
  <2> DEFINE r == NewRoom(t, Len(bins[t][b]) + 1)
  <2>1. r \in Nat /\ room[t] <= r /\ Len(bins[t][b]) + 1 < r
    <3> DEFINE n == Len(bins[t][b])
               m == room[t]
    <3>1. n \in Nat /\ m \in Nat /\ n < m
      BY <1>3, <1>10
    <3>2. r = IF n + 1 = m THEN 2 * m ELSE m
      BY DEF NewRoom
    <3> HIDE DEF n, m, r
    <3>3. r \in Nat /\ m <= r /\ n + 1 < r
      BY <3>1, <3>2
    <3> QED BY <3>3 DEF n, m
  <2>2. room' = [room EXCEPT ![t] = r]
    BY <1>2
  <2> HIDE DEF r
  <2> QED BY <1>3, <2>1, <2>2
<1> HIDE DEF b, y, e, j, g, d
<1>12. /\ \A c \in Bin : HeldAt(t, c, d, g)
            = IF c = b THEN HeldAt(t, c, e, j) \cup {y} ELSE HeldAt(t, c, e, j)
       /\ \A x \in HeldAt(t, b, e, j) : Before(x, y)
  <2>1. \A c \in Bin :
          /\ HeldAt(t, c, d, g)
               = IF c = address[e][j] THEN HeldAt(t, c, e, j) \cup {y} ELSE HeldAt(t, c, e, j)
          /\ c = address[e][j] => \A x \in HeldAt(t, c, e, j) : Before(x, y)
    BY <1>1, <1>4, <1>5, HeldNext DEF d, g, y
  <2> QED BY <1>5, <2>1 DEF b
<1>13. /\ \A s, X : Listed(s, X)' = Listed(s, X)
       /\ \A u, c, f, h : HeldAt(u, c, f, h)' = HeldAt(u, c, f, h)
       /\ \A n, m, nb, ix : MergedTo(n, m, nb, ix)' = MergedTo(n, m, nb, ix)
  BY <1>2, SameOrder
<1>14. Typed'
  BY <1>1, <1>2, <1>3, <1>7, <1>8, <1>9, <1>11 DEF Typed
<1>15. Stages'
  BY <1>1, <1>2 DEF Stages
<1>16. Cursors'
  <2> SUFFICES ASSUME NEW u \in Task
               PROVE  /\ StartPos(u) <= cursor'[u]
                      /\ cursor'[u] <= EndPos(u) \/ cursor'[u] = StartPos(u)
                      /\ cursor'[u] >= EndPos(u) => hf'[u] = 0
                      /\ stage' # "insert" => cursor'[u] >= EndPos(u)
    BY DEF Cursors
  <2>1. CASE u = t
    <3>1. d \in Nat /\ StartPos(t) <= d /\ d <= EndPos(t) /\ (d >= EndPos(t) => g = 0)
      BY <1>2, <1>4 DEF d
    <3> QED BY <1>2, <1>7, <1>8, <2>1, <3>1
  <2>2. CASE u # t
    BY <1>1, <1>2, <1>7, <1>8, <2>2 DEF Cursors
  <2> QED BY <2>1, <2>2
<1>17. Tables'
  <2> SUFFICES ASSUME NEW u \in Task, NEW c \in Bin
               PROVE  /\ Listed(bins'[u][c], HeldAt(u, c, cursor'[u], hf'[u]))
                      /\ Len(bins'[u][c]) < room'[u]
    BY <1>13 DEF Tables
  <2>1. /\ Listed(bins[u][c], HeldAt(u, c, cursor[u], hf[u])) /\ Len(bins[u][c]) < room[u]
        /\ Len(bins[u][c]) \in Nat
    BY <1>1, ListedIs DEF Tables
  <2>2. CASE u # t
    BY <1>7, <1>8, <1>9, <1>11, <2>1, <2>2, Zenon
  <2>3. CASE u = t /\ c # b
    <3>1. bins'[u][c] = bins[u][c] /\ HeldAt(u, c, d, g) = HeldAt(u, c, e, j)
      BY <1>9, <1>12, <2>3
    <3>2. Len(bins[u][c]) < room'[u]
      BY <1>3, <1>11, <2>1, <2>3
    <3>3. e = cursor[u] /\ j = hf[u] /\ d = cursor'[u] /\ g = hf'[u]
      BY <1>7, <1>8, <2>3 DEF e, j
    <3> QED BY <2>1, <3>1, <3>2, <3>3, Zenon
  <2>4. CASE u = t /\ c = b
    <3>1. /\ Listed(Append(bins[t][b], y), HeldAt(t, b, e, j) \cup {y})
          /\ Len(Append(bins[t][b], y)) = Len(bins[t][b]) + 1
      BY <1>10, <1>12, ListedAppend
    <3>2. HeldAt(u, c, d, g) = HeldAt(t, b, e, j) \cup {y} /\ bins'[u][c] = Append(bins[t][b], y)
      BY <1>5, <1>9, <1>12, <2>4
    <3>3. d = cursor'[u] /\ g = hf'[u] /\ Len(bins[t][b]) + 1 < room'[u]
      BY <1>7, <1>8, <1>11, <2>4
    <3> QED BY <3>1, <3>2, <3>3, Zenon
  <2> QED BY <2>2, <2>3, <2>4
<1>18. MergedTo(Through, merged, nelesinbin, indexOf)'
  <2>1. Through' = Through
    BY <1>2 DEF Through
  <2>2. MergedTo(Through', merged', nelesinbin', indexOf')
    BY <1>1, <1>2, <2>1
  <2> QED BY <1>13, <2>2
<1> QED BY <1>14, <1>15, <1>16, <1>17, <1>18 DEF HashInv

\* What keeps the tables and the merged bins keeps the invariant.
LEMMA OthersKeep ==
  ASSUME HashInv, UNCHANGED <<address, inserting, merging>>, Stages', Through' = Through,
         stage' # "insert" => \A t \in Task : cursor[t] >= EndPos(t)
  PROVE  HashInv'
<1>1. /\ Typed /\ Cursors /\ Tables /\ MergedTo(Through, merged, nelesinbin, indexOf)
      /\ UNCHANGED <<address, bins, room, cursor, hf, merged, nelesinbin, indexOf>>
  BY DEF HashInv, inserting, merging
<1>2. /\ \A s, X : Listed(s, X)' = Listed(s, X)
      /\ \A u, c, f, h : HeldAt(u, c, f, h)' = HeldAt(u, c, f, h)
      /\ \A n, m, nb, ix : MergedTo(n, m, nb, ix)' = MergedTo(n, m, nb, ix)
  BY <1>1, SameOrder
<1>3. Typed'
  BY <1>1 DEF Typed
<1>4. Cursors'
  BY <1>1 DEF Cursors
<1>5. Tables'
  <2> SUFFICES ASSUME NEW u \in Task, NEW c \in Bin
               PROVE  /\ Listed(bins'[u][c], HeldAt(u, c, cursor'[u], hf'[u]))
                      /\ Len(bins'[u][c]) < room'[u]
    BY <1>2 DEF Tables
  <2>1. Listed(bins[u][c], HeldAt(u, c, cursor[u], hf[u])) /\ Len(bins[u][c]) < room[u]
    BY <1>1 DEF Tables
  <2> QED BY <1>1, <2>1
<1>6. MergedTo(Through, merged, nelesinbin, indexOf)'
  <2>1. MergedTo(Through', merged', nelesinbin', indexOf')
    BY <1>1
  <2> QED BY <1>2, <2>1
<1> QED BY <1>3, <1>4, <1>5, <1>6 DEF HashInv

\* A loop variable comes round.
LEMMA NextIndex ==
  ASSUME NEW n \in Nat \ {0}, NEW i \in 0 .. n - 1
  PROVE  (i + 1) % n = IF i + 1 = n THEN 0 ELSE i + 1
<1>1. CASE i + 1 = n
  <2>1. n % n = 0
    OBVIOUS
  <2> QED BY <1>1, <2>1
<1>2. CASE i + 1 # n
  <2>1. i + 1 \in 0 .. n - 1
    BY <1>2
  <2>2. \A j \in 0 .. n - 1 : j % n = j
    OBVIOUS
  <2> DEFINE j == i + 1
  <2> HIDE DEF j
  <2>3. j % n = j
    BY <2>1, <2>2 DEF j
  <2> QED BY <1>2, <2>3 DEF j
<1> QED BY <1>1, <1>2

LEMMA JoinKeeps == ASSUME HashInv, Join PROVE HashInv'
<1>1. /\ stage = "insert" /\ stage' = "copy" /\ k' = k /\ k = 0
      /\ \A t \in Task : cursor[t] >= EndPos(t)
      /\ UNCHANGED <<address, inserting, merging>>
  BY DEF Join, HashInv, Stages
<1>2. 0 \in Task
  BY Sizes DEF Task
<1>3. Stages'
  BY <1>1, <1>2 DEF Stages
<1>4. Through' = Through
  BY <1>1 DEF Through
<1> QED BY <1>1, <1>3, <1>4, OthersKeep

LEMMA CopyKeeps == ASSUME HashInv, Copy PROVE HashInv'
<1>1. /\ stage = "copy" /\ k \in Task /\ UNCHANGED <<address, inserting, merging>>
      /\ \A t \in Task : cursor[t] >= EndPos(t)
  BY DEF Copy, HashInv, Stages, Cursors
<1>2. \/ stage' = "dead"
      \/ /\ k' = (k + 1) % NumTasks
         /\ stage' = IF k + 1 = NumTasks THEN "merge" ELSE "copy"
  BY DEF Copy
<1>3. NumTasks \in Nat \ {0} /\ NumBins \in Nat \ {0}
  BY Sizes
<1>4. CASE stage' = "dead"
  <2>1. Stages'
    BY <1>4 DEF Stages
  <2>2. Through' = Through
    BY <1>1, <1>4 DEF Through
  <2> QED BY <1>1, <2>1, <2>2, OthersKeep
<1>5. CASE /\ k' = (k + 1) % NumTasks
           /\ stage' = IF k + 1 = NumTasks THEN "merge" ELSE "copy"
  <2>1. k' = IF k + 1 = NumTasks THEN 0 ELSE k + 1
    BY <1>1, <1>3, <1>5, NextIndex DEF Task
  <2>2. stage' = "copy" => k' \in Task
    BY <1>1, <1>3, <1>5, <2>1 DEF Task
  <2>3. stage' = "merge" => k' = 0 /\ k' \in Bin
    BY <1>3, <1>5, <2>1 DEF Bin
  <2>4. Stages'
    BY <1>5, <2>2, <2>3 DEF Stages
  <2>5. Through' = Through
    BY <1>1, <1>5, <2>3 DEF Through
  <2> QED BY <1>1, <2>4, <2>5, OthersKeep
<1> QED BY <1>2, <1>4, <1>5

\* A thread that is done has inserted its part.
LEMMA PartIsHeld ==
  ASSUME HashInv, stage # "insert", NEW t \in Task, NEW b \in Bin
  PROVE  Listed(bins[t][b], OfTask(t, b))
<1>1. /\ Listed(bins[t][b], HeldAt(t, b, cursor[t], hf[t])) /\ hf[t] = 0
      /\ StartPos(t) <= cursor[t] /\ cursor[t] >= EndPos(t)
      /\ cursor[t] <= EndPos(t) \/ cursor[t] = StartPos(t)
      /\ cursor[t] \in Nat
  BY DEF HashInv, Tables, Cursors, Typed
<1>2. StartPos(t) \in Nat /\ EndPos(t) \in Nat
  BY PartsAre
<1>3. ASSUME NEW x \in Of(b)
      PROVE  x \in HeldAt(t, b, cursor[t], 0) <=> x \in OfTask(t, b)
  <2>1. x.ele \in Nat /\ x.hf \in Nat
    BY AllAreEntries DEF Of, Entries, Ele, HF
  <2>2. /\ x \in HeldAt(t, b, cursor[t], 0)
             <=> StartPos(t) <= x.ele /\ (x.ele < cursor[t] \/ (x.ele = cursor[t] /\ x.hf < 0))
        /\ x \in OfTask(t, b) <=> StartPos(t) <= x.ele /\ x.ele < EndPos(t)
    BY DEF HeldAt, OfTask, InPart
  <2> QED BY <1>1, <1>2, <2>1, <2>2
<1>4. HeldAt(t, b, cursor[t], 0) \subseteq Of(b) /\ OfTask(t, b) \subseteq Of(b)
  BY DEF HeldAt, OfTask
<1>5. HeldAt(t, b, cursor[t], 0) = OfTask(t, b)
  BY <1>3, <1>4
<1> QED BY <1>1, <1>5

LEMMA MergeKeeps == ASSUME HashInv, Merge PROVE HashInv'
<1> DEFINE new == Gathered(k)
<1>1. /\ Typed /\ Cursors /\ Tables /\ stage = "merge" /\ k \in Bin
      /\ MergedTo(k, merged, nelesinbin, indexOf)
      /\ address \in Addresses /\ nelesinbin \in [Bin -> Nat] /\ indexOf \in [Pair -> Int]
  <2>1. stage = "merge"
    BY DEF Merge
  <2>2. Through = k
    BY <2>1 DEF Through
  <2> QED BY <2>1, <2>2 DEF HashInv, Stages, Typed
<1>2. /\ UNCHANGED <<address, bins, room, cursor, hf>>
      /\ merged' = merged \o new
      /\ nelesinbin' = [nelesinbin EXCEPT ![k] = Len(new)]
      /\ indexOf' = IndexWith(indexOf, Len(merged), new)
      /\ k' = (k + 1) % NumBins
      /\ stage' \in (IF k + 1 = NumBins THEN {"place", "interpolate"} ELSE {"merge"})
  BY DEF Merge, inserting, IndexWith
<1>3. Listed(new, Of(k)) /\ Len(new) \in Nat
  <2>1. \A t \in Task : Listed(bins[t][k], OfTask(t, k))
    BY <1>1, PartIsHeld
  <2>2. Listed(Gathered(k), Of(k))
    BY <1>1, <2>1, GatheredIs
  <2> QED BY <2>2, ListedIs
<1>4. Len(merged) \in Nat
  BY <1>1, ListedIs DEF MergedTo
<1> HIDE DEF new
<1>5. /\ nelesinbin' \in [Bin -> Nat] /\ nelesinbin'[k] = Len(new)
      /\ \A b \in Bin : b < k => nelesinbin'[b] = nelesinbin[b]
  <2>1. \A b \in Bin : b < k => b # k
    BY <1>1 DEF Bin
  <2> QED BY <1>1, <1>2, <1>3, <2>1
<1>6. indexOf' \in [Pair -> Int] /\ Indexed(k, indexOf, Len(merged), new, indexOf')
  BY <1>1, <1>2, <1>3, <1>4, IndexNext
<1>7. MergedTo(k + 1, merged', nelesinbin', indexOf')
  <2>1. Counted(k, nelesinbin, new, nelesinbin')
    BY <1>5 DEF Counted
  <2>2. MergedTo(k + 1, merged \o new, nelesinbin', indexOf')
    BY <1>1, <1>3, <1>5, <1>6, <2>1, MergeStep
  <2> QED BY <1>2, <2>2
<1>8. /\ NumBins \in Nat \ {0} /\ k \in 0 .. NumBins - 1
      /\ k' = IF k + 1 = NumBins THEN 0 ELSE k + 1
  BY <1>1, <1>2, Sizes, NextIndex DEF Bin
<1>9. /\ k + 1 = NumBins => stage' \in {"place", "interpolate"} /\ k' = 0
      /\ k + 1 # NumBins => stage' = "merge" /\ k' = k + 1
  BY <1>2, <1>8
<1>10. Through' = k + 1
  BY <1>9 DEF Through
<1>11. Stages'
  <2>1. k' \in Bin
    BY <1>8 DEF Bin
  <2>2. stage' \in {"place", "interpolate", "merge"}
    BY <1>9
  <2>3. stage' \in {"place", "interpolate"} => k' = 0 /\ 0 \in HF
    BY <1>9 DEF HF
  <2> QED BY <2>1, <2>2, <2>3 DEF Stages
<1>12. /\ \A s, X : Listed(s, X)' = Listed(s, X)
       /\ \A u, c, f, h : HeldAt(u, c, f, h)' = HeldAt(u, c, f, h)
       /\ \A n, m, nb, ix : MergedTo(n, m, nb, ix)' = MergedTo(n, m, nb, ix)
  BY <1>2, SameOrder
<1>13. Typed'
  BY <1>1, <1>2, <1>5, <1>6 DEF Typed
<1>14. Cursors'
  BY <1>1, <1>2 DEF Cursors
<1>15. Tables'
  <2> SUFFICES ASSUME NEW u \in Task, NEW c \in Bin
               PROVE  /\ Listed(bins'[u][c], HeldAt(u, c, cursor'[u], hf'[u]))
                      /\ Len(bins'[u][c]) < room'[u]
    BY <1>12 DEF Tables
  <2>1. Listed(bins[u][c], HeldAt(u, c, cursor[u], hf[u])) /\ Len(bins[u][c]) < room[u]
    BY <1>1 DEF Tables
  <2> QED BY <1>2, <2>1
<1>16. MergedTo(Through, merged, nelesinbin, indexOf)'
  BY <1>7, <1>10, <1>12
<1> QED BY <1>11, <1>13, <1>14, <1>15, <1>16 DEF HashInv

LEMMA PlaceKeeps == ASSUME HashInv, Place PROVE HashInv'
<1>1. /\ stage = "place" /\ k \in Bin /\ UNCHANGED <<address, inserting, merging>>
      /\ \A t \in Task : cursor[t] >= EndPos(t)
      /\ k' = (k + 1) % NumBins /\ stage' = IF k + 1 = NumBins THEN "sent" ELSE "place"
  BY DEF Place, HashInv, Stages, Cursors
<1>2. NumBins \in Nat \ {0} /\ k' = IF k + 1 = NumBins THEN 0 ELSE k + 1
  BY <1>1, Sizes, NextIndex DEF Bin
<1>3. k' \in Bin
  BY <1>1, <1>2 DEF Bin
<1>4. Stages'
  BY <1>1, <1>3 DEF Stages
<1>5. Through' = Through
  BY <1>1 DEF Through
<1> QED BY <1>1, <1>4, <1>5, OthersKeep

LEMMA BuildKeeps == ASSUME HashInv, NEW t \in PolyTask, Build(t) PROVE HashInv'
<1>1. /\ stage = "interpolate" /\ k' = k /\ k \in HF /\ UNCHANGED <<address, inserting, merging>>
      /\ \A u \in Task : cursor[u] >= EndPos(u)
  BY DEF Build, HashInv, Stages, Cursors
<1>2. stage' = "overfull" \/ stage' = stage
  BY DEF Build
<1>3. Stages'
  BY <1>1, <1>2 DEF Stages
<1>4. Through' = Through
  BY <1>1, <1>2 DEF Through
<1> QED BY <1>1, <1>3, <1>4, OthersKeep

LEMMA JoinBuildersKeeps == ASSUME HashInv, JoinBuilders PROVE HashInv'
<1>1. /\ stage = "interpolate" /\ k \in HF /\ UNCHANGED <<address, inserting, merging>>
      /\ \A u \in Task : cursor[u] >= EndPos(u)
      /\ k' = (k + 1) % Cardinality(HF)
      /\ stage' = IF k + 1 = Cardinality(HF) THEN "interpolated" ELSE "interpolate"
  BY DEF JoinBuilders, HashInv, Stages, Cursors
<1>2. k' \in HF
  BY <1>1, ThreeFunctions DEF HF
<1>3. Stages'
  BY <1>1, <1>2 DEF Stages
<1>4. Through' = Through
  BY <1>1 DEF Through
<1> QED BY <1>1, <1>3, <1>4, OthersKeep

LEMMA StutterKeeps == ASSUME HashInv, UNCHANGED shVars PROVE HashInv'
<1>1. UNCHANGED <<address, inserting, merging>> /\ UNCHANGED stage /\ UNCHANGED k
  BY DEF shVars
<1>2. Stages'
  BY <1>1 DEF HashInv, Stages
<1>3. Through' = Through
  BY <1>1 DEF Through
<1>4. stage' # "insert" => \A t \in Task : cursor[t] >= EndPos(t)
  BY <1>1 DEF HashInv, Cursors
<1> QED BY <1>1, <1>2, <1>3, <1>4, OthersKeep

\* What the threads have inserted, and what the main thread has merged, is the
\* sorted list of the entries it stands for, whatever the threads' order.
THEOREM HashInvariant == Spec => []HashInv
<1>1. Init => HashInv
  BY InitHash
<1>2. HashInv /\ [Next]_shVars => HashInv'
  <2> SUFFICES ASSUME HashInv, [Next]_shVars PROVE HashInv'
    OBVIOUS
  <2>1. ASSUME NEW t \in Task, Insert(t) PROVE HashInv'
    BY <2>1, InsertKeeps
  <2>2. CASE Join
    BY <2>2, JoinKeeps
  <2>3. CASE Copy
    BY <2>3, CopyKeeps
  <2>4. CASE Merge
    BY <2>4, MergeKeeps
  <2>5. CASE Place
    BY <2>5, PlaceKeeps
  <2>6. ASSUME NEW t \in PolyTask, Build(t) PROVE HashInv'
    BY <2>6, BuildKeeps
  <2>7. CASE JoinBuilders
    BY <2>7, JoinBuildersKeeps
  <2>8. CASE UNCHANGED shVars
    BY <2>8, StutterKeeps
  <2> QED BY <2>1, <2>2, <2>3, <2>4, <2>5, <2>6, <2>7, <2>8 DEF Next
<1> QED BY <1>1, <1>2, PTL DEF Spec

\* No thread writes past the room of a bin, though the room is doubled only
\* when the number of entries meets it (increase_max_bin_size).
THEOREM NeverPast == Spec => []NeverPastBin
<1>1. HashInv => NeverPastBin
  BY DEF HashInv, Tables, NeverPastBin
<1> QED BY <1>1, HashInvariant, PTL

-----------------------------------------------------------------------------
(***************************************************************************)
(* The merged table.                                                       *)
(***************************************************************************)
LEMMA EntriesNumber ==
  IsFiniteSet(AllEntries) /\ Cardinality(AllEntries) = NumEles * Cardinality(HF)
<1> DEFINE f == [p \in Pair |-> Entry(p[1], p[2], IsDummy(p[1], p[2]))]
<1>1. IsFiniteSet(Ele) /\ Cardinality(Ele) = NumEles
  <2>1. NumEles \in Nat \ {0} /\ 0 \in Int /\ NumEles - 1 \in Int
    BY Sizes
  <2>2. /\ IsFiniteSet(0 .. NumEles - 1)
        /\ Cardinality(0 .. NumEles - 1) = IF 0 > NumEles - 1 THEN 0 ELSE NumEles - 1 - 0 + 1
    BY <2>1, FS_Interval
  <2> QED BY <2>1, <2>2 DEF Ele
<1>2. IsFiniteSet(HF)
  <2>1. 0 \in Int /\ 2 \in Int
    OBVIOUS
  <2>2. IsFiniteSet(0 .. 2)
    BY <2>1, FS_Interval
  <2> QED BY <2>2 DEF HF
<1>3. IsFiniteSet(Pair) /\ Cardinality(Pair) = NumEles * Cardinality(HF)
  BY <1>1, <1>2, FS_Product DEF Pair
<1>4. f \in Bijection(Pair, AllEntries)
  <2>1. f \in [Pair -> AllEntries]
    BY DEF AllEntries
  <2>2. \A p \in Pair : f[p].ele = p[1] /\ f[p].hf = p[2] /\ p = <<p[1], p[2]>>
    BY DEF Entry, Pair
  <2>3. \A x \in AllEntries : \E p \in Pair : f[p] = x
    BY DEF AllEntries
  <2> HIDE DEF f
  <2>4. ASSUME NEW p \in Pair, NEW q \in Pair, f[p] = f[q] PROVE p = q
    <3>1. p[1] = q[1] /\ p[2] = q[2]
      BY <2>2, <2>4
    <3>2. p = <<p[1], p[2]>> /\ q = <<q[1], q[2]>>
      BY <2>2
    <3> QED BY <3>1, <3>2
  <2>5. f \in Injection(Pair, AllEntries)
    BY <2>1, <2>4 DEF Injection, IsInjective
  <2>6. f \in Surjection(Pair, AllEntries)
    BY <2>1, <2>3 DEF Surjection
  <2> QED BY <2>5, <2>6 DEF Bijection
<1>5. ExistsBijection(Pair, AllEntries)
  BY <1>4 DEF ExistsBijection
<1> QED BY <1>3, <1>5, FS_Bijection

Complete == Listed(merged, AllEntries) /\ SumTo(nelesinbin, NumBins) = Len(merged)

\* When the bins are merged they are the list of all entries.
LEMMA AllMerged ==
  ASSUME HashInv, stage \in {"place", "interpolate", "sent", "interpolated", "overfull"}
  PROVE  /\ MergedTo(NumBins, merged, nelesinbin, indexOf) /\ Complete
         /\ OfBins(NumBins) = AllEntries /\ address \in Addresses
<1>1. Through = NumBins
  BY DEF Through
<1>2. address \in Addresses /\ MergedTo(NumBins, merged, nelesinbin, indexOf)
  BY <1>1 DEF HashInv, Typed
<1>3. OfBins(NumBins) = AllEntries
  <2>1. NumBins \in Nat
    BY Sizes
  <2>2. ASSUME NEW x \in AllEntries PROVE address[x.ele][x.hf] < NumBins
    <3>1. address[x.ele][x.hf] \in Bin
      BY <1>2, AllAreEntries, BeforeIs
    <3> QED BY <2>1, <3>1 DEF Bin
  <2> QED BY <2>2 DEF OfBins
<1> QED BY <1>2, <1>3 DEF MergedTo, Complete

\* The hash table is in order, with every entry once, however the threads ran.
THEOREM ThreadsAgree == Spec => []ThreadsDoNotMatter
<1>1. ASSUME HashInv PROVE ThreadsDoNotMatter
  <2> SUFFICES ASSUME stage \in {"place", "interpolate", "sent", "interpolated"}
               PROVE  /\ Len(merged) = NumEles * Cardinality(HF)
                      /\ \A q, r \in DOMAIN merged : q < r => Before(merged[q], merged[r])
                      /\ \A b \in Bin : \A q \in Positions(b) :
                           address[merged[q].ele][merged[q].hf] = b
    BY DEF ThreadsDoNotMatter
  <2>1. /\ MergedTo(NumBins, merged, nelesinbin, indexOf) /\ Listed(merged, AllEntries)
        /\ address \in Addresses
    BY <1>1, AllMerged DEF Complete
  <2>2. Len(merged) = NumEles * Cardinality(HF)
    BY <2>1, AllAreEntries, ListedLength, EntriesNumber
  <2>3. \A q, r \in DOMAIN merged : q < r => Before(merged[q], merged[r])
    BY <2>1, ListedIs
  <2>4. ASSUME NEW b \in Bin, NEW q \in Positions(b)
        PROVE  address[merged[q].ele][merged[q].hf] = b
    <3>1. b < NumBins
      BY Sizes DEF Bin
    <3>2. q \in PositionsOf(nelesinbin, b)
      BY <2>4, PositionsAre
    <3> QED BY <2>1, <3>1, <3>2 DEF MergedTo
  <2> QED BY <2>2, <2>3, <2>4
<1> QED BY <1>1, HashInvariant, PTL

\* An element is not a dummy exactly once in every bin it hashes to, at its
\* lowest hash function to that bin.
THEOREM OnceInItsBins == Spec => []OneRealPerBin
<1>1. ASSUME HashInv PROVE OneRealPerBin
  <2> SUFFICES ASSUME stage = "sent", NEW e \in Ele, NEW b \in {address[e][j] : j \in HF}
               PROVE  \E q \in DOMAIN merged :
                        /\ merged[q].ele = e /\ address[e][merged[q].hf] = b /\ ~merged[q].dummy
                        /\ \A r \in DOMAIN merged :
                             merged[r].ele = e /\ address[e][merged[r].hf] = b /\ ~merged[r].dummy
                               => r = q
                        /\ \A j \in HF : j < merged[q].hf => address[e][j] # b
    BY DEF OneRealPerBin
  <2>1. Listed(merged, AllEntries) /\ address \in Addresses
    BY <1>1, AllMerged DEF Complete
  <2>2. /\ DOMAIN merged = 1 .. Len(merged)
        /\ \A r \in DOMAIN merged : merged[r] \in AllEntries
        /\ \A x \in AllEntries : \E r \in DOMAIN merged : merged[r] = x
        /\ \A q, r \in DOMAIN merged : merged[q] = merged[r] => q = r
    <3>1. /\ DOMAIN merged = 1 .. Len(merged)
          /\ \A r \in 1 .. Len(merged) : merged[r] \in AllEntries
          /\ \A x \in AllEntries : \E r \in 1 .. Len(merged) : merged[r] = x
      BY <2>1, ListedIs
    <3>2. \A q, r \in 1 .. Len(merged) : merged[q] = merged[r] => q = r
      BY <2>1, AllAreEntries, ListedOnce
    <3> QED BY <3>1, <3>2
  <2> DEFINE S == {j \in HF : address[e][j] = b}
  <2>3. PICK h \in S : \A j \in S : h <= j
    <3>1. S \subseteq Nat /\ S # {}
      BY DEF HF
    <3> HIDE DEF S
    <3> QED BY <3>1, LowestOf
  <2>4. h \in HF /\ address[e][h] = b /\ \A j \in HF : j < h => address[e][j] # b
    <3>1. \A j \in HF : j \in Int
      BY DEF HF
    <3> QED BY <2>3, <3>1
  <2> HIDE DEF S
  <2> DEFINE y == Entry(e, h, IsDummy(e, h))
  <2>5. y.ele = e /\ y.hf = h /\ y \in AllEntries /\ ~y.dummy
    <3>1. ~IsDummy(e, h)
      BY <2>4 DEF IsDummy
    <3>2. y \in AllEntries
      BY <2>4, OneEntry
    <3> QED BY <3>1, <3>2 DEF Entry
  <2> HIDE DEF y
  <2>6. PICK q \in DOMAIN merged : merged[q] = y
    BY <2>2, <2>5
  <2>7. ASSUME NEW r \in DOMAIN merged,
               merged[r].ele = e, address[e][merged[r].hf] = b, ~merged[r].dummy
        PROVE  r = q
    <3>1. merged[r] \in AllEntries
      BY <2>2
    <3>2. PICK p \in Pair : merged[r] = Entry(p[1], p[2], IsDummy(p[1], p[2]))
      BY <3>1 DEF AllEntries
    <3>3. p[1] = e /\ p[2] \in HF /\ merged[r].hf = p[2] /\ ~IsDummy(e, p[2])
      BY <2>7, <3>2 DEF Entry, Pair
    <3>4. ~(h < p[2]) /\ ~(p[2] < h)
      BY <2>4, <2>7, <3>3 DEF IsDummy
    <3>5. p[2] = h
      BY <2>4, <3>3, <3>4 DEF HF
    <3>6. merged[r] = y
      BY <2>5, <2>7, <3>1, <3>3, <3>5, OneEntry
    <3> QED BY <2>2, <2>6, <3>6
  <2> QED BY <2>4, <2>5, <2>6, <2>7
<1> QED BY <1>1, HashInvariant, PTL

-----------------------------------------------------------------------------
(***************************************************************************)
(* The slots.  The entries of a bin and a hash function get consecutive    *)
(* slots from the bin's first one on; as long as they are not too many     *)
(* they stay below the next bin's first slot, which no later bin reaches   *)
(* back behind.                                                            *)
(***************************************************************************)
MergedStages == {"place", "interpolate", "sent", "interpolated", "overfull"}

LEMMA EntriesOfBin ==
  ASSUME HashInv, stage \in MergedStages, NEW b \in Bin
  PROVE  /\ Positions(b) \subseteq 1 .. Len(merged) /\ Len(merged) \in Nat
         /\ IsFiniteSet(Positions(b))
         /\ \A q \in Positions(b) : /\ merged[q] \in AllEntries
                                    /\ merged[q].ele \in Ele /\ merged[q].hf \in HF
                                    /\ address[merged[q].ele][merged[q].hf] = b
         /\ \A q, r \in Positions(b) : merged[q] = merged[r] => q = r
<1>1. /\ MergedTo(NumBins, merged, nelesinbin, indexOf) /\ Complete /\ address \in Addresses
      /\ nelesinbin \in [Bin -> Nat]
  BY AllMerged DEF MergedStages, HashInv, Typed
<1>2. /\ Len(merged) \in Nat /\ DOMAIN merged = 1 .. Len(merged)
      /\ \A r \in 1 .. Len(merged) : merged[r] \in AllEntries
      /\ \A q, r \in 1 .. Len(merged) : merged[q] = merged[r] => q = r
  BY <1>1, AllAreEntries, ListedIs, ListedOnce DEF Complete
<1>3. NumBins \in Nat /\ NumBins \in 0 .. NumBins /\ b < NumBins
  BY Sizes DEF Bin
<1>4. /\ SumTo(nelesinbin, b) \in Nat /\ nelesinbin[b] \in Nat
      /\ SumTo(nelesinbin, b) + nelesinbin[b] <= Len(merged)
  BY <1>1, <1>3, SumsGrow DEF Complete
<1>5. Positions(b) = PositionsOf(nelesinbin, b)
  BY PositionsAre
<1>6. Positions(b) \subseteq 1 .. Len(merged)
  BY <1>2, <1>4, <1>5 DEF PositionsOf
<1>7. IsFiniteSet(Positions(b))
  <2>1. SumTo(nelesinbin, b) + 1 \in Int /\ SumTo(nelesinbin, b) + nelesinbin[b] \in Int
    BY <1>4
  <2> QED BY <1>5, <2>1, FS_Interval DEF PositionsOf
<1>8. \A q \in Positions(b) : address[merged[q].ele][merged[q].hf] = b
  BY <1>1, <1>3, <1>5 DEF MergedTo
<1>9. \A q \in Positions(b) : merged[q] \in AllEntries /\ merged[q].ele \in Ele /\ merged[q].hf \in HF
  BY <1>2, <1>6, AllAreEntries DEF Entries
<1> QED BY <1>2, <1>6, <1>7, <1>8, <1>9

\* Every place of the table is one of some bin.
LEMMA EveryPosition ==
  ASSUME HashInv, stage \in MergedStages, NEW q \in 1 .. Len(merged)
  PROVE  \E b \in Bin : q \in Positions(b)
<1> DEFINE S == {n \in 0 .. NumBins : q <= SumTo(nelesinbin, n)}
<1>1. /\ Complete /\ nelesinbin \in [Bin -> Nat] /\ NumBins \in Nat /\ Len(merged) \in Nat
  BY AllMerged, Sizes, ListedIs DEF MergedStages, HashInv, Typed, Complete
<1>2. NumBins \in S
  BY <1>1 DEF Complete
<1>3. PICK n \in S : \A m \in S : n <= m
  <2>1. S \subseteq Nat /\ S # {}
    BY <1>1, <1>2
  <2> HIDE DEF S
  <2> QED BY <2>1, LowestOf
<1>4. n # 0
  BY SumToIs, <1>3
<1> DEFINE b == n - 1
<1>5. b \in Bin /\ b \in 0 .. NumBins /\ b \notin S /\ b + 1 = n
  BY <1>1, <1>3, <1>4 DEF Bin
<1> HIDE DEF b
<1>6. /\ ~(q <= SumTo(nelesinbin, b)) /\ q <= SumTo(nelesinbin, b + 1)
      /\ SumTo(nelesinbin, b + 1) = SumTo(nelesinbin, b) + nelesinbin[b]
      /\ SumTo(nelesinbin, b) \in Nat /\ nelesinbin[b] \in Nat
  BY <1>1, <1>3, <1>5, SumToIs, SumsGrow
<1>7. q \in Positions(b)
  BY <1>6, PositionsAre DEF PositionsOf
<1> QED BY <1>5, <1>7

Earlier(b, q) == {r \in Positions(b) : r < q /\ merged[r].hf = merged[q].hf}

LEMMA CountersAre ==
  ASSUME HashInv, stage \in MergedStages, NEW b \in Bin, NEW q \in Positions(b)
  PROVE  /\ Counter(b, q) \in Nat
         /\ Loads(b, merged[q].hf) \in Nat /\ Counter(b, q) < Loads(b, merged[q].hf)
         /\ \A r \in Positions(b) :
              r < q /\ merged[r].hf = merged[q].hf => Counter(b, r) < Counter(b, q)
<1> DEFINE h == merged[q].hf
           T == {e \in Ele : address[e][h] = b}
           U == Earlier(b, q) \cup {q}
<1>1. /\ Positions(b) \subseteq Int /\ IsFiniteSet(Positions(b))
      /\ \A r \in Positions(b) : /\ merged[r] \in AllEntries /\ merged[r].ele \in Ele
                                 /\ address[merged[r].ele][merged[r].hf] = b
      /\ \A r, p \in Positions(b) : merged[r] = merged[p] => r = p
  BY EntriesOfBin
<1>2. \A r \in Positions(b) : Counter(b, r) = Cardinality(Earlier(b, r))
  BY DEF Counter, Earlier
<1>3. \A r \in Positions(b) : /\ IsFiniteSet(Earlier(b, r)) /\ Cardinality(Earlier(b, r)) \in Nat
                              /\ r \notin Earlier(b, r)
                              /\ Cardinality(Earlier(b, r) \cup {r}) = Cardinality(Earlier(b, r)) + 1
                              /\ IsFiniteSet(Earlier(b, r) \cup {r})
  <2> SUFFICES ASSUME NEW r \in Positions(b)
               PROVE  /\ IsFiniteSet(Earlier(b, r)) /\ Cardinality(Earlier(b, r)) \in Nat
                      /\ r \notin Earlier(b, r)
                      /\ Cardinality(Earlier(b, r) \cup {r}) = Cardinality(Earlier(b, r)) + 1
                      /\ IsFiniteSet(Earlier(b, r) \cup {r})
    OBVIOUS
  <2>1. Earlier(b, r) \in SUBSET Positions(b) /\ r \notin Earlier(b, r)
    BY <1>1 DEF Earlier
  <2>2. IsFiniteSet(Earlier(b, r))
    BY <1>1, <2>1, FS_Subset
  <2> QED BY <2>1, <2>2, FS_CardinalityType, FS_AddElement
<1>4. IsFiniteSet(T) /\ Cardinality(T) \in Nat /\ Loads(b, h) = Cardinality(T)
  <2>1. NumEles \in Nat /\ 0 \in Int /\ NumEles - 1 \in Int
    BY Sizes
  <2>2. IsFiniteSet(0 .. NumEles - 1)
    BY <2>1, FS_Interval
  <2>3. IsFiniteSet(Ele) /\ T \in SUBSET Ele
    BY <2>2 DEF Ele
  <2>4. IsFiniteSet(T)
    BY <2>3, FS_Subset
  <2> QED BY <2>4, FS_CardinalityType DEF Loads
<1>5. Cardinality(U) <= Cardinality(T)
  <2> DEFINE f == [r \in U |-> merged[r].ele]
  <2>1. \A r \in U : r \in Positions(b) /\ merged[r].hf = h
    BY DEF Earlier
  <2>2. \A r \in U : merged[r].ele \in T
    BY <1>1, <2>1
  <2>3. ASSUME NEW r \in U, NEW p \in U, merged[r].ele = merged[p].ele PROVE r = p
    <3>1. merged[r] \in AllEntries /\ merged[p] \in AllEntries /\ merged[r].hf = merged[p].hf
      BY <1>1, <2>1
    <3>2. merged[r] = merged[p]
      BY <2>3, <3>1, OneEntry
    <3> QED BY <1>1, <2>1, <3>2
  <2> HIDE DEF U, T
  <2>4. f \in [U -> T] /\ \A r \in U : f[r] = merged[r].ele
    BY <2>2
  <2> HIDE DEF f
  <2>5. f \in Injection(U, T)
    BY <2>3, <2>4 DEF Injection, IsInjective
  <2> QED BY <1>4, <2>5, FS_Injection
<1>6. Counter(b, q) \in Nat /\ Counter(b, q) + 1 <= Loads(b, h)
  BY <1>2, <1>3, <1>4, <1>5
<1>7. ASSUME NEW r \in Positions(b), r < q, merged[r].hf = merged[q].hf
      PROVE  Counter(b, r) < Counter(b, q)
  <2>1. Earlier(b, r) \cup {r} \in SUBSET Earlier(b, q)
    BY <1>1, <1>7 DEF Earlier
  <2>2. IsFiniteSet(Earlier(b, q))
    BY <1>3, Zenon
  <2>3. Cardinality(Earlier(b, r) \cup {r}) <= Cardinality(Earlier(b, q))
    BY <2>1, <2>2, FS_Subset, Zenon
  <2>4. /\ Cardinality(Earlier(b, r) \cup {r}) = Cardinality(Earlier(b, r)) + 1
        /\ Cardinality(Earlier(b, r)) \in Nat /\ Cardinality(Earlier(b, q)) \in Nat
    BY <1>3, Zenon
  <2>5. Cardinality(Earlier(b, r)) < Cardinality(Earlier(b, q))
    BY <2>3, <2>4
  <2> QED BY <1>2, <2>5, Zenon
<1> QED BY <1>4, <1>6, <1>7

LEMMA SlotsOfBin ==
  ASSUME HashInv, stage \in MergedStages, NEW b \in Bin, NEW q \in Positions(b)
  PROVE  /\ SlotOf(b, q) \in Nat /\ b * MaxBinSize \in Nat /\ b * MaxBinSize <= SlotOf(b, q)
         /\ Loads(b, merged[q].hf) <= MaxBinSize =>
              /\ SlotOf(b, q) < (b + 1) * MaxBinSize
              /\ SlotOf(b, q) \in Slot
              /\ \A c \in Bin : b < c => SlotOf(b, q) < c * MaxBinSize
<1>1. Counter(b, q) \in Nat /\ Loads(b, merged[q].hf) \in Nat
      /\ Counter(b, q) < Loads(b, merged[q].hf)
  BY CountersAre
<1>2. MaxBinSize \in Nat /\ NumBins \in Nat /\ \A c \in Bin : c \in Nat /\ c < NumBins
  BY Sizes DEF Bin
<1> DEFINE m == MaxBinSize
           i == Counter(b, q)
<1>3. SlotOf(b, q) = b * m + i /\ m \in Nat /\ i \in Nat /\ b \in Nat
  BY <1>1, <1>2 DEF SlotOf
<1>4. Loads(b, merged[q].hf) <= m => i < m
  BY <1>1, <1>2
<1> HIDE DEF m, i
<1>5. b * m \in Nat /\ (b + 1) * m = b * m + m
  BY <1>3
<1>6. \A c \in Nat : b < c => (b + 1) * m <= c * m /\ c * m \in Nat
  <2> SUFFICES ASSUME NEW c \in Nat, b < c PROVE (b + 1) * m <= c * m /\ c * m \in Nat
    OBVIOUS
  <2>1. b + 1 <= c /\ b + 1 \in Nat
    BY <1>3
  <2> QED BY <1>3, <2>1
<1>7. i < m => b * m + i < (b + 1) * m /\ \A c \in Nat : b < c => b * m + i < c * m
  BY <1>3, <1>5, <1>6
<1>8. i < m => b * m + i \in 0 .. NumBins * m - 1
  BY <1>2, <1>3, <1>5, <1>6, <1>7
<1> QED BY <1>2, <1>3, <1>4, <1>5, <1>7, <1>8 DEF Slot, m

\* The bins before n are in the slots sl, but for what belongs to an overfull bin.
InSlots(n, sl) ==
  \A b \in Bin : b < n => \A q \in Positions(b) :
    Loads(b, merged[q].hf) <= MaxBinSize => sl[merged[q].hf][SlotOf(b, q)] = merged[q]

SlotInv ==
  stage \in {"place", "sent"} => InSlots(IF stage = "place" THEN k ELSE NumBins, slots)

LEMMA SameSlots ==
  ASSUME UNCHANGED <<address, merging>>
  PROVE  \A n, sl : InSlots(n, sl)' = InSlots(n, sl)
<1>1. UNCHANGED <<address, merged, nelesinbin>>
  BY DEF merging
<1>2. \A b : Positions(b)' = Positions(b)
  BY <1>1 DEF Positions, Progress
<1>3. \A b, q : SlotOf(b, q)' = SlotOf(b, q)
  BY <1>1, <1>2 DEF SlotOf, Counter
<1>4. \A b, h : Loads(b, h)' = Loads(b, h)
  BY <1>1 DEF Loads
<1> QED BY <1>1, <1>2, <1>3, <1>4 DEF InSlots

LEMMA PlaceFills == ASSUME HashInv, SlotInv, Place PROVE SlotInv'
<1>1. /\ stage = "place" /\ stage \in MergedStages /\ k \in Bin /\ InSlots(k, slots)
      /\ slots' = [h \in HF |-> [s \in Slot |->
           LET mine == {q \in Positions(k) : merged[q].hf = h /\ SlotOf(k, q) = s}
           IN  IF mine = {} THEN slots[h][s] ELSE merged[CHOOSE q \in mine : TRUE]]]
      /\ UNCHANGED <<address, merging>>
      /\ k' = (k + 1) % NumBins /\ stage' = IF k + 1 = NumBins THEN "sent" ELSE "place"
  BY DEF Place, HashInv, Stages, SlotInv, MergedStages
<1>2. /\ NumBins \in Nat \ {0} /\ k' = IF k + 1 = NumBins THEN 0 ELSE k + 1
      /\ \A b \in Bin : b \in Nat
  BY <1>1, Sizes, NextIndex DEF Bin
<1> DEFINE mine(h, s) == {q \in Positions(k) : merged[q].hf = h /\ SlotOf(k, q) = s}
<1>3. \A h \in HF, s \in Slot :
        slots'[h][s] = IF mine(h, s) = {} THEN slots[h][s] ELSE merged[CHOOSE q \in mine(h, s) : TRUE]
  BY <1>1
<1>4. ASSUME NEW b \in Bin, b < k + 1, NEW q \in Positions(b), Loads(b, merged[q].hf) <= MaxBinSize
      PROVE  slots'[merged[q].hf][SlotOf(b, q)] = merged[q]
  <2> DEFINE h == merged[q].hf
             s == SlotOf(b, q)
  <2>1. h \in HF /\ s \in Slot /\ s \in Nat
    BY <1>1, <1>4, EntriesOfBin, SlotsOfBin
  <2>2. CASE b < k
    <3>1. s < k * MaxBinSize
      BY <1>1, <1>4, <2>2, SlotsOfBin
    <3>2. ASSUME NEW r \in mine(h, s) PROVE FALSE
      <4>1. k * MaxBinSize \in Nat /\ k * MaxBinSize <= s
        BY <1>1, <3>2, SlotsOfBin
      <4> QED BY <2>1, <3>1, <4>1
    <3>3. slots[h][s] = merged[q]
      BY <1>1, <1>4, <2>2 DEF InSlots
    <3> QED BY <1>3, <2>1, <3>2, <3>3
  <2>3. CASE b = k
    <3>1. q \in mine(h, s)
      BY <2>3, <1>4
    <3>2. ASSUME NEW r \in mine(h, s) PROVE r = q
      <4>1. /\ r \in Positions(b) /\ merged[r].hf = merged[q].hf
            /\ SlotOf(b, r) = SlotOf(b, q)
        BY <2>3, <3>2
      <4>2. /\ Counter(b, r) \in Nat /\ Counter(b, q) \in Nat
            /\ r < q => Counter(b, r) < Counter(b, q)
            /\ q < r => Counter(b, q) < Counter(b, r)
            /\ r \in Int /\ q \in Int
        BY <1>1, <4>1, CountersAre, EntriesOfBin
      <4>3. b * MaxBinSize \in Nat /\ Counter(b, r) = Counter(b, q)
        BY <1>1, <4>1, <4>2, SlotsOfBin DEF SlotOf
      <4> QED BY <4>2, <4>3
    <3> DEFINE p == CHOOSE r \in mine(h, s) : TRUE
    <3>3. p \in mine(h, s)
      BY <3>1, Zenon
    <3>4. p = q
      BY <3>2, <3>3, Zenon
    <3> HIDE DEF mine, h, s
    <3>5. slots'[h][s] = merged[p]
      BY <1>3, <2>1, <3>1, Zenon
    <3> HIDE DEF p
    <3> QED BY <3>4, <3>5 DEF h, s
  <2>4. b < k \/ b = k
    BY <1>1, <1>2, <1>4
  <2> QED BY <2>2, <2>3, <2>4
<1>5. InSlots(k + 1, slots')
  BY <1>4 DEF InSlots
<1> QED BY <1>1, <1>2, <1>5, SameSlots DEF SlotInv

\* The masks are where the leader looks for them.
LEMMA AllInSlots ==
  ASSUME HashInv, SlotInv, stage = "sent" PROVE SpillHarmsNobodyElse
<1> SUFFICES ASSUME NEW e \in Ele, NEW j \in HF, Loads(address[e][j], j) <= MaxBinSize
             PROVE  Findable(e, j)
  BY DEF SpillHarmsNobodyElse
<1> DEFINE b == address[e][j]
<1>1. /\ InSlots(NumBins, slots) /\ Complete /\ address \in Addresses
      /\ stage \in MergedStages
  BY AllMerged DEF SlotInv, MergedStages
<1>2. PICK x \in AllEntries : x.ele = e /\ x.hf = j
  <2>1. Entry(e, j, IsDummy(e, j)) \in AllEntries
    BY OneEntry
  <2> QED BY <2>1 DEF Entry
<1>3. PICK q \in 1 .. Len(merged) : merged[q] = x
  BY <1>1, ListedIs DEF Complete
<1>4. PICK c \in Bin : q \in Positions(c)
  BY <1>1, EveryPosition
<1>5. c = b
  BY <1>1, <1>2, <1>3, <1>4, EntriesOfBin
<1>6. /\ b \in Bin /\ b < NumBins /\ q \in Positions(b) /\ merged[q].hf = j /\ merged[q].ele = e
  BY <1>2, <1>3, <1>4, <1>5, Sizes DEF Bin
<1>7. slots[j][SlotOf(b, q)] = x
  BY <1>1, <1>3, <1>6 DEF InSlots
<1>8. SlotOf(b, q) \in b * MaxBinSize .. (b + 1) * MaxBinSize - 1
  <2> HIDE DEF b
  <2>1. /\ SlotOf(b, q) \in Nat /\ b * MaxBinSize \in Nat /\ b * MaxBinSize <= SlotOf(b, q)
        /\ Loads(b, merged[q].hf) <= MaxBinSize => SlotOf(b, q) < (b + 1) * MaxBinSize
    BY <1>1, <1>6, SlotsOfBin
  <2>2. (b + 1) * MaxBinSize \in Nat
    BY <1>6, Sizes DEF Bin
  <2> QED BY <1>6, <2>1, <2>2 DEF b
<1> HIDE DEF b
<1>9. x \in Searched(b, j)
  BY <1>7, <1>8 DEF Searched
<1> QED BY <1>2, <1>9 DEF Findable, b

LEMMA OtherSlotSteps ==
  ASSUME HashInv, SlotInv, [Next]_shVars, ~Place PROVE SlotInv'
<1>1. CASE stage' = "sent" /\ stage # "sent"
  BY <1>1 DEF Next, Insert, Join, Copy, Merge, Build, JoinBuilders, shVars
<1>2. CASE stage' = "place" /\ stage # "place"
  <2>1. Merge
    BY <1>2 DEF Next, Insert, Join, Copy, Merge, Build, JoinBuilders, shVars
  <2>2. k \in Bin /\ k' = (k + 1) % NumBins /\ k + 1 = NumBins
    BY <1>2, <2>1 DEF Merge, HashInv, Stages
  <2>3. k' = 0
    BY <2>2, Sizes, NextIndex DEF Bin
  <2>4. \A n \in Bin : ~(n < 0)
    BY DEF Bin
  <2>5. InSlots(k, slots)'
    BY <2>3, <2>4 DEF InSlots
  <2> QED BY <1>2, <2>5 DEF SlotInv
<1>3. CASE stage \in {"place", "sent"} /\ stage' = stage
  <2>1. UNCHANGED <<address, merging>> /\ k' = k /\ slots' = slots
    BY <1>3 DEF Next, Insert, Join, Copy, Merge, Build, JoinBuilders, shVars, placing
  <2> QED BY <1>3, <2>1, SameSlots DEF SlotInv
<1>4. CASE stage' \notin {"place", "sent"}
  BY <1>4 DEF SlotInv
<1> QED BY <1>1, <1>2, <1>3, <1>4

\* What spills out of an overfull bin leaves the masks of all other bins in
\* the slots the leader searches.
THEOREM SpillIsHarmless == Spec => []SpillHarmsNobodyElse
<1>1. Init => SlotInv
  BY DEF Init, SlotInv
<1>2. HashInv /\ SlotInv /\ [Next]_shVars => SlotInv'
  BY PlaceFills, OtherSlotSteps
<1>3. HashInv /\ SlotInv => SpillHarmsNobodyElse
  <2>1. stage # "sent" => SpillHarmsNobodyElse
    BY DEF SpillHarmsNobodyElse
  <2> QED BY <2>1, AllInSlots
<1> QED BY <1>1, <1>2, <1>3, HashInvariant, PTL DEF Spec

-----------------------------------------------------------------------------
(***************************************************************************)
(* The polynomials.  The threads of buildPolynomials count the entries of  *)
(* the bins before their own: they arrive where nelesinbin says the bin    *)
(* starts, and together they build every bin's polynomial, in order.       *)
(***************************************************************************)
LEMMA FirstBins ==
  /\ PolyTasks \in Nat \ {0} /\ StartBin(0) = 0 /\ StartBin(PolyTasks) = NumBins
  /\ \A t \in PolyTask : /\ t \in Nat /\ EndBin(t) = StartBin(t + 1)
                         /\ StartBin(t) \in Nat /\ StartBin(t + 1) \in Nat
                         /\ StartBin(t) <= StartBin(t + 1) /\ StartBin(t + 1) <= NumBins
<1> DEFINE P == PolyTasks
           N == NumBins
<1>1. P \in Nat \ {0} /\ N \in Nat \ {0}
  BY Sizes DEF PolyTasks, Minimum
<1>2. \A a \in Nat : a \div P \in Nat /\ P * (a \div P) <= a /\ a < P * (a \div P) + P
  <2> SUFFICES ASSUME NEW a \in Nat
               PROVE  a \div P \in Nat /\ P * (a \div P) <= a /\ a < P * (a \div P) + P
    OBVIOUS
  <2> HIDE DEF P
  <2> QED BY <1>1
<1>3. \A t : StartBin(t) = (t * N) \div P /\ EndBin(t) = ((t + 1) * N) \div P
  BY DEF StartBin, EndBin
<1>4. PolyTask = 0 .. P - 1
  BY DEF PolyTask
<1> HIDE DEF P, N
<1>5. StartBin(0) = 0
  BY <1>1, <1>3
<1>6. StartBin(P) = N
  <2> DEFINE d == (P * N) \div P
  <2>1. P * N \in Nat
    BY <1>1
  <2>2. d \in Nat /\ P * d <= P * N /\ P * N < P * d + P
    BY <1>2, <2>1
  <2> HIDE DEF d
  <2>3. ~(d < N)
    <3>1. SUFFICES ASSUME d + 1 <= N PROVE FALSE
      BY <1>1, <2>2
    <3>2. P * (d + 1) <= P * N /\ P * (d + 1) = P * d + P
      BY <1>1, <2>2, <3>1
    <3> QED BY <1>1, <2>1, <2>2, <3>2
  <2>4. ~(N < d)
    <3>1. SUFFICES ASSUME N + 1 <= d PROVE FALSE
      BY <1>1, <2>2
    <3>2. P * (N + 1) <= P * d /\ P * (N + 1) = P * N + P
      BY <1>1, <2>2, <3>1
    <3> QED BY <1>1, <2>1, <2>2, <3>2
  <2> QED BY <1>1, <1>3, <2>2, <2>3, <2>4 DEF d
<1>7. ASSUME NEW t \in PolyTask
      PROVE  /\ t \in Nat /\ EndBin(t) = StartBin(t + 1)
             /\ StartBin(t) \in Nat /\ StartBin(t + 1) \in Nat
             /\ StartBin(t) <= StartBin(t + 1) /\ StartBin(t + 1) <= N
  <2> DEFINE a == t * N
             c == (t + 1) * N
             d == a \div P
             g == c \div P
  <2>1. t \in Nat /\ t + 1 <= P
    BY <1>1, <1>4
  <2>2. a \in Nat /\ c \in Nat /\ c = a + N
    BY <1>1, <2>1
  <2>3. c <= P * N
    BY <1>1, <2>1
  <2>4. /\ d \in Nat /\ P * d <= a /\ a < P * d + P
        /\ g \in Nat /\ P * g <= c /\ c < P * g + P
    BY <1>2, <2>2
  <2>5. StartBin(t) = d /\ StartBin(t + 1) = g /\ EndBin(t) = g
    BY <1>3
  <2> HIDE DEF d, g, a, c
  <2>6. ~(g < d)
    <3>1. SUFFICES ASSUME g + 1 <= d PROVE FALSE
      BY <2>4
    <3>2. P * (g + 1) <= P * d /\ P * (g + 1) = P * g + P
      BY <1>1, <2>4, <3>1
    <3> QED BY <1>1, <2>2, <2>4, <3>2
  <2>7. ~(N < g)
    <3>1. SUFFICES ASSUME N + 1 <= g PROVE FALSE
      BY <1>1, <2>4
    <3>2. P * (N + 1) <= P * g /\ P * (N + 1) = P * N + P
      BY <1>1, <2>4, <3>1
    <3>3. P * N \in Nat
      BY <1>1
    <3> QED BY <1>1, <2>2, <2>3, <2>4, <3>2, <3>3
  <2> QED BY <1>1, <2>1, <2>4, <2>5, <2>6, <2>7
<1> QED BY <1>1, <1>5, <1>6, <1>7 DEF P, N

\* The recursion of ElementIndex.
LEMMA ElementIndexIs ==
  ASSUME nelesinbin \in [Bin -> Nat], NEW t \in PolyTask
  PROVE  ElementIndex(t) = Progress(StartBin(t))
<1> DEFINE Rec(f) == f = [u \in 0 .. t |->
             IF u = 0 THEN 0 ELSE f[u - 1] + Progress(EndBin(u - 1)) - Progress(StartBin(u - 1))]
           Q(u) == Progress(StartBin(u))
           g == [u \in 0 .. t |-> Q(u)]
           f == CHOOSE f : Rec(f)
<1>1. /\ t \in Nat /\ NumBins \in Nat
      /\ \A u \in 0 .. t : u \in PolyTask
  BY FirstBins, Sizes DEF PolyTask
<1>2. Q(0) = 0
  BY FirstBins, ProgressIsSum, SumToIs
<1>3. \A u \in 0 .. t : Q(u) \in Nat
  <2> SUFFICES ASSUME NEW u \in 0 .. t PROVE Q(u) \in Nat
    OBVIOUS
  <2>1. StartBin(u) \in 0 .. NumBins
    BY <1>1, FirstBins
  <2> QED BY <2>1, ProgressIsSum, SumsGrow
<1>4. \A u \in 0 .. t : u # 0 => u - 1 \in 0 .. t /\ EndBin(u - 1) = StartBin(u)
  <2> SUFFICES ASSUME NEW u \in 0 .. t, u # 0
               PROVE  u - 1 \in 0 .. t /\ EndBin(u - 1) = StartBin(u)
    OBVIOUS
  <2>1. u - 1 \in 0 .. t /\ u - 1 + 1 = u
    BY <1>1
  <2>2. u - 1 \in PolyTask
    BY <1>1, <2>1
  <2>3. EndBin(u - 1) = StartBin(u - 1 + 1)
    BY <2>2, FirstBins
  <2> QED BY <2>1, <2>3
<1>5. ElementIndex(t) = f[t]
  BY DEF ElementIndex
<1> HIDE DEF Q
<1>6. \A u \in 0 .. t : u # 0 =>
        Q(u - 1) + Progress(EndBin(u - 1)) - Progress(StartBin(u - 1)) = Q(u)
  <2> SUFFICES ASSUME NEW u \in 0 .. t, u # 0
               PROVE  Q(u - 1) + Progress(EndBin(u - 1)) - Progress(StartBin(u - 1)) = Q(u)
    OBVIOUS
  <2>1. /\ Progress(EndBin(u - 1)) = Q(u) /\ Progress(StartBin(u - 1)) = Q(u - 1)
        /\ Q(u) \in Nat /\ Q(u - 1) \in Nat
    BY <1>3, <1>4 DEF Q
  <2> QED BY <2>1
<1>7. Rec(g)
  <2>1. \A u \in 0 .. t : g[u] = IF u = 0 THEN 0
           ELSE g[u - 1] + Progress(EndBin(u - 1)) - Progress(StartBin(u - 1))
    BY <1>2, <1>4, <1>6
  <2>2. g = [u \in 0 .. t |-> g[u]]
    OBVIOUS
  <2> HIDE DEF g
  <2> QED BY <2>1, <2>2
<1>8. Rec(f)
  BY <1>7
<1> HIDE DEF f, g
<1>9. \A u \in 0 .. t : f[u] = IF u = 0 THEN 0
        ELSE f[u - 1] + Progress(EndBin(u - 1)) - Progress(StartBin(u - 1))
  BY <1>8
<1> DEFINE S == {u \in 0 .. t : f[u] # Q(u)}
<1>10. S = {}
  <2>1. SUFFICES ASSUME S # {} PROVE FALSE
    OBVIOUS
  <2>2. PICK u \in S : \A v \in S : u <= v
    <3>1. S \subseteq Nat
      BY <1>1
    <3> HIDE DEF S
    <3> QED BY <2>1, <3>1, LowestOf
  <2>3. u \in 0 .. t /\ f[u] # Q(u) /\ u # 0
    BY <1>1, <1>2, <1>9, <2>2
  <2>4. u - 1 \in 0 .. t /\ u - 1 \notin S
    BY <1>1, <2>2, <2>3
  <2>5. f[u - 1] = Q(u - 1)
    BY <2>4
  <2>6. f[u] = f[u - 1] + Progress(EndBin(u - 1)) - Progress(StartBin(u - 1))
    BY <1>9, <2>3
  <2> QED BY <1>6, <2>3, <2>5, <2>6
<1>11. f[t] = Q(t)
  BY <1>1, <1>10
<1> QED BY <1>5, <1>11 DEF Q

\* The polynomial of bin b and hash function h.
Answer(h, b) ==
  {[ele |-> e, mask |-> indexOf[<<e, h>>]] : e \in {x \in Ele : address[x][h] = b}}

\* Where the index says an entry is.
LEMMA IndexIs ==
  ASSUME HashInv, stage \in MergedStages, NEW b \in Bin, NEW q \in Positions(b)
  PROVE  indexOf[<<merged[q].ele, merged[q].hf>>] = q - 1
<1>1. /\ MergedTo(NumBins, merged, nelesinbin, indexOf) /\ OfBins(NumBins) = AllEntries
      /\ Listed(merged, AllEntries) /\ address \in Addresses /\ indexOf \in [Pair -> Int]
  BY AllMerged DEF MergedStages, Complete, HashInv, Typed
<1> DEFINE x == merged[q]
           r == indexOf[<<x.ele, x.hf>>]
<1>2. q \in 1 .. Len(merged) /\ Len(merged) \in Nat /\ x \in AllEntries
  BY EntriesOfBin
<1>3. r + 1 \in 1 .. Len(merged) /\ merged[r + 1] = x
  BY <1>1, <1>2 DEF MergedTo
<1>4. r \in Int
  BY <1>1, <1>2, OneEntry
<1> HIDE DEF r
<1>5. r + 1 = q
  BY <1>1, <1>2, <1>3, AllAreEntries, ListedOnce
<1>6. r = q - 1
  BY <1>2, <1>4, <1>5
<1> QED BY <1>6 DEF r

LEMMA PointsAre ==
  ASSUME HashInv, stage = "interpolate", NEW t \in PolyTask, NEW b \in Bin
  PROVE  Points(t, b) = Answer(k, b)
<1>1. stage \in MergedStages /\ nelesinbin \in [Bin -> Nat] /\ k \in HF /\ address \in Addresses
  BY DEF HashInv, Typed, Stages, MergedStages
<1> DEFINE mine == {r \in Positions(b) : merged[r].hf = k}
<1>2. Points(t, b) = {[ele |-> merged[q].ele, mask |-> q - 1] : q \in mine}
  <2>1. ElementIndex(t) = Progress(StartBin(t))
    BY <1>1, ElementIndexIs
  <2>2. StartBin(t) \in 0 .. NumBins /\ b \in 0 .. NumBins
    BY FirstBins, Sizes DEF Bin
  <2>3. Progress(StartBin(t)) \in Nat /\ Progress(b) \in Nat
    BY <1>1, <2>2, ProgressIsSum, SumsGrow
  <2>4. ElementIndex(t) + Progress(b) - Progress(StartBin(t)) = Progress(b)
    BY <2>1, <2>3
  <2> QED BY <2>4 DEF Points, Positions
<1>3. ASSUME NEW q \in mine
      PROVE  /\ merged[q].ele \in Ele /\ address[merged[q].ele][k] = b
             /\ indexOf[<<merged[q].ele, k>>] = q - 1
  BY <1>1, EntriesOfBin, IndexIs
<1>4. ASSUME NEW e \in Ele, address[e][k] = b PROVE \E q \in mine : merged[q].ele = e
  <2>1. PICK x \in AllEntries : x.ele = e /\ x.hf = k
    <3>1. Entry(e, k, IsDummy(e, k)) \in AllEntries
      BY <1>1, OneEntry
    <3> QED BY <3>1 DEF Entry
  <2>2. PICK q \in 1 .. Len(merged) : merged[q] = x
    BY <1>1, AllMerged, ListedIs DEF Complete, MergedStages
  <2>3. PICK c \in Bin : q \in Positions(c)
    BY <1>1, EveryPosition
  <2>4. c = b
    BY <1>1, <1>4, <2>1, <2>2, <2>3, EntriesOfBin
  <2> QED BY <2>1, <2>2, <2>3, <2>4
<1> HIDE DEF mine
<1>5. Points(t, b) \subseteq Answer(k, b)
  <2> SUFFICES ASSUME NEW q \in mine
               PROVE  [ele |-> merged[q].ele, mask |-> q - 1] \in Answer(k, b)
    BY <1>2
  <2> QED BY <1>3 DEF Answer
<1>6. Answer(k, b) \subseteq Points(t, b)
  <2> SUFFICES ASSUME NEW e \in Ele, address[e][k] = b
               PROVE  [ele |-> e, mask |-> indexOf[<<e, k>>]] \in Points(t, b)
    BY DEF Answer
  <2>1. PICK q \in mine : merged[q].ele = e
    BY <1>4
  <2>2. indexOf[<<e, k>>] = q - 1
    BY <1>3, <2>1
  <2> QED BY <1>2, <2>1, <2>2
<1> QED BY <1>5, <1>6

\* Its points are as many as the entries of the bin.
LEMMA AnswerSize ==
  ASSUME NEW h, NEW b
  PROVE  Cardinality(Answer(h, b)) \in Nat /\ Loads(b, h) \in Nat
         /\ Cardinality(Answer(h, b)) <= Loads(b, h)
<1> DEFINE T == {x \in Ele : address[x][h] = b}
           f == [e \in T |-> [ele |-> e, mask |-> indexOf[<<e, h>>]]]
<1>1. IsFiniteSet(T) /\ Loads(b, h) = Cardinality(T)
  <2>1. NumEles \in Nat /\ 0 \in Int /\ NumEles - 1 \in Int
    BY Sizes
  <2>2. IsFiniteSet(0 .. NumEles - 1)
    BY <2>1, FS_Interval
  <2>3. IsFiniteSet(Ele) /\ T \in SUBSET Ele
    BY <2>2 DEF Ele
  <2> QED BY <2>3, FS_Subset DEF Loads
<1>2. f \in Surjection(T, Answer(h, b))
  <2>1. f \in [T -> Answer(h, b)] /\ \A x \in Answer(h, b) : \E e \in T : f[e] = x
    BY DEF Answer
  <2> HIDE DEF f, T
  <2> QED BY <2>1 DEF Surjection
<1> HIDE DEF T, f
<1>3. IsFiniteSet(Answer(h, b)) /\ Cardinality(Answer(h, b)) <= Cardinality(T)
  BY <1>1, <1>2, FS_Surjection
<1> QED BY <1>1, <1>3, FS_CardinalityType

\* The i-th polynomial of all, and the list of the first n.
Polynomial(i) == Answer((i - 1) \div NumBins, (i - 1) % NumBins)
Prefix(n) == [i \in 1 .. n |-> Polynomial(i)]

LEMMA PolynomialIs ==
  ASSUME NEW h \in Nat, NEW b \in Bin
  PROVE  Polynomial(h * NumBins + b + 1) = Answer(h, b)
<1> DEFINE N == NumBins
           a == h * N + b
           d == a \div N
           r == a % N
<1>1. N \in Nat \ {0} /\ b \in Nat /\ b < N /\ h \in Nat /\ h * N \in Nat /\ a \in Nat
  BY Sizes DEF Bin
<1>2. d \in Nat /\ r \in Nat /\ r < N /\ a = N * d + r
  <2> HIDE DEF a
  <2>1. N \in Nat \ {0} /\ a \in Nat
    BY <1>1
  <2> HIDE DEF N
  <2> QED BY <2>1
<1>3. a = N * h + b
  BY <1>1
<1> HIDE DEF d, r
<1>4. Polynomial(a + 1) = Answer(d, r)
  <2> DEFINE c == a + 1
  <2> HIDE DEF a
  <2>1. c - 1 = a
    BY <1>1
  <2> HIDE DEF c
  <2>2. Polynomial(c) = Answer((c - 1) \div NumBins, (c - 1) % NumBins)
    BY Zenon DEF Polynomial
  <2>3. Polynomial(c) = Answer(d, r)
    BY <2>1, <2>2 DEF d, r
  <2> QED BY <2>3 DEF c
<1> HIDE DEF a, N
<1>5. ~(d < h)
  <2>1. SUFFICES ASSUME d + 1 <= h PROVE FALSE
    BY <1>1, <1>2
  <2>2. N * (d + 1) <= N * h /\ N * (d + 1) = N * d + N
    BY <1>1, <1>2, <2>1
  <2>3. N * h \in Nat /\ N * d \in Nat
    BY <1>1, <1>2
  <2> QED BY <1>1, <1>2, <1>3, <2>2, <2>3
<1>6. ~(h < d)
  <2>1. SUFFICES ASSUME h + 1 <= d PROVE FALSE
    BY <1>1, <1>2
  <2>2. N * (h + 1) <= N * d /\ N * (h + 1) = N * h + N
    BY <1>1, <1>2, <2>1
  <2>3. N * h \in Nat /\ N * d \in Nat
    BY <1>1, <1>2
  <2> QED BY <1>1, <1>2, <1>3, <2>2, <2>3
<1>7. d = h
  BY <1>1, <1>2, <1>5, <1>6
<1>8. r = b
  <2>1. N * h \in Nat
    BY <1>1
  <2> QED BY <1>1, <1>2, <1>3, <1>7, <2>1
<1> QED BY <1>4, <1>7, <1>8 DEF a, N

LEMMA PrefixIs ==
  ASSUME NEW n \in Nat
  PROVE  /\ Prefix(n) \in Seq({Polynomial(i) : i \in Nat}) /\ Len(Prefix(n)) = n
         /\ \A i \in 1 .. n : Prefix(n)[i] = Polynomial(i)
<1> DEFINE S == {Polynomial(i) : i \in Nat}
<1>1. \A i \in 1 .. n : Polynomial(i) \in S
  OBVIOUS
<1> HIDE DEF S
<1>2. Prefix(n) \in [1 .. n -> S] /\ \A i \in 1 .. n : Prefix(n)[i] = Polynomial(i)
  BY <1>1 DEF Prefix
<1>3. Prefix(n) \in Seq(S) /\ Len(Prefix(n)) = n
  BY <1>2
<1> QED BY <1>2, <1>3 DEF S

\* A stretch of polynomials behind the ones before it.
LEMMA PrefixGrows ==
  ASSUME NEW n \in Nat, NEW m \in Nat, NEW z, z = [i \in 1 .. m |-> Polynomial(n + i)]
  PROVE  Prefix(n) \o z = Prefix(n + m)
<1> DEFINE S == {Polynomial(i) : i \in Nat}
           w == Prefix(n) \o z
<1>1. Prefix(n) \in Seq(S) /\ Len(Prefix(n)) = n /\ \A i \in 1 .. n : Prefix(n)[i] = Polynomial(i)
  BY PrefixIs
<1>2. /\ Prefix(n + m) \in Seq(S) /\ Len(Prefix(n + m)) = n + m
      /\ \A i \in 1 .. n + m : Prefix(n + m)[i] = Polynomial(i)
  <2> DEFINE l == n + m
  <2>1. l \in Nat
    OBVIOUS
  <2> HIDE DEF l, S
  <2>2. /\ Prefix(l) \in Seq(S) /\ Len(Prefix(l)) = l
        /\ \A i \in 1 .. l : Prefix(l)[i] = Polynomial(i)
    BY <2>1, PrefixIs DEF S
  <2> QED BY <2>2 DEF l
<1>3. z \in Seq(S) /\ Len(z) = m /\ \A i \in 1 .. m : z[i] = Polynomial(n + i)
  <2>1. \A i \in 1 .. m : Polynomial(n + i) \in S
    OBVIOUS
  <2> HIDE DEF S
  <2>2. z \in [1 .. m -> S] /\ \A i \in 1 .. m : z[i] = Polynomial(n + i)
    BY <2>1
  <2> QED BY <2>2
<1> HIDE DEF S
<1>4. /\ w \in Seq(S) /\ Len(w) = n + m
      /\ \A i \in 1 .. n + m : w[i] = IF i <= n THEN Prefix(n)[i] ELSE z[i - n]
  <2> DEFINE p == Prefix(n)
  <2>1. p \in Seq(S) /\ z \in Seq(S) /\ Len(p) = n /\ Len(z) = m
    BY <1>1, <1>3
  <2> HIDE DEF p
  <2>2. /\ p \o z \in Seq(S) /\ Len(p \o z) = Len(p) + Len(z)
        /\ \A i \in 1 .. Len(p) + Len(z) :
             (p \o z)[i] = IF i <= Len(p) THEN p[i] ELSE z[i - Len(p)]
    BY <2>1, ConcatProperties
  <2> QED BY <2>1, <2>2 DEF p
<1> HIDE DEF w
<1>5. ASSUME NEW i \in 1 .. n + m PROVE w[i] = Prefix(n + m)[i]
  <2>1. CASE i <= n
    <3>1. i \in 1 .. n
      BY <2>1
    <3> QED BY <1>1, <1>2, <1>4, <2>1, <3>1
  <2>2. CASE ~(i <= n)
    <3>1. i - n \in 1 .. m /\ n + (i - n) = i
      BY <2>2
    <3>2. z[i - n] = Polynomial(n + (i - n))
      BY <1>3, <3>1
    <3> QED BY <1>2, <1>4, <2>2, <3>1, <3>2
  <2> QED BY <2>1, <2>2
<1>6. w = Prefix(n + m)
  BY <1>2, <1>4, <1>5, SeqEqual
<1> QED BY <1>6 DEF w

\* What thread t builds for hash function h.
Part(h, t) == [i \in 1 .. EndBin(t) - StartBin(t) |-> Answer(h, StartBin(t) + i - 1)]

LEMMA PartGrows ==
  ASSUME NEW h \in Nat, NEW t \in PolyTask
  PROVE  Prefix(h * NumBins + StartBin(t)) \o Part(h, t) = Prefix(h * NumBins + StartBin(t + 1))
<1> DEFINE n == h * NumBins + StartBin(t)
           m == StartBin(t + 1) - StartBin(t)
<1>1. /\ EndBin(t) = StartBin(t + 1) /\ StartBin(t) \in Nat /\ StartBin(t + 1) \in Nat
      /\ StartBin(t) <= StartBin(t + 1) /\ StartBin(t + 1) <= NumBins
      /\ NumBins \in Nat /\ h * NumBins \in Nat
  BY FirstBins, Sizes
<1>2. n \in Nat /\ m \in Nat /\ n + m = h * NumBins + StartBin(t + 1)
  BY <1>1
<1>3. ASSUME NEW i \in 1 .. m PROVE Answer(h, StartBin(t) + i - 1) = Polynomial(n + i)
  <2> DEFINE b == StartBin(t) + i - 1
  <2>1. b \in Bin /\ h * NumBins + b + 1 = n + i
    BY <1>1, <1>2 DEF Bin
  <2> HIDE DEF b, n
  <2>2. Polynomial(h * NumBins + b + 1) = Answer(h, b)
    BY <2>1, PolynomialIs
  <2> QED BY <2>1, <2>2 DEF b
<1>4. Part(h, t) = [i \in 1 .. m |-> Polynomial(n + i)]
  BY <1>1, <1>3 DEF Part
<1> HIDE DEF n, m
<1>5. Prefix(n) \o Part(h, t) = Prefix(n + m)
  BY <1>2, <1>4, PrefixGrows
<1> QED BY <1>2, <1>5 DEF n

PolyInv ==
  /\ built = [t \in PolyTask |-> built[t]]
  /\ stage \in {"insert", "copy", "merge"} =>
       polynomials = <<>> /\ \A t \in PolyTask : built[t] = <<>>
  /\ stage = "interpolate" =>
       polynomials = Prefix(k * NumBins) /\ \A t \in PolyTask : built[t] \in {<<>>, Part(k, t)}
  /\ stage = "interpolated" => polynomials = Prefix(Cardinality(HF) * NumBins)
  /\ stage = "overfull" => \E h \in HF : \E b \in reported : Loads(b, h) > MaxBinSize

LEMMA SamePolynomials ==
  ASSUME UNCHANGED <<address, merging>>
  PROVE  /\ \A h, b : Answer(h, b)' = Answer(h, b)
         /\ \A n : Prefix(n)' = Prefix(n)
         /\ \A h, t : Part(h, t)' = Part(h, t)
         /\ \A b, h : Loads(b, h)' = Loads(b, h)
<1>1. \A h, b : Answer(h, b)' = Answer(h, b)
  BY DEF Answer, merging
<1>2. \A n : Prefix(n)' = Prefix(n)
  BY <1>1 DEF Prefix, Polynomial
<1>3. \A h, t : Part(h, t)' = Part(h, t)
  BY <1>1 DEF Part
<1> QED BY <1>1, <1>2, <1>3 DEF Loads

LEMMA BuildBuilds == ASSUME HashInv, PolyInv, NEW t \in PolyTask, Build(t) PROVE PolyInv'
<1> DEFINE part == [i \in 1 .. EndBin(t) - StartBin(t) |-> Points(t, StartBin(t) + i - 1)]
           over == {i \in DOMAIN part : Cardinality(part[i]) > MaxBinSize}
<1>1. /\ stage = "interpolate" /\ k \in HF /\ k' = k /\ UNCHANGED <<address, merging, polynomials>>
      /\ IF over # {}
         THEN /\ stage' = "overfull"
              /\ reported' = {StartBin(t) + i - 1 : i \in {j \in over : \A l \in over : j <= l}}
              /\ UNCHANGED built
         ELSE /\ built' = [built EXCEPT ![t] = part]
              /\ UNCHANGED <<stage, reported>>
  BY DEF Build, HashInv, Stages
<1>2. /\ EndBin(t) = StartBin(t + 1) /\ StartBin(t) \in Nat /\ StartBin(t + 1) \in Nat
      /\ StartBin(t) <= StartBin(t + 1) /\ StartBin(t + 1) <= NumBins /\ NumBins \in Nat
  BY FirstBins, Sizes
<1>3. \A i \in 1 .. EndBin(t) - StartBin(t) :
        /\ StartBin(t) + i - 1 \in Bin
        /\ Points(t, StartBin(t) + i - 1) = Answer(k, StartBin(t) + i - 1)
  <2> SUFFICES ASSUME NEW i \in 1 .. EndBin(t) - StartBin(t)
               PROVE  /\ StartBin(t) + i - 1 \in Bin
                      /\ Points(t, StartBin(t) + i - 1) = Answer(k, StartBin(t) + i - 1)
    OBVIOUS
  <2> DEFINE b == StartBin(t) + i - 1
  <2>1. b \in Bin
    BY <1>2 DEF Bin
  <2> HIDE DEF b
  <2>2. Points(t, b) = Answer(k, b)
    BY <1>1, <2>1, PointsAre
  <2> QED BY <2>1, <2>2 DEF b
<1>4. part = Part(k, t) /\ DOMAIN part = 1 .. EndBin(t) - StartBin(t)
  BY <1>3 DEF Part
<1>5. /\ \A n : Prefix(n)' = Prefix(n)
      /\ \A h, u : Part(h, u)' = Part(h, u)
      /\ \A b, h : Loads(b, h)' = Loads(b, h)
  BY <1>1, SamePolynomials
<1>6. CASE over # {}
  <2>1. PICK i \in over : \A l \in over : i <= l
    <3>1. over \subseteq Nat
      BY <1>4
    <3> HIDE DEF over
    <3> QED BY <1>6, <3>1, LowestOf
  <2> DEFINE b == StartBin(t) + i - 1
  <2>2. b \in reported'
    BY <1>1, <1>6, <2>1
  <2>3. Cardinality(Answer(k, b)) > MaxBinSize
    BY <1>3, <1>4, <2>1
  <2> HIDE DEF b
  <2>4. Loads(b, k) > MaxBinSize
    BY <2>3, AnswerSize, Sizes
  <2>5. stage' = "overfull" /\ built' = built
    BY <1>1, <1>6
  <2> HIDE DEF over, part
  <2> QED BY <1>1, <1>5, <2>2, <2>4, <2>5 DEF PolyInv
<1>7. CASE over = {}
  <2>1. stage' = stage /\ built' = [built EXCEPT ![t] = Part(k, t)]
    BY <1>1, <1>4, <1>7
  <2> HIDE DEF over, part
  <2>2. built' = [u \in PolyTask |-> built'[u]]
    BY <2>1 DEF PolyInv
  <2>3. \A u \in PolyTask : built'[u] \in {<<>>, Part(k, u)}
    BY <1>1, <2>1 DEF PolyInv
  <2>4. polynomials' = Prefix(k * NumBins)
    BY <1>1 DEF PolyInv
  <2> QED BY <1>1, <1>5, <2>1, <2>2, <2>3, <2>4 DEF PolyInv
<1> QED BY <1>6, <1>7

\* The threads' polynomials joined.
LEMMA BuildersJoin ==
  ASSUME HashInv, PolyInv, JoinBuilders
  PROVE  polynomials' = Prefix((k + 1) * NumBins)
<1> DEFINE Rec(f) == f = [t \in -1 .. PolyTasks - 1 |->
                            IF t = -1 THEN polynomials ELSE f[t - 1] \o built[t]]
           P(t) == Prefix(k * NumBins + StartBin(t + 1))
           g == [t \in -1 .. PolyTasks - 1 |-> P(t)]
           f == CHOOSE f : Rec(f)
<1>1. /\ stage = "interpolate" /\ k \in HF /\ k \in Nat
      /\ \A t \in PolyTask : built[t] = Part(k, t)
      /\ polynomials = Prefix(k * NumBins)
  BY DEF JoinBuilders, PolyInv, HashInv, Stages, HF
<1>2. polynomials' = f[PolyTasks - 1]
  BY DEF JoinBuilders
<1>3. /\ PolyTasks \in Nat \ {0} /\ k * NumBins \in Nat
      /\ k * NumBins + 0 = k * NumBins /\ k * NumBins + NumBins = (k + 1) * NumBins
  BY <1>1, FirstBins, Sizes
<1>4. P(-1) = polynomials
  BY <1>1, <1>3, FirstBins
<1>5. ASSUME NEW t \in -1 .. PolyTasks - 1, t # -1 PROVE P(t - 1) \o built[t] = P(t)
  <2>1. t \in PolyTask /\ t - 1 + 1 = t
    BY <1>3, <1>5 DEF PolyTask
  <2>2. Prefix(k * NumBins + StartBin(t)) \o Part(k, t) = Prefix(k * NumBins + StartBin(t + 1))
    BY <1>1, <2>1, PartGrows
  <2> QED BY <1>1, <2>1, <2>2
<1>6. P(PolyTasks - 1) = Prefix((k + 1) * NumBins)
  <2>1. PolyTasks - 1 + 1 = PolyTasks
    BY <1>3
  <2> QED BY <1>3, <2>1, FirstBins
<1> HIDE DEF P
<1>7. Rec(g)
  <2>1. ASSUME NEW t \in -1 .. PolyTasks - 1
        PROVE  g[t] = IF t = -1 THEN polynomials ELSE g[t - 1] \o built[t]
    <3>1. t # -1 => t - 1 \in -1 .. PolyTasks - 1
      BY <1>3
    <3> QED BY <1>4, <1>5, <3>1
  <2>2. g = [t \in -1 .. PolyTasks - 1 |-> g[t]]
    OBVIOUS
  <2> HIDE DEF g
  <2> QED BY <2>1, <2>2
<1>8. Rec(f)
  BY <1>7
<1> HIDE DEF f, g
<1>9. \A t \in -1 .. PolyTasks - 1 : f[t] = IF t = -1 THEN polynomials ELSE f[t - 1] \o built[t]
  BY <1>8
<1> DEFINE S == {n \in 0 .. PolyTasks : f[n - 1] # P(n - 1)}
<1>10. S = {}
  <2>1. SUFFICES ASSUME S # {} PROVE FALSE
    OBVIOUS
  <2>2. PICK n \in S : \A m \in S : n <= m
    <3>1. S \subseteq Nat
      BY <1>3
    <3> HIDE DEF S
    <3> QED BY <2>1, <3>1, LowestOf
  <2> DEFINE t == n - 1
  <2>3. n \in 0 .. PolyTasks /\ t \in -1 .. PolyTasks - 1 /\ f[t] # P(t) /\ (n # 0 => t # -1)
    BY <1>3, <2>2
  <2>4. n # 0
    BY <1>4, <1>9, <2>2, <2>3
  <2>5. t \in 0 .. PolyTasks /\ t < n
    BY <1>3, <2>3, <2>4
  <2>6. f[t - 1] = P(t - 1)
    BY <2>2, <2>5
  <2> HIDE DEF t
  <2>7. f[t] = f[t - 1] \o built[t]
    BY <1>9, <2>3, <2>4
  <2> QED BY <1>5, <2>3, <2>4, <2>6, <2>7
<1>11. f[PolyTasks - 1] = P(PolyTasks - 1)
  <2>1. \A n \in 0 .. PolyTasks : f[n - 1] = P(n - 1)
    BY <1>10
  <2>2. PolyTasks \in 0 .. PolyTasks
    BY <1>3
  <2> QED BY <2>1, <2>2
<1> QED BY <1>2, <1>6, <1>11

LEMMA JoinBuildersJoins == ASSUME HashInv, PolyInv, JoinBuilders PROVE PolyInv'
<1>1. /\ stage = "interpolate" /\ k \in {0, 1, 2} /\ UNCHANGED <<address, merging>>
      /\ built' = [t \in PolyTask |-> <<>>]
      /\ k' = (k + 1) % Cardinality(HF)
      /\ stage' = IF k + 1 = Cardinality(HF) THEN "interpolated" ELSE "interpolate"
  BY DEF JoinBuilders, HashInv, Stages, HF
<1>2. Cardinality(HF) = 3 /\ k' = IF k = 2 THEN 0 ELSE k + 1
  BY <1>1, ThreeFunctions DEF HF
<1>3. polynomials' = Prefix((k + 1) * NumBins)
  BY BuildersJoin
<1>4. \A n : Prefix(n)' = Prefix(n)
  BY <1>1, SamePolynomials
<1>5. stage' = "interpolate" => k' = k + 1
  BY <1>1, <1>2
<1>6. stage' = "interpolated" => k + 1 = Cardinality(HF)
  BY <1>1, <1>2
<1>7. stage' = "interpolate" => polynomials' = Prefix(k' * NumBins)
  BY <1>3, <1>5
<1>8. stage' = "interpolated" => polynomials' = Prefix(Cardinality(HF) * NumBins)
  BY <1>3, <1>6
<1>9. stage' \in {"interpolate", "interpolated"}
  BY <1>1
<1> QED BY <1>1, <1>4, <1>7, <1>8, <1>9 DEF PolyInv

LEMMA OtherPolySteps ==
  ASSUME HashInv, PolyInv, [Next]_shVars, ~JoinBuilders, \A t \in PolyTask : ~Build(t)
  PROVE  PolyInv'
<1>1. /\ UNCHANGED interpolating
      /\ \/ stage' \in {"insert", "copy", "merge"} /\ stage \in {"insert", "copy", "merge"}
         \/ stage' = "dead" \/ stage' \in {"place", "sent"}
         \/ Merge /\ stage = "merge" /\ stage' = "interpolate"
         \/ UNCHANGED shVars
  <2>1. ASSUME NEW t \in Task, Insert(t)
        PROVE  /\ UNCHANGED interpolating
               /\ stage' \in {"insert", "copy", "merge"} /\ stage \in {"insert", "copy", "merge"}
    BY <2>1 DEF Insert
  <2>2. CASE Join
    BY <2>2 DEF Join
  <2>3. CASE Copy
    BY <2>3 DEF Copy
  <2>4. CASE Merge
    BY <2>4 DEF Merge
  <2>5. CASE Place
    BY <2>5 DEF Place
  <2>6. CASE UNCHANGED shVars
    BY <2>6 DEF shVars
  <2> QED BY <2>1, <2>2, <2>3, <2>4, <2>5, <2>6 DEF Next
<1>2. built' = built /\ polynomials' = polynomials
  BY <1>1 DEF interpolating
<1>3. CASE stage' \in {"insert", "copy", "merge"} /\ stage \in {"insert", "copy", "merge"}
  BY <1>2, <1>3 DEF PolyInv
<1>4. CASE stage' = "dead" \/ stage' \in {"place", "sent"}
  BY <1>2, <1>4 DEF PolyInv
<1>5. CASE Merge /\ stage = "merge" /\ stage' = "interpolate"
  <2>1. k \in Bin /\ k' = (k + 1) % NumBins /\ k + 1 = NumBins
    BY <1>5 DEF Merge, HashInv, Stages
  <2>2. k' = 0
    BY <2>1, Sizes, NextIndex DEF Bin
  <2>3. k' * NumBins = 0
    BY <2>2, Sizes
  <2>4. Prefix(0)' = <<>>
    BY DEF Prefix
  <2> QED BY <1>2, <1>5, <2>3, <2>4 DEF PolyInv
<1>6. CASE UNCHANGED shVars
  <2>1. UNCHANGED <<address, merging>> /\ k' = k /\ stage' = stage /\ reported' = reported
    BY <1>6 DEF shVars, placing
  <2>2. /\ \A n : Prefix(n)' = Prefix(n)
        /\ \A h, u : Part(h, u)' = Part(h, u)
        /\ \A b, h : Loads(b, h)' = Loads(b, h)
    BY <2>1, SamePolynomials
  <2> QED BY <1>2, <2>1, <2>2 DEF PolyInv
<1> QED BY <1>1, <1>3, <1>4, <1>5, <1>6

\* Every polynomial the leader may evaluate goes through the elements of its
\* bin and the masks the other index table finds for them, and nothing else;
\* only an overfull bin ends the process.
THEOREM PolynomialsAreRight == Spec => []PolynomialsAnswer
<1>1. Init => PolyInv
  BY DEF Init, PolyInv
<1>2. HashInv /\ PolyInv /\ [Next]_shVars => PolyInv'
  BY BuildBuilds, JoinBuildersJoins, OtherPolySteps
<1>3. PolyInv => PolynomialsAnswer
  <2> SUFFICES ASSUME PolyInv PROVE PolynomialsAnswer
    OBVIOUS
  <2>1. ASSUME stage = "interpolated"
        PROVE  /\ Len(polynomials) = Cardinality(HF) * NumBins
               /\ \A h \in HF, b \in Bin : polynomials[h * NumBins + b + 1] = Answer(h, b)
    <3>1. polynomials = Prefix(Cardinality(HF) * NumBins)
      BY <2>1 DEF PolyInv
    <3>2. Cardinality(HF) * NumBins \in Nat /\ NumBins \in Nat /\ Cardinality(HF) = 3
      BY ThreeFunctions, Sizes
    <3>3. ASSUME NEW h \in HF, NEW b \in Bin
          PROVE  h * NumBins + b + 1 \in 1 .. Cardinality(HF) * NumBins /\ h \in Nat
      BY <3>2 DEF HF, Bin
    <3> QED BY <3>1, <3>2, <3>3, PrefixIs, PolynomialIs
  <2> QED BY <2>1 DEF PolynomialsAnswer, PolyInv, Answer
<1> QED BY <1>1, <1>2, <1>3, HashInvariant, PTL DEF Spec
=============================================================================
