--------------------------- MODULE KissnerProofs ---------------------------
(***************************************************************************)
(* Proofs about Kissner for every number of parties, leader, size of the   *)
(* sets and capacity of the connections.                                   *)
(*                                                                         *)
(* What one party says to another is a script whose parts have fixed       *)
(* lengths: parameters, a share, a polynomial, the ring's coefficients, a  *)
(* key, and ciphertexts or their answers.  Where a party is in its program *)
(* says how much of each part it has said and read; what lies on a         *)
(* connection is the rest, in the order of the script.  Only the           *)
(* ciphertexts a follower has read cannot be told from where it is (it     *)
(* waits for the first as for the second), so the invariant claims that    *)
(* such numbers exist.                                                     *)
(***************************************************************************)
EXTENDS Kissner, FiniteSetTheorems, SequenceTheorems, TLAPS

-----------------------------------------------------------------------------
(***************************************************************************)
(* Loops over the other parties.                                           *)
(***************************************************************************)

\* The positions of party q in the two kinds of loops of party p.
At(p, q) == IF q < p THEN q ELSE q - 1
CycAt(p, q) == IF q > p THEN q - p ELSE q - p + N

LEMMA Sizes ==
  /\ N \in Nat /\ N >= 2 /\ Leader \in Party /\ SetSize \in Nat /\ SetSize >= 1
  /\ Degree \in Nat /\ Degree = 2 * SetSize
  /\ \A p \in Party : p \in Nat /\ 1 <= p /\ p <= N
  /\ \A p \in Nat : 1 <= p /\ p <= N => p \in Party
BY KissnerSizes DEF Party, Degree

LEMMA OtherAt ==
  ASSUME NEW p \in Party, NEW i \in 1 .. N - 1
  PROVE  Other(p, i) \in Party /\ Other(p, i) # p /\ At(p, Other(p, i)) = i
<1>1. i \in Nat /\ 1 <= i /\ i <= N - 1
  BY Sizes
<1>. QED BY <1>1, Sizes DEF Other, At

LEMMA AtOther ==
  ASSUME NEW p \in Party, NEW q \in Party, p # q
  PROVE  At(p, q) \in 1 .. N - 1 /\ Other(p, At(p, q)) = q
BY Sizes DEF Other, At

LEMMA SmallMod ==
  ASSUME NEW n \in Nat, n >= 1, NEW a \in Nat, a < n
  PROVE  a % n = a /\ (a + n) % n = a
OBVIOUS

LEMMA CyclicIs ==
  ASSUME NEW p \in Party, NEW i \in 1 .. N - 1
  PROVE  Cyclic(p, i) = IF p + i <= N THEN p + i ELSE p + i - N
<1>1. p \in Nat /\ i \in Nat /\ 1 <= p /\ p <= N /\ 1 <= i /\ i <= N - 1 /\ N \in Nat
  BY Sizes
<1>2. CASE p + i <= N
  <2>1. p + i - 1 \in Nat /\ p + i - 1 < N /\ N >= 1
    BY <1>1, <1>2
  <2>2. (p + i - 1) % N = p + i - 1
    BY <1>1, <2>1, SmallMod
  <2>. QED BY <1>1, <1>2, <2>2 DEF Cyclic
<1>3. CASE ~(p + i <= N)
  <2>1. p + i - 1 - N \in Nat /\ p + i - 1 - N < N /\ N >= 1 /\ p + i - 1 = (p + i - 1 - N) + N
    BY <1>1, <1>3
  <2>2. (p + i - 1) % N = p + i - 1 - N
    BY <1>1, <2>1, SmallMod
  <2>. QED BY <1>1, <1>3, <2>2 DEF Cyclic
<1>. QED BY <1>2, <1>3

LEMMA CyclicAt ==
  ASSUME NEW p \in Party, NEW i \in 1 .. N - 1
  PROVE  Cyclic(p, i) \in Party /\ Cyclic(p, i) # p /\ CycAt(p, Cyclic(p, i)) = i
<1>1. i \in Nat /\ 1 <= i /\ i <= N - 1
  BY Sizes
<1>. QED BY <1>1, Sizes, CyclicIs DEF CycAt

LEMMA AtCyclic ==
  ASSUME NEW p \in Party, NEW q \in Party, p # q
  PROVE  CycAt(p, q) \in 1 .. N - 1 /\ Cyclic(p, CycAt(p, q)) = q
<1>1. CycAt(p, q) \in 1 .. N - 1
  BY Sizes DEF CycAt
<1>. QED BY <1>1, Sizes, CyclicIs DEF CycAt

\* The ring.
LEMMA Neighbours ==
  ASSUME NEW p \in Party
  PROVE  /\ Following(p) = (IF p = N THEN 1 ELSE p + 1)
         /\ Following(p) \in Party /\ Following(p) # p
         /\ Previous(p) \in Party /\ Previous(p) # p
         /\ Following(Previous(p)) = p /\ Previous(Following(p)) = p
<1>1. ASSUME NEW r \in Party PROVE Following(r) = IF r = N THEN 1 ELSE r + 1
  <2>1. r \in Nat /\ 1 <= r /\ r <= N /\ N \in Nat /\ N >= 2
    BY Sizes
  <2>2. CASE r = N
    <3>1. (0 + N) % N = 0
      BY <2>1, SmallMod
    <3>. QED BY <2>1, <2>2, <3>1 DEF Following
  <2>3. CASE r # N
    <3>1. r % N = r
      BY <2>1, <2>3, SmallMod
    <3>. QED BY <2>1, <2>3, <3>1 DEF Following
  <2>. QED BY <2>2, <2>3
<1>2. Previous(p) \in Party /\ Previous(p) # p /\ (Previous(p) = IF p = 1 THEN N ELSE p - 1)
  BY Sizes DEF Previous
<1>3. Following(p) \in Party /\ Following(p) # p
  BY <1>1, Sizes
<1>4. Following(Previous(p)) = p
  BY <1>1, <1>2, Sizes
<1>5. Previous(Following(p)) = p
  BY <1>1, <1>3, Sizes DEF Previous
<1>. QED BY <1>1, <1>2, <1>3, <1>4, <1>5

-----------------------------------------------------------------------------
(***************************************************************************)
(* The script of p to q.                                                   *)
(***************************************************************************)
PolyLen == SetSize + 1
RingLen == Degree + 1

\* Where its parts end.
EndParams(p) == IF p = Leader THEN 1 ELSE 0
EndShare(p) == EndParams(p) + 1
EndPoly(p, q) == EndShare(p) + IF p < q THEN PolyLen ELSE 0
EndRing(p, q) == EndPoly(p, q) + IF q = Following(p) THEN RingLen ELSE 0
EndKey(p, q) == EndRing(p, q) + IF p # Leader /\ q = Leader THEN 1 ELSE 0

\* The parties whose polynomials are in the sum that p passes on.
Upto(p) == {x \in Party : IF Leader <= p THEN Leader <= x /\ x <= p ELSE Leader <= x \/ x <= p}
RingBody(p) == {s \in Party \X Party : s[1] \in Upto(p) /\ s[2] <= s[1]}

Item(p, q, k) ==
  CASE k <= EndParams(p) -> Number("params", 0, {})
    [] EndParams(p) < k /\ k <= EndShare(p) -> Number("share", 0, {p})
    [] EndShare(p) < k /\ k <= EndPoly(p, q) -> Number("poly", k - EndShare(p) - 1, {p})
    [] EndPoly(p, q) < k /\ k <= EndRing(p, q) ->
         Number("ring", k - EndPoly(p, q) - 1, RingBody(p))
    [] EndRing(p, q) < k /\ k <= EndKey(p, q) -> Number("key", 0, {p})
    [] OTHER -> IF p = Leader
                THEN Number("cipher", k - EndKey(p, q) - 1, RingBody(Previous(p)))
                ELSE Number("answer", k - EndKey(p, q) - 1, {p})

-----------------------------------------------------------------------------
(***************************************************************************)
(* Where a party is: its phase ph, turn t, coefficient c, the number l of  *)
(* coefficients it has from the ring and the number n of ciphertexts it    *)
(* has read.                                                               *)
(***************************************************************************)
Phases == {"params", "shareSend", "shareReceive", "poly", "ringSend", "ringReceive", "key",
           "keys", "ask", "collect", "cipher", "decrypt", "done"}

\* The phases in the order of each party's program.
Pos(p, ph) ==
  CASE ph = "params" -> 0
    [] ph = "shareSend" -> 1
    [] ph = "shareReceive" -> 2
    [] ph = "poly" -> 3
    [] ph = "ringSend" -> IF p = Leader THEN 4 ELSE 5
    [] ph = "ringReceive" -> IF p = Leader THEN 5 ELSE 4
    [] ph \in {"key", "keys"} -> 6
    [] ph \in {"ask", "collect", "cipher", "decrypt"} -> 7
    [] OTHER -> 8

Place(p, ph, t, c, l, n) ==
  /\ ph \in Phases /\ t \in 1 .. N - 1 /\ c \in Nat /\ l \in Nat /\ n \in Nat
  /\ p = Leader => ph \notin {"key", "cipher", "decrypt"}
  /\ p # Leader => ph \notin {"keys", "ask", "collect"}
  /\ ph = "params" /\ p # Leader => t = 1
  /\ ph \in {"ringSend", "ringReceive", "key", "cipher", "decrypt", "done"} => t = 1
  /\ ph \in {"params", "shareSend", "shareReceive", "key", "keys"} => c = 0
  /\ ph = "poly" => c <= SetSize
  /\ ph \in {"ringSend", "ringReceive", "ask", "collect", "cipher", "decrypt"} => c <= Degree
  /\ l = IF ph = "ringReceive" THEN c
         ELSE IF Pos(p, ph) > (IF p = Leader THEN 5 ELSE 4) THEN RingLen ELSE 0
  /\ p = Leader \/ Pos(p, ph) < 7 => n = 0
  /\ ph = "cipher" => n <= Degree /\ (n = 0 => c = 0) /\ (n # 0 => n = c + 1)
  /\ ph = "decrypt" => n = c + 1
  /\ ph = "done" /\ p # Leader => n = RingLen

\* What it has exchanged of its polynomials with q, in either direction.
PolyCount(p, q, ph, t, c) ==
  CASE Pos(p, ph) < 3 -> 0
    [] Pos(p, ph) > 3 -> PolyLen
    [] OTHER -> IF CycAt(p, q) < t THEN PolyLen ELSE IF CycAt(p, q) = t THEN c ELSE 0

\* What it has said to q of every part of the script ...
SaidParams(p, q, ph, t) == IF p = Leader /\ (ph # "params" \/ At(p, q) < t) THEN 1 ELSE 0
SaidShare(p, q, ph, t) ==
  IF Pos(p, ph) > 1 \/ (ph = "shareSend" /\ At(p, q) < t) THEN 1 ELSE 0
SaidPoly(p, q, ph, t, c) == IF p < q THEN PolyCount(p, q, ph, t, c) ELSE 0
SaidRing(p, q, ph, c) ==
  IF q # Following(p) THEN 0
  ELSE IF ph = "ringSend" THEN c
       ELSE IF Pos(p, ph) > (IF p = Leader THEN 4 ELSE 5) THEN RingLen ELSE 0
SaidKey(p, q, ph) == IF p # Leader /\ q = Leader /\ Pos(p, ph) > 6 THEN 1 ELSE 0
SaidRest(p, q, ph, t, c, n) ==
  IF p = Leader
  THEN CASE ph = "ask" -> c + (IF At(p, q) < t THEN 1 ELSE 0)
         [] ph = "collect" -> c + 1
         [] ph = "done" -> RingLen
         [] OTHER -> 0
  ELSE IF q = Leader THEN IF ph = "decrypt" THEN n - 1 ELSE n ELSE 0

Said(p, q, ph, t, c, n) ==
  SaidParams(p, q, ph, t) + SaidShare(p, q, ph, t) + SaidPoly(p, q, ph, t, c)
    + SaidRing(p, q, ph, c) + SaidKey(p, q, ph) + SaidRest(p, q, ph, t, c, n)

\* ... and what it has read of q's.
HeardParams(p, q, ph) == IF q = Leader /\ ph # "params" THEN 1 ELSE 0
HeardShare(p, q, ph, t) ==
  IF Pos(p, ph) > 2 \/ (ph = "shareReceive" /\ At(p, q) < t) THEN 1 ELSE 0
HeardPoly(p, q, ph, t, c) == IF q < p THEN PolyCount(p, q, ph, t, c) ELSE 0
HeardRing(p, q, l) == IF q = Previous(p) THEN l ELSE 0
HeardKey(p, q, ph, t) ==
  IF p = Leader /\ (Pos(p, ph) > 6 \/ (ph = "keys" /\ At(p, q) < t)) THEN 1 ELSE 0
HeardRest(p, q, ph, t, c, n) ==
  IF p = Leader
  THEN CASE ph = "ask" -> c
         [] ph = "collect" -> c + (IF At(p, q) < t THEN 1 ELSE 0)
         [] ph = "done" -> RingLen
         [] OTHER -> 0
  ELSE IF q = Leader THEN n ELSE 0

Heard(p, q, ph, t, c, l, n) ==
  HeardParams(p, q, ph) + HeardShare(p, q, ph, t) + HeardPoly(p, q, ph, t, c)
    + HeardRing(p, q, l) + HeardKey(p, q, ph, t) + HeardRest(p, q, ph, t, c, n)

\* Who a number is from.
Only(p) == {p}

LEMMA ScriptEnds ==
  ASSUME NEW p \in Party, NEW q \in Party
  PROVE  /\ EndParams(p) \in Nat /\ EndShare(p) \in Nat /\ EndPoly(p, q) \in Nat
         /\ EndRing(p, q) \in Nat /\ EndKey(p, q) \in Nat
         /\ EndParams(p) <= EndShare(p) /\ EndShare(p) <= EndPoly(p, q)
         /\ EndPoly(p, q) <= EndRing(p, q) /\ EndRing(p, q) <= EndKey(p, q)
         /\ PolyLen \in Nat /\ RingLen \in Nat /\ PolyLen = SetSize + 1 /\ RingLen = Degree + 1
<1>1. PolyLen \in Nat /\ RingLen \in Nat /\ PolyLen = SetSize + 1 /\ RingLen = Degree + 1
  BY Sizes DEF PolyLen, RingLen
<1>. QED BY <1>1 DEF EndParams, EndShare, EndPoly, EndRing, EndKey

LEMMA ItemIs ==
  ASSUME NEW p \in Party, NEW q \in Party, NEW k \in Nat
  PROVE  /\ k <= EndParams(p) => Item(p, q, k) = Number("params", 0, {})
         /\ EndParams(p) < k /\ k <= EndShare(p) => Item(p, q, k) = Number("share", 0, {p})
         /\ EndShare(p) < k /\ k <= EndPoly(p, q) =>
              Item(p, q, k) = Number("poly", k - EndShare(p) - 1, {p})
         /\ EndPoly(p, q) < k /\ k <= EndRing(p, q) =>
              Item(p, q, k) = Number("ring", k - EndPoly(p, q) - 1, RingBody(p))
         /\ EndRing(p, q) < k /\ k <= EndKey(p, q) => Item(p, q, k) = Number("key", 0, {p})
         /\ EndKey(p, q) < k =>
              Item(p, q, k) = IF p = Leader
                              THEN Number("cipher", k - EndKey(p, q) - 1, RingBody(Previous(p)))
                              ELSE Number("answer", k - EndKey(p, q) - 1, {p})
BY ScriptEnds DEF Item

\* Where two parties are in each other's loops, with the sizes of the script.
LEMMA Ways ==
  ASSUME NEW p \in Party, NEW r \in Party, r # p
  PROVE  /\ \A t \in 1 .. N - 1 : r = Other(p, t) <=> At(p, r) = t
         /\ \A t \in 1 .. N - 1 : r = Cyclic(p, t) <=> CycAt(p, r) = t
         /\ N \in Nat /\ N >= 2 /\ SetSize \in Nat /\ SetSize >= 1 /\ Degree \in Nat
         /\ PolyLen = SetSize + 1 /\ RingLen = Degree + 1 /\ Degree = 2 * SetSize
         /\ p \in Nat /\ r \in Nat
         /\ At(p, r) \in 1 .. N - 1 /\ CycAt(p, r) \in 1 .. N - 1
<1>1. \A t \in 1 .. N - 1 : r = Other(p, t) <=> At(p, r) = t
  BY OtherAt, AtOther
<1>2. \A t \in 1 .. N - 1 : r = Cyclic(p, t) <=> CycAt(p, r) = t
  BY CyclicAt, AtCyclic
<1>3. At(p, r) \in 1 .. N - 1 /\ CycAt(p, r) \in 1 .. N - 1
  BY AtOther, AtCyclic
<1>. QED BY <1>1, <1>2, <1>3, Sizes, ScriptEnds

\* The last part of the script, which only the leader and the others differ in.
LEMMA RestIs ==
  ASSUME NEW p \in Party, NEW q \in Party, NEW k \in Nat, EndKey(p, q) < k
  PROVE  Item(p, q, k) = IF p = Leader
                         THEN Number("cipher", k - EndKey(p, q) - 1, RingBody(Previous(p)))
                         ELSE Number("answer", k - EndKey(p, q) - 1, {p})
BY ItemIs

LEMMA CountTypes ==
  ASSUME NEW p \in Party, NEW q \in Party, p # q, NEW ph, NEW t, NEW c, NEW l, NEW n,
         Place(p, ph, t, c, l, n)
  PROVE  /\ SaidParams(p, q, ph, t) \in Nat /\ SaidShare(p, q, ph, t) \in Nat
         /\ SaidPoly(p, q, ph, t, c) \in Nat /\ SaidRing(p, q, ph, c) \in Nat
         /\ SaidKey(p, q, ph) \in Nat /\ SaidRest(p, q, ph, t, c, n) \in Nat
         /\ HeardParams(p, q, ph) \in Nat /\ HeardShare(p, q, ph, t) \in Nat
         /\ HeardPoly(p, q, ph, t, c) \in Nat /\ HeardRing(p, q, l) \in Nat
         /\ HeardKey(p, q, ph, t) \in Nat /\ HeardRest(p, q, ph, t, c, n) \in Nat
         /\ Said(p, q, ph, t, c, n) \in Nat /\ Heard(p, q, ph, t, c, l, n) \in Nat
<1>1. c \in Nat /\ l \in Nat /\ n \in Nat /\ RingLen \in Nat /\ PolyLen \in Nat
  BY Sizes DEF Place, RingLen, PolyLen
<1>2. PolyCount(p, q, ph, t, c) \in Nat
  BY <1>1 DEF PolyCount
<1>3. ph = "decrypt" => n - 1 \in Nat
  BY <1>1 DEF Place
<1>4. SaidRest(p, q, ph, t, c, n) \in Nat
  BY <1>1, <1>3 DEF SaidRest
<1>5. HeardRest(p, q, ph, t, c, n) \in Nat
  BY <1>1 DEF HeardRest
<1>6. /\ SaidParams(p, q, ph, t) \in Nat /\ SaidShare(p, q, ph, t) \in Nat
      /\ SaidPoly(p, q, ph, t, c) \in Nat /\ SaidRing(p, q, ph, c) \in Nat
      /\ SaidKey(p, q, ph) \in Nat
  BY <1>1, <1>2 DEF SaidParams, SaidShare, SaidPoly, SaidRing, SaidKey
<1>7. /\ HeardParams(p, q, ph) \in Nat /\ HeardShare(p, q, ph, t) \in Nat
      /\ HeardPoly(p, q, ph, t, c) \in Nat /\ HeardRing(p, q, l) \in Nat
      /\ HeardKey(p, q, ph, t) \in Nat
  BY <1>1, <1>2 DEF HeardParams, HeardShare, HeardPoly, HeardRing, HeardKey
<1>. QED BY <1>4, <1>5, <1>6, <1>7 DEF Said, Heard

\* The phases of a loop over the other parties, when it goes on.
LEMMA ParamsTurn ==
  ASSUME NEW t \in 1 .. N - 1, NEW r \in Party, r # Leader,
         Place(Leader, "params", t, 0, 0, 0), NEW ph, NEW u,
         ph = IF t = N - 1 THEN "shareSend" ELSE "params",
         u = IF t = N - 1 THEN 1 ELSE t + 1
  PROVE  /\ Place(Leader, ph, u, 0, 0, 0)
         /\ Said(Leader, r, ph, u, 0, 0)
              = Said(Leader, r, "params", t, 0, 0) + IF r = Other(Leader, t) THEN 1 ELSE 0
         /\ Heard(Leader, r, ph, u, 0, 0, 0) = Heard(Leader, r, "params", t, 0, 0, 0)
         /\ r = Other(Leader, t) =>
              Item(Leader, r, Said(Leader, r, "params", t, 0, 0) + 1) = Number("params", 0, {})
<1>1. /\ Leader \in Party /\ At(Leader, r) \in 1 .. N - 1
           /\ (r = Other(Leader, t) <=> At(Leader, r) = t)
      /\ N \in Nat /\ N >= 2
  BY Sizes, OtherAt, AtOther
<1>2. Place(Leader, ph, u, 0, 0, 0)
  BY <1>1 DEF Place, Phases, Pos
<1>3. /\ Said(Leader, r, ph, u, 0, 0) = IF t = N - 1 \/ At(Leader, r) < u THEN 1 ELSE 0
      /\ Said(Leader, r, "params", t, 0, 0) = IF At(Leader, r) < t THEN 1 ELSE 0
  BY <1>1 DEF Said, SaidParams, SaidShare, SaidPoly, SaidRing, SaidKey, SaidRest, Pos, PolyCount
<1>4. Heard(Leader, r, ph, u, 0, 0, 0) = 0 /\ Heard(Leader, r, "params", t, 0, 0, 0) = 0
  BY <1>1 DEF Heard, HeardParams, HeardShare, HeardPoly, HeardRing, HeardKey, HeardRest, Pos,
     PolyCount
<1>5. r = Other(Leader, t) =>
        Item(Leader, r, Said(Leader, r, "params", t, 0, 0) + 1) = Number("params", 0, {})
  <2>1. ASSUME r = Other(Leader, t)
        PROVE  Said(Leader, r, "params", t, 0, 0) + 1 = 1 /\ 1 <= EndParams(Leader)
    BY <1>1, <1>3, <2>1 DEF EndParams
  <2>2. 1 <= EndParams(Leader) => Item(Leader, r, 1) = Number("params", 0, {})
    BY <1>1, ItemIs
  <2>. QED BY <2>1, <2>2
<1>. QED BY <1>1, <1>2, <1>3, <1>4, <1>5

\* A follower reads the parameters.
LEMMA ParamsRead ==
  ASSUME NEW p \in Party, p # Leader, NEW r \in Party, r # p
  PROVE  /\ Place(p, "shareSend", 1, 0, 0, 0)
         /\ Said(p, r, "shareSend", 1, 0, 0)
              = Said(p, r, "params", 1, 0, 0)
         /\ Heard(p, r, "shareSend", 1, 0, 0, 0)
              = Heard(p, r, "params", 1, 0, 0, 0) + IF r = Leader THEN 1 ELSE 0
         /\ r = Leader => Item(r, p, Heard(p, r, "params", 1, 0, 0, 0) + 1)
                            = Number("params", 0, {})
<1>1. /\ N \in Nat /\ N >= 2 /\ SetSize \in Nat /\ SetSize >= 1 /\ Degree \in Nat
      /\ PolyLen = SetSize + 1 /\ RingLen = Degree + 1 /\ Degree = 2 * SetSize
      /\ p \in Nat /\ r \in Nat
      /\ At(p, r) \in 1 .. N - 1 /\ CycAt(p, r) \in 1 .. N - 1
  BY Ways
<1>2. Place(p, "shareSend", 1, 0, 0, 0)
  BY <1>1 DEF Place, Phases, Pos
<1>3. Said(p, r, "shareSend", 1, 0, 0)
        = Said(p, r, "params", 1, 0, 0)
  BY <1>1 DEF Place, Said, SaidParams, SaidShare, SaidPoly, SaidRing, SaidKey, SaidRest, Pos,
     PolyCount
<1>4. Heard(p, r, "shareSend", 1, 0, 0, 0)
        = Heard(p, r, "params", 1, 0, 0, 0) + IF r = Leader THEN 1 ELSE 0
  BY <1>1 DEF Place, Heard, HeardParams, HeardShare, HeardPoly, HeardRing, HeardKey, HeardRest,
     Pos, PolyCount
<1>5. ASSUME r = Leader PROVE Item(r, p, Heard(p, r, "params", 1, 0, 0, 0) + 1)
                            = Number("params", 0, {})
  <2>1. Heard(p, r, "params", 1, 0, 0, 0) = 0 /\ EndParams(r) = 1
    BY <1>1, <1>5, Neighbours
    DEF Place, Heard, HeardParams, HeardShare, HeardPoly, HeardRing, HeardKey, HeardRest,
        Pos, PolyCount, EndParams, EndShare, EndPoly, EndRing, EndKey
  <2>. DEFINE k == Heard(p, r, "params", 1, 0, 0, 0) + 1
  <2>2. k \in Nat /\ k <= EndParams(r)
    BY <1>1, <2>1, ScriptEnds DEF Place
  <2>. HIDE DEF k
  <2>3. Item(r, p, k) = Number("params", 0, {})
    BY <1>1, <2>2, ItemIs
  <2>. QED BY <2>3 DEF k
<1>. QED BY <1>1, <1>2, <1>3, <1>4, <1>5

\* secretShare: the values to the others, and theirs.
LEMMA ShareSendTurn ==
  ASSUME NEW p \in Party, NEW r \in Party, r # p, NEW t \in 1 .. N - 1, NEW ph, NEW u,
         ph = IF t = N - 1 THEN "shareReceive" ELSE "shareSend", u = IF t = N - 1 THEN 1 ELSE t + 1
  PROVE  /\ Place(p, ph, u, 0, 0, 0)
         /\ Said(p, r, ph, u, 0, 0)
              = Said(p, r, "shareSend", t, 0, 0) + IF r = Other(p, t) THEN 1 ELSE 0
         /\ Heard(p, r, ph, u, 0, 0, 0)
              = Heard(p, r, "shareSend", t, 0, 0, 0)
         /\ r = Other(p, t) => Item(p, r, Said(p, r, "shareSend", t, 0, 0) + 1)
                                 = Number("share", 0, Only(p))
<1>1. /\ r = Other(p, t) <=> At(p, r) = t
      /\ N \in Nat /\ N >= 2 /\ SetSize \in Nat /\ SetSize >= 1 /\ Degree \in Nat
      /\ PolyLen = SetSize + 1 /\ RingLen = Degree + 1 /\ Degree = 2 * SetSize
      /\ p \in Nat /\ r \in Nat
      /\ At(p, r) \in 1 .. N - 1 /\ CycAt(p, r) \in 1 .. N - 1
  BY Ways
<1>2. Place(p, ph, u, 0, 0, 0)
  BY <1>1 DEF Place, Phases, Pos
<1>3. Said(p, r, ph, u, 0, 0)
        = Said(p, r, "shareSend", t, 0, 0) + IF r = Other(p, t) THEN 1 ELSE 0
  BY <1>1 DEF Place, Said, SaidParams, SaidShare, SaidPoly, SaidRing, SaidKey, SaidRest, Pos,
     PolyCount
<1>4. Heard(p, r, ph, u, 0, 0, 0)
        = Heard(p, r, "shareSend", t, 0, 0, 0)
  BY <1>1 DEF Place, Heard, HeardParams, HeardShare, HeardPoly, HeardRing, HeardKey, HeardRest,
     Pos, PolyCount
<1>5. ASSUME r = Other(p, t) PROVE Item(p, r, Said(p, r, "shareSend", t, 0, 0) + 1)
                                 = Number("share", 0, {p})
  <2>1. Said(p, r, "shareSend", t, 0, 0) = EndParams(p) /\ EndShare(p) = EndParams(p) + 1
    BY <1>1, <1>5, Neighbours
    DEF Place, Said, SaidParams, SaidShare, SaidPoly, SaidRing, SaidKey, SaidRest,
        Pos, PolyCount, EndParams, EndShare, EndPoly, EndRing, EndKey
  <2>. DEFINE k == Said(p, r, "shareSend", t, 0, 0) + 1
  <2>2. k \in Nat /\ EndParams(p) < k /\ k <= EndShare(p)
    BY <1>1, <2>1, ScriptEnds DEF Place
  <2>. HIDE DEF k
  <2>3. Item(p, r, k) = Number("share", 0, {p})
    BY <1>1, <2>2, ItemIs
  <2>. QED BY <2>3 DEF k
<1>. QED BY <1>1, <1>2, <1>3, <1>4, <1>5 DEF Only

LEMMA ShareReadTurn ==
  ASSUME NEW p \in Party, NEW r \in Party, r # p, NEW t \in 1 .. N - 1, NEW ph, NEW u,
         ph = IF t = N - 1 THEN "poly" ELSE "shareReceive", u = IF t = N - 1 THEN 1 ELSE t + 1
  PROVE  /\ Place(p, ph, u, 0, 0, 0)
         /\ Said(p, r, ph, u, 0, 0)
              = Said(p, r, "shareReceive", t, 0, 0)
         /\ Heard(p, r, ph, u, 0, 0, 0)
              = Heard(p, r, "shareReceive", t, 0, 0, 0) + IF r = Other(p, t) THEN 1 ELSE 0
         /\ r = Other(p, t) => Item(r, p, Heard(p, r, "shareReceive", t, 0, 0, 0) + 1)
                                 = Number("share", 0, Only(r))
<1>1. /\ r = Other(p, t) <=> At(p, r) = t
      /\ N \in Nat /\ N >= 2 /\ SetSize \in Nat /\ SetSize >= 1 /\ Degree \in Nat
      /\ PolyLen = SetSize + 1 /\ RingLen = Degree + 1 /\ Degree = 2 * SetSize
      /\ p \in Nat /\ r \in Nat
      /\ At(p, r) \in 1 .. N - 1 /\ CycAt(p, r) \in 1 .. N - 1
  BY Ways
<1>2. Place(p, ph, u, 0, 0, 0)
  BY <1>1 DEF Place, Phases, Pos
<1>3. Said(p, r, ph, u, 0, 0)
        = Said(p, r, "shareReceive", t, 0, 0)
  BY <1>1 DEF Place, Said, SaidParams, SaidShare, SaidPoly, SaidRing, SaidKey, SaidRest, Pos,
     PolyCount
<1>4. Heard(p, r, ph, u, 0, 0, 0)
        = Heard(p, r, "shareReceive", t, 0, 0, 0) + IF r = Other(p, t) THEN 1 ELSE 0
  BY <1>1 DEF Place, Heard, HeardParams, HeardShare, HeardPoly, HeardRing, HeardKey, HeardRest,
     Pos, PolyCount
<1>5. ASSUME r = Other(p, t) PROVE Item(r, p, Heard(p, r, "shareReceive", t, 0, 0, 0) + 1)
                                 = Number("share", 0, {r})
  <2>1. Heard(p, r, "shareReceive", t, 0, 0, 0) = EndParams(r) /\ EndShare(r) = EndParams(r) + 1
    BY <1>1, <1>5, Neighbours
    DEF Place, Heard, HeardParams, HeardShare, HeardPoly, HeardRing, HeardKey, HeardRest,
        Pos, PolyCount, EndParams, EndShare, EndPoly, EndRing, EndKey
  <2>. DEFINE k == Heard(p, r, "shareReceive", t, 0, 0, 0) + 1
  <2>2. k \in Nat /\ EndParams(r) < k /\ k <= EndShare(r)
    BY <1>1, <2>1, ScriptEnds DEF Place
  <2>. HIDE DEF k
  <2>3. Item(r, p, k) = Number("share", 0, {r})
    BY <1>1, <2>2, ItemIs
  <2>. QED BY <2>3 DEF k
<1>. QED BY <1>1, <1>2, <1>3, <1>4, <1>5 DEF Only

\* makeSharedPolynomial: a coefficient to a party above, or from one below.
LEMMA PolySendTurn ==
  ASSUME NEW p \in Party, NEW r \in Party, r # p, NEW t \in 1 .. N - 1, NEW c \in 0 .. SetSize,
         NEW ph, NEW u, NEW d, d = (IF c = SetSize THEN 0 ELSE c + 1),
         ph = (IF c = SetSize /\ t = N - 1 THEN AfterPoly(p) ELSE "poly"),
         u = (IF c # SetSize THEN t ELSE IF t = N - 1 THEN 1 ELSE t + 1), Cyclic(p, t) > p
  PROVE  /\ Place(p, ph, u, d, 0, 0)
         /\ Said(p, r, ph, u, d, 0)
              = Said(p, r, "poly", t, c, 0) + IF r = Cyclic(p, t) THEN 1 ELSE 0
         /\ Heard(p, r, ph, u, d, 0, 0)
              = Heard(p, r, "poly", t, c, 0, 0)
         /\ r = Cyclic(p, t) => Item(p, r, Said(p, r, "poly", t, c, 0) + 1)
                                  = Number("poly", c, Only(p))
<1>1. /\ r = Cyclic(p, t) <=> CycAt(p, r) = t
      /\ N \in Nat /\ N >= 2 /\ SetSize \in Nat /\ SetSize >= 1 /\ Degree \in Nat
      /\ PolyLen = SetSize + 1 /\ RingLen = Degree + 1 /\ Degree = 2 * SetSize
      /\ p \in Nat /\ r \in Nat
      /\ At(p, r) \in 1 .. N - 1 /\ CycAt(p, r) \in 1 .. N - 1
  BY Ways
<1>2. Place(p, ph, u, d, 0, 0)
  BY <1>1 DEF Place, Phases, Pos, AfterPoly
<1>3. Said(p, r, ph, u, d, 0)
        = Said(p, r, "poly", t, c, 0) + IF r = Cyclic(p, t) THEN 1 ELSE 0
  BY <1>1 DEF Place, Said, SaidParams, SaidShare, SaidPoly, SaidRing, SaidKey, SaidRest, Pos,
     PolyCount, AfterPoly
<1>4. Heard(p, r, ph, u, d, 0, 0)
        = Heard(p, r, "poly", t, c, 0, 0)
  BY <1>1 DEF Place, Heard, HeardParams, HeardShare, HeardPoly, HeardRing, HeardKey, HeardRest,
     Pos, PolyCount, AfterPoly
<1>5. ASSUME r = Cyclic(p, t) PROVE Item(p, r, Said(p, r, "poly", t, c, 0) + 1)
                                  = Number("poly", c, {p})
  <2>1. /\ Said(p, r, "poly", t, c, 0) = EndShare(p) + c
        /\ EndPoly(p, r) = EndShare(p) + PolyLen
    BY <1>1, <1>5, Neighbours
    DEF Place, Said, SaidParams, SaidShare, SaidPoly, SaidRing, SaidKey, SaidRest,
        Pos, PolyCount, EndParams, EndShare, EndPoly, EndRing, EndKey
  <2>. DEFINE k == Said(p, r, "poly", t, c, 0) + 1
  <2>2. k \in Nat /\ EndShare(p) < k /\ k <= EndPoly(p, r) /\ k - EndShare(p) - 1 = c
    BY <1>1, <2>1, ScriptEnds DEF Place
  <2>. HIDE DEF k
  <2>3. Item(p, r, k) = Number("poly", c, {p})
    BY <1>1, <2>2, ItemIs
  <2>. QED BY <2>3 DEF k
<1>. QED BY <1>1, <1>2, <1>3, <1>4, <1>5 DEF Only

LEMMA PolyReadTurn ==
  ASSUME NEW p \in Party, NEW r \in Party, r # p, NEW t \in 1 .. N - 1, NEW c \in 0 .. SetSize,
         NEW ph, NEW u, NEW d, d = (IF c = SetSize THEN 0 ELSE c + 1),
         ph = (IF c = SetSize /\ t = N - 1 THEN AfterPoly(p) ELSE "poly"),
         u = (IF c # SetSize THEN t ELSE IF t = N - 1 THEN 1 ELSE t + 1), ~(Cyclic(p, t) > p)
  PROVE  /\ Place(p, ph, u, d, 0, 0)
         /\ Said(p, r, ph, u, d, 0)
              = Said(p, r, "poly", t, c, 0)
         /\ Heard(p, r, ph, u, d, 0, 0)
              = Heard(p, r, "poly", t, c, 0, 0) + IF r = Cyclic(p, t) THEN 1 ELSE 0
         /\ r = Cyclic(p, t) => Item(r, p, Heard(p, r, "poly", t, c, 0, 0) + 1)
                                  = Number("poly", c, Only(r))
<1>1. /\ r = Cyclic(p, t) <=> CycAt(p, r) = t
      /\ N \in Nat /\ N >= 2 /\ SetSize \in Nat /\ SetSize >= 1 /\ Degree \in Nat
      /\ PolyLen = SetSize + 1 /\ RingLen = Degree + 1 /\ Degree = 2 * SetSize
      /\ p \in Nat /\ r \in Nat
      /\ At(p, r) \in 1 .. N - 1 /\ CycAt(p, r) \in 1 .. N - 1
  BY Ways
<1>2. Place(p, ph, u, d, 0, 0)
  BY <1>1 DEF Place, Phases, Pos, AfterPoly
<1>3. Said(p, r, ph, u, d, 0)
        = Said(p, r, "poly", t, c, 0)
  BY <1>1 DEF Place, Said, SaidParams, SaidShare, SaidPoly, SaidRing, SaidKey, SaidRest, Pos,
     PolyCount, AfterPoly
<1>4. Heard(p, r, ph, u, d, 0, 0)
        = Heard(p, r, "poly", t, c, 0, 0) + IF r = Cyclic(p, t) THEN 1 ELSE 0
  BY <1>1 DEF Place, Heard, HeardParams, HeardShare, HeardPoly, HeardRing, HeardKey, HeardRest,
     Pos, PolyCount, AfterPoly
<1>5. ASSUME r = Cyclic(p, t) PROVE Item(r, p, Heard(p, r, "poly", t, c, 0, 0) + 1)
                                  = Number("poly", c, {r})
  <2>1. /\ Heard(p, r, "poly", t, c, 0, 0) = EndShare(r) + c
        /\ EndPoly(r, p) = EndShare(r) + PolyLen
    BY <1>1, <1>5, Neighbours
    DEF Place, Heard, HeardParams, HeardShare, HeardPoly, HeardRing, HeardKey, HeardRest,
        Pos, PolyCount, EndParams, EndShare, EndPoly, EndRing, EndKey
  <2>. DEFINE k == Heard(p, r, "poly", t, c, 0, 0) + 1
  <2>2. k \in Nat /\ EndShare(r) < k /\ k <= EndPoly(r, p) /\ k - EndShare(r) - 1 = c
    BY <1>1, <2>1, ScriptEnds DEF Place
  <2>. HIDE DEF k
  <2>3. Item(r, p, k) = Number("poly", c, {r})
    BY <1>1, <2>2, ItemIs
  <2>. QED BY <2>3 DEF k
<1>. QED BY <1>1, <1>2, <1>3, <1>4, <1>5 DEF Only

\* Around the ring: a coefficient to the next party, or from the previous one.
LEMMA RingSendTurn ==
  ASSUME NEW p \in Party, NEW r \in Party, r # p, NEW c \in 0 .. Degree,
         NEW ph, NEW d, d = (IF c = Degree THEN 0 ELSE c + 1), NEW l,
         l = (IF p = Leader THEN 0 ELSE RingLen),
         ph = (IF c = Degree THEN IF p = Leader THEN "ringReceive" ELSE "key" ELSE "ringSend")
  PROVE  /\ Place(p, ph, 1, d, l, 0)
         /\ Said(p, r, ph, 1, d, 0)
              = Said(p, r, "ringSend", 1, c, 0) + IF r = Following(p) THEN 1 ELSE 0
         /\ Heard(p, r, ph, 1, d, l, 0)
              = Heard(p, r, "ringSend", 1, c, l, 0)
         /\ r = Following(p) => Item(p, r, Said(p, r, "ringSend", 1, c, 0) + 1)
                                    = Number("ring", c, RingBody(p))
<1>1. /\ N \in Nat /\ N >= 2 /\ SetSize \in Nat /\ SetSize >= 1 /\ Degree \in Nat
      /\ PolyLen = SetSize + 1 /\ RingLen = Degree + 1 /\ Degree = 2 * SetSize
      /\ p \in Nat /\ r \in Nat
      /\ At(p, r) \in 1 .. N - 1 /\ CycAt(p, r) \in 1 .. N - 1
  BY Ways
<1>2. Place(p, ph, 1, d, l, 0)
  BY <1>1 DEF Place, Phases, Pos
<1>3. Said(p, r, ph, 1, d, 0)
        = Said(p, r, "ringSend", 1, c, 0) + IF r = Following(p) THEN 1 ELSE 0
  BY <1>1 DEF Place, Said, SaidParams, SaidShare, SaidPoly, SaidRing, SaidKey, SaidRest, Pos,
     PolyCount
<1>4. Heard(p, r, ph, 1, d, l, 0)
        = Heard(p, r, "ringSend", 1, c, l, 0)
  BY <1>1 DEF Place, Heard, HeardParams, HeardShare, HeardPoly, HeardRing, HeardKey, HeardRest,
     Pos, PolyCount
<1>5. ASSUME r = Following(p) PROVE Item(p, r, Said(p, r, "ringSend", 1, c, 0) + 1)
                                    = Number("ring", c, RingBody(p))
  <2>1. /\ Said(p, r, "ringSend", 1, c, 0) = EndPoly(p, r) + c
        /\ EndRing(p, r) = EndPoly(p, r) + RingLen
    BY <1>1, <1>5, Neighbours
    DEF Place, Said, SaidParams, SaidShare, SaidPoly, SaidRing, SaidKey, SaidRest,
        Pos, PolyCount, EndParams, EndShare, EndPoly, EndRing, EndKey
  <2>. DEFINE k == Said(p, r, "ringSend", 1, c, 0) + 1
  <2>2. k \in Nat /\ EndPoly(p, r) < k /\ k <= EndRing(p, r) /\ k - EndPoly(p, r) - 1 = c
    BY <1>1, <2>1, ScriptEnds DEF Place
  <2>. HIDE DEF k
  <2>3. Item(p, r, k) = Number("ring", c, RingBody(p))
    BY <1>1, <2>2, ItemIs
  <2>. QED BY <2>3 DEF k
<1>. QED BY <1>1, <1>2, <1>3, <1>4, <1>5

LEMMA RingReadTurn ==
  ASSUME NEW p \in Party, NEW r \in Party, r # p, NEW c \in 0 .. Degree,
         NEW ph, NEW d, d = (IF c = Degree THEN 0 ELSE c + 1),
         ph = (IF c = Degree THEN IF p = Leader THEN "keys" ELSE "ringSend" ELSE "ringReceive")
  PROVE  /\ Place(p, ph, 1, d, c + 1, 0)
         /\ Said(p, r, ph, 1, d, 0)
              = Said(p, r, "ringReceive", 1, c, 0)
         /\ Heard(p, r, ph, 1, d, c + 1, 0)
              = Heard(p, r, "ringReceive", 1, c, c, 0) + IF r = Previous(p) THEN 1 ELSE 0
         /\ r = Previous(p) => Item(r, p, Heard(p, r, "ringReceive", 1, c, c, 0) + 1)
                                   = Number("ring", c, RingBody(r))
<1>1. /\ N \in Nat /\ N >= 2 /\ SetSize \in Nat /\ SetSize >= 1 /\ Degree \in Nat
      /\ PolyLen = SetSize + 1 /\ RingLen = Degree + 1 /\ Degree = 2 * SetSize
      /\ p \in Nat /\ r \in Nat
      /\ At(p, r) \in 1 .. N - 1 /\ CycAt(p, r) \in 1 .. N - 1
  BY Ways
<1>2. Place(p, ph, 1, d, c + 1, 0)
  BY <1>1 DEF Place, Phases, Pos
<1>3. Said(p, r, ph, 1, d, 0)
        = Said(p, r, "ringReceive", 1, c, 0)
  BY <1>1 DEF Place, Said, SaidParams, SaidShare, SaidPoly, SaidRing, SaidKey, SaidRest, Pos,
     PolyCount
<1>4. Heard(p, r, ph, 1, d, c + 1, 0)
        = Heard(p, r, "ringReceive", 1, c, c, 0) + IF r = Previous(p) THEN 1 ELSE 0
  BY <1>1 DEF Place, Heard, HeardParams, HeardShare, HeardPoly, HeardRing, HeardKey, HeardRest,
     Pos, PolyCount
<1>5. ASSUME r = Previous(p) PROVE Item(r, p, Heard(p, r, "ringReceive", 1, c, c, 0) + 1)
                                   = Number("ring", c, RingBody(r))
  <2>1. /\ Heard(p, r, "ringReceive", 1, c, c, 0) = EndPoly(r, p) + c
        /\ EndRing(r, p) = EndPoly(r, p) + RingLen
    BY <1>1, <1>5, Neighbours
    DEF Place, Heard, HeardParams, HeardShare, HeardPoly, HeardRing, HeardKey, HeardRest,
        Pos, PolyCount, EndParams, EndShare, EndPoly, EndRing, EndKey
  <2>. DEFINE k == Heard(p, r, "ringReceive", 1, c, c, 0) + 1
  <2>2. k \in Nat /\ EndPoly(r, p) < k /\ k <= EndRing(r, p) /\ k - EndPoly(r, p) - 1 = c
    BY <1>1, <2>1, ScriptEnds DEF Place
  <2>. HIDE DEF k
  <2>3. Item(r, p, k) = Number("ring", c, RingBody(r))
    BY <1>1, <2>2, ItemIs
  <2>. QED BY <2>3 DEF k
<1>. QED BY <1>1, <1>2, <1>3, <1>4, <1>5

\* The public keys.
LEMMA KeySendTurn ==
  ASSUME NEW p \in Party, p # Leader, NEW r \in Party, r # p
  PROVE  /\ Place(p, "cipher", 1, 0, RingLen, 0)
         /\ Said(p, r, "cipher", 1, 0, 0)
              = Said(p, r, "key", 1, 0, 0) + IF r = Leader THEN 1 ELSE 0
         /\ Heard(p, r, "cipher", 1, 0, RingLen, 0)
              = Heard(p, r, "key", 1, 0, RingLen, 0)
         /\ r = Leader => Item(p, r, Said(p, r, "key", 1, 0, 0) + 1) = Number("key", 0, Only(p))
<1>1. /\ N \in Nat /\ N >= 2 /\ SetSize \in Nat /\ SetSize >= 1 /\ Degree \in Nat
      /\ PolyLen = SetSize + 1 /\ RingLen = Degree + 1 /\ Degree = 2 * SetSize
      /\ p \in Nat /\ r \in Nat
      /\ At(p, r) \in 1 .. N - 1 /\ CycAt(p, r) \in 1 .. N - 1
  BY Ways
<1>2. Place(p, "cipher", 1, 0, RingLen, 0)
  BY <1>1 DEF Place, Phases, Pos
<1>3. Said(p, r, "cipher", 1, 0, 0)
        = Said(p, r, "key", 1, 0, 0) + IF r = Leader THEN 1 ELSE 0
  BY <1>1 DEF Place, Said, SaidParams, SaidShare, SaidPoly, SaidRing, SaidKey, SaidRest, Pos,
     PolyCount
<1>4. Heard(p, r, "cipher", 1, 0, RingLen, 0)
        = Heard(p, r, "key", 1, 0, RingLen, 0)
  BY <1>1 DEF Place, Heard, HeardParams, HeardShare, HeardPoly, HeardRing, HeardKey, HeardRest,
     Pos, PolyCount
<1>5. ASSUME r = Leader PROVE Item(p, r, Said(p, r, "key", 1, 0, 0) + 1) = Number("key", 0, {p})
  <2>1. /\ Said(p, r, "key", 1, 0, 0) = EndRing(p, r)
        /\ EndKey(p, r) = EndRing(p, r) + 1
    BY <1>1, <1>5, Neighbours
    DEF Place, Said, SaidParams, SaidShare, SaidPoly, SaidRing, SaidKey, SaidRest,
        Pos, PolyCount, EndParams, EndShare, EndPoly, EndRing, EndKey
  <2>. DEFINE k == Said(p, r, "key", 1, 0, 0) + 1
  <2>2. k \in Nat /\ EndRing(p, r) < k /\ k <= EndKey(p, r)
    BY <1>1, <2>1, ScriptEnds DEF Place
  <2>. HIDE DEF k
  <2>3. Item(p, r, k) = Number("key", 0, {p})
    BY <1>1, <2>2, ItemIs
  <2>. QED BY <2>3 DEF k
<1>. QED BY <1>1, <1>2, <1>3, <1>4, <1>5 DEF Only

LEMMA KeyReadTurn ==
  ASSUME NEW p \in Party, p = Leader, NEW r \in Party, r # p, NEW t \in 1 .. N - 1, NEW ph, NEW u,
         u = (IF t = N - 1 THEN 1 ELSE t + 1), ph = (IF t = N - 1 THEN "ask" ELSE "keys")
  PROVE  /\ Place(p, ph, u, 0, RingLen, 0)
         /\ Said(p, r, ph, u, 0, 0)
              = Said(p, r, "keys", t, 0, 0)
         /\ Heard(p, r, ph, u, 0, RingLen, 0)
              = Heard(p, r, "keys", t, 0, RingLen, 0) + IF r = Other(p, t) THEN 1 ELSE 0
         /\ r = Other(p, t) => Item(r, p, Heard(p, r, "keys", t, 0, RingLen, 0) + 1)
                                 = Number("key", 0, Only(r))
<1>1. /\ r = Other(p, t) <=> At(p, r) = t
      /\ N \in Nat /\ N >= 2 /\ SetSize \in Nat /\ SetSize >= 1 /\ Degree \in Nat
      /\ PolyLen = SetSize + 1 /\ RingLen = Degree + 1 /\ Degree = 2 * SetSize
      /\ p \in Nat /\ r \in Nat
      /\ At(p, r) \in 1 .. N - 1 /\ CycAt(p, r) \in 1 .. N - 1
  BY Ways
<1>2. Place(p, ph, u, 0, RingLen, 0)
  BY <1>1 DEF Place, Phases, Pos
<1>3. Said(p, r, ph, u, 0, 0)
        = Said(p, r, "keys", t, 0, 0)
  BY <1>1 DEF Place, Said, SaidParams, SaidShare, SaidPoly, SaidRing, SaidKey, SaidRest, Pos,
     PolyCount
<1>4. Heard(p, r, ph, u, 0, RingLen, 0)
        = Heard(p, r, "keys", t, 0, RingLen, 0) + IF r = Other(p, t) THEN 1 ELSE 0
  BY <1>1 DEF Place, Heard, HeardParams, HeardShare, HeardPoly, HeardRing, HeardKey, HeardRest,
     Pos, PolyCount
<1>5. ASSUME r = Other(p, t) PROVE Item(r, p, Heard(p, r, "keys", t, 0, RingLen, 0) + 1)
                                 = Number("key", 0, {r})
  <2>1. /\ Heard(p, r, "keys", t, 0, RingLen, 0) = EndRing(r, p)
        /\ EndKey(r, p) = EndRing(r, p) + 1
    BY <1>1, <1>5, Neighbours
    DEF Place, Heard, HeardParams, HeardShare, HeardPoly, HeardRing, HeardKey, HeardRest,
        Pos, PolyCount, EndParams, EndShare, EndPoly, EndRing, EndKey
  <2>. DEFINE k == Heard(p, r, "keys", t, 0, RingLen, 0) + 1
  <2>2. k \in Nat /\ EndRing(r, p) < k /\ k <= EndKey(r, p)
    BY <1>1, <2>1, ScriptEnds DEF Place
  <2>. HIDE DEF k
  <2>3. Item(r, p, k) = Number("key", 0, {r})
    BY <1>1, <2>2, ItemIs
  <2>. QED BY <2>3 DEF k
<1>. QED BY <1>1, <1>2, <1>3, <1>4, <1>5 DEF Only

\* The leader asks for a decryption and collects the answers.
LEMMA AskTurn ==
  ASSUME NEW p \in Party, p = Leader, NEW r \in Party, r # p, NEW t \in 1 .. N - 1,
         NEW c \in 0 .. Degree,
         NEW ph, NEW u, u = (IF t = N - 1 THEN 1 ELSE t + 1),
         ph = (IF t = N - 1 THEN "collect" ELSE "ask")
  PROVE  /\ Place(p, ph, u, c, RingLen, 0)
         /\ Said(p, r, ph, u, c, 0)
              = Said(p, r, "ask", t, c, 0) + IF r = Other(p, t) THEN 1 ELSE 0
         /\ Heard(p, r, ph, u, c, RingLen, 0)
              = Heard(p, r, "ask", t, c, RingLen, 0)
         /\ r = Other(p, t) => Item(p, r, Said(p, r, "ask", t, c, 0) + 1)
                                 = Number("cipher", c, RingBody(Previous(p)))
<1>1. /\ r = Other(p, t) <=> At(p, r) = t
      /\ N \in Nat /\ N >= 2 /\ SetSize \in Nat /\ SetSize >= 1 /\ Degree \in Nat
      /\ PolyLen = SetSize + 1 /\ RingLen = Degree + 1 /\ Degree = 2 * SetSize
      /\ p \in Nat /\ r \in Nat
      /\ At(p, r) \in 1 .. N - 1 /\ CycAt(p, r) \in 1 .. N - 1
  BY Ways
<1>2. Place(p, ph, u, c, RingLen, 0)
  BY <1>1 DEF Place, Phases, Pos
<1>3. Said(p, r, ph, u, c, 0)
        = Said(p, r, "ask", t, c, 0) + IF r = Other(p, t) THEN 1 ELSE 0
  BY <1>1 DEF Place, Said, SaidParams, SaidShare, SaidPoly, SaidRing, SaidKey, SaidRest, Pos,
     PolyCount
<1>4. Heard(p, r, ph, u, c, RingLen, 0)
        = Heard(p, r, "ask", t, c, RingLen, 0)
  BY <1>1 DEF Place, Heard, HeardParams, HeardShare, HeardPoly, HeardRing, HeardKey, HeardRest,
     Pos, PolyCount
<1>5. ASSUME r = Other(p, t) PROVE Item(p, r, Said(p, r, "ask", t, c, 0) + 1)
                                 = Number("cipher", c, RingBody(Previous(p)))
  <2>1. Said(p, r, "ask", t, c, 0) = EndKey(p, r) + c
    BY <1>1, <1>5, Neighbours
    DEF Place, Said, SaidParams, SaidShare, SaidPoly, SaidRing, SaidKey, SaidRest,
        Pos, PolyCount, EndParams, EndShare, EndPoly, EndRing, EndKey
  <2>. DEFINE k == Said(p, r, "ask", t, c, 0) + 1
  <2>2. k \in Nat /\ EndKey(p, r) < k /\ k - EndKey(p, r) - 1 = c
    BY <1>1, <2>1, ScriptEnds DEF Place
  <2>. HIDE DEF k
  <2>3. Item(p, r, k) = Number("cipher", c, RingBody(Previous(p)))
    BY <1>1, <2>2, RestIs
  <2>. QED BY <2>3 DEF k
<1>. QED BY <1>1, <1>2, <1>3, <1>4, <1>5

LEMMA CollectTurn ==
  ASSUME NEW p \in Party, p = Leader, NEW r \in Party, r # p, NEW t \in 1 .. N - 1,
         NEW c \in 0 .. Degree,
         NEW ph, NEW u, u = (IF t = N - 1 THEN 1 ELSE t + 1), NEW d,
         d = (IF t = N - 1 THEN c + 1 ELSE c),
         ph = (IF t # N - 1 THEN "collect" ELSE IF c = Degree THEN "done" ELSE "ask")
  PROVE  /\ Place(p, ph, u, d, RingLen, 0)
         /\ Said(p, r, ph, u, d, 0)
              = Said(p, r, "collect", t, c, 0)
         /\ Heard(p, r, ph, u, d, RingLen, 0)
              = Heard(p, r, "collect", t, c, RingLen, 0) + IF r = Other(p, t) THEN 1 ELSE 0
         /\ r = Other(p, t) => Item(r, p, Heard(p, r, "collect", t, c, RingLen, 0) + 1)
                                 = Number("answer", c, Only(r))
<1>1. /\ r = Other(p, t) <=> At(p, r) = t
      /\ N \in Nat /\ N >= 2 /\ SetSize \in Nat /\ SetSize >= 1 /\ Degree \in Nat
      /\ PolyLen = SetSize + 1 /\ RingLen = Degree + 1 /\ Degree = 2 * SetSize
      /\ p \in Nat /\ r \in Nat
      /\ At(p, r) \in 1 .. N - 1 /\ CycAt(p, r) \in 1 .. N - 1
  BY Ways
<1>2. Place(p, ph, u, d, RingLen, 0)
  BY <1>1 DEF Place, Phases, Pos
<1>3. Said(p, r, ph, u, d, 0)
        = Said(p, r, "collect", t, c, 0)
  BY <1>1 DEF Place, Said, SaidParams, SaidShare, SaidPoly, SaidRing, SaidKey, SaidRest, Pos,
     PolyCount
<1>4. Heard(p, r, ph, u, d, RingLen, 0)
        = Heard(p, r, "collect", t, c, RingLen, 0) + IF r = Other(p, t) THEN 1 ELSE 0
  BY <1>1 DEF Place, Heard, HeardParams, HeardShare, HeardPoly, HeardRing, HeardKey, HeardRest,
     Pos, PolyCount
<1>5. ASSUME r = Other(p, t) PROVE Item(r, p, Heard(p, r, "collect", t, c, RingLen, 0) + 1)
                                 = Number("answer", c, {r})
  <2>1. Heard(p, r, "collect", t, c, RingLen, 0) = EndKey(r, p) + c
    BY <1>1, <1>5, Neighbours
    DEF Place, Heard, HeardParams, HeardShare, HeardPoly, HeardRing, HeardKey, HeardRest,
        Pos, PolyCount, EndParams, EndShare, EndPoly, EndRing, EndKey
  <2>. DEFINE k == Heard(p, r, "collect", t, c, RingLen, 0) + 1
  <2>2. k \in Nat /\ EndKey(r, p) < k /\ k - EndKey(r, p) - 1 = c
    BY <1>1, <2>1, ScriptEnds DEF Place
  <2>. HIDE DEF k
  <2>3. Item(r, p, k) = Number("answer", c, {r})
    BY <1>1, <2>2, RestIs
  <2>. QED BY <2>3 DEF k
<1>. QED BY <1>1, <1>2, <1>3, <1>4, <1>5 DEF Only

\* A follower reads a ciphertext and answers.
LEMMA CipherTurn ==
  ASSUME NEW p \in Party, p # Leader, NEW r \in Party, r # p, NEW c \in 0 .. Degree,
         NEW n \in 0 .. Degree
  PROVE  /\ Place(p, "decrypt", 1, n, RingLen, n + 1)
         /\ Said(p, r, "decrypt", 1, n, n + 1)
              = Said(p, r, "cipher", 1, c, n)
         /\ Heard(p, r, "decrypt", 1, n, RingLen, n + 1)
              = Heard(p, r, "cipher", 1, c, RingLen, n) + IF r = Leader THEN 1 ELSE 0
         /\ r = Leader => Item(r, p, Heard(p, r, "cipher", 1, c, RingLen, n) + 1)
                            = Number("cipher", n, RingBody(Previous(r)))
<1>1. /\ N \in Nat /\ N >= 2 /\ SetSize \in Nat /\ SetSize >= 1 /\ Degree \in Nat
      /\ PolyLen = SetSize + 1 /\ RingLen = Degree + 1 /\ Degree = 2 * SetSize
      /\ p \in Nat /\ r \in Nat
      /\ At(p, r) \in 1 .. N - 1 /\ CycAt(p, r) \in 1 .. N - 1
  BY Ways
<1>2. Place(p, "decrypt", 1, n, RingLen, n + 1)
  BY <1>1 DEF Place, Phases, Pos
<1>3. Said(p, r, "decrypt", 1, n, n + 1)
        = Said(p, r, "cipher", 1, c, n)
  BY <1>1 DEF Place, Said, SaidParams, SaidShare, SaidPoly, SaidRing, SaidKey, SaidRest, Pos,
     PolyCount
<1>4. Heard(p, r, "decrypt", 1, n, RingLen, n + 1)
        = Heard(p, r, "cipher", 1, c, RingLen, n) + IF r = Leader THEN 1 ELSE 0
  BY <1>1 DEF Place, Heard, HeardParams, HeardShare, HeardPoly, HeardRing, HeardKey, HeardRest,
     Pos, PolyCount
<1>5. ASSUME r = Leader PROVE Item(r, p, Heard(p, r, "cipher", 1, c, RingLen, n) + 1)
                            = Number("cipher", n, RingBody(Previous(r)))
  <2>1. Heard(p, r, "cipher", 1, c, RingLen, n) = EndKey(r, p) + n
    BY <1>1, <1>5, Neighbours
    DEF Place, Heard, HeardParams, HeardShare, HeardPoly, HeardRing, HeardKey, HeardRest,
        Pos, PolyCount, EndParams, EndShare, EndPoly, EndRing, EndKey
  <2>. DEFINE k == Heard(p, r, "cipher", 1, c, RingLen, n) + 1
  <2>2. k \in Nat /\ EndKey(r, p) < k /\ k - EndKey(r, p) - 1 = n
    BY <1>1, <2>1, ScriptEnds DEF Place
  <2>. HIDE DEF k
  <2>3. Item(r, p, k) = Number("cipher", n, RingBody(Previous(r)))
    BY <1>1, <1>5, <2>2, RestIs
  <2>. QED BY <2>3 DEF k
<1>. QED BY <1>1, <1>2, <1>3, <1>4, <1>5

LEMMA DecryptTurn ==
  ASSUME NEW p \in Party, p # Leader, NEW r \in Party, r # p, NEW c \in 0 .. Degree,
         NEW ph, ph = (IF c = Degree THEN "done" ELSE "cipher")
  PROVE  /\ Place(p, ph, 1, c, RingLen, c + 1)
         /\ Said(p, r, ph, 1, c, c + 1)
              = Said(p, r, "decrypt", 1, c, c + 1) + IF r = Leader THEN 1 ELSE 0
         /\ Heard(p, r, ph, 1, c, RingLen, c + 1)
              = Heard(p, r, "decrypt", 1, c, RingLen, c + 1)
         /\ r = Leader => Item(p, r, Said(p, r, "decrypt", 1, c, c + 1) + 1)
                            = Number("answer", c, Only(p))
<1>1. /\ N \in Nat /\ N >= 2 /\ SetSize \in Nat /\ SetSize >= 1 /\ Degree \in Nat
      /\ PolyLen = SetSize + 1 /\ RingLen = Degree + 1 /\ Degree = 2 * SetSize
      /\ p \in Nat /\ r \in Nat
      /\ At(p, r) \in 1 .. N - 1 /\ CycAt(p, r) \in 1 .. N - 1
  BY Ways
<1>2. Place(p, ph, 1, c, RingLen, c + 1)
  BY <1>1 DEF Place, Phases, Pos
<1>3. Said(p, r, ph, 1, c, c + 1)
        = Said(p, r, "decrypt", 1, c, c + 1) + IF r = Leader THEN 1 ELSE 0
  BY <1>1 DEF Place, Said, SaidParams, SaidShare, SaidPoly, SaidRing, SaidKey, SaidRest, Pos,
     PolyCount
<1>4. Heard(p, r, ph, 1, c, RingLen, c + 1)
        = Heard(p, r, "decrypt", 1, c, RingLen, c + 1)
  BY <1>1 DEF Place, Heard, HeardParams, HeardShare, HeardPoly, HeardRing, HeardKey, HeardRest,
     Pos, PolyCount
<1>5. ASSUME r = Leader PROVE Item(p, r, Said(p, r, "decrypt", 1, c, c + 1) + 1)
                            = Number("answer", c, {p})
  <2>1. Said(p, r, "decrypt", 1, c, c + 1) = EndKey(p, r) + c
    BY <1>1, <1>5, Neighbours
    DEF Place, Said, SaidParams, SaidShare, SaidPoly, SaidRing, SaidKey, SaidRest,
        Pos, PolyCount, EndParams, EndShare, EndPoly, EndRing, EndKey
  <2>. DEFINE k == Said(p, r, "decrypt", 1, c, c + 1) + 1
  <2>2. k \in Nat /\ EndKey(p, r) < k /\ k - EndKey(p, r) - 1 = c
    BY <1>1, <2>1, ScriptEnds DEF Place
  <2>. HIDE DEF k
  <2>3. Item(p, r, k) = Number("answer", c, {p})
    BY <1>1, <2>2, RestIs
  <2>. QED BY <2>3 DEF k
<1>. QED BY <1>1, <1>2, <1>3, <1>4, <1>5 DEF Only

-----------------------------------------------------------------------------
(***************************************************************************)
(* The invariant, with g[p] for the number of ciphertexts follower p has   *)
(* read: coef alone does not tell before the first one from after it.      *)
(***************************************************************************)
IsSeq(s) == s \in Seq({s[i] : i \in DOMAIN s})

SaidNow(p, q, g) == Said(p, q, phase[p], turn[p], coef[p], g[p])
HeardNow(p, q, g) == Heard(p, q, phase[p], turn[p], coef[p], Len(ring[p]), g[p])
Placed(p, g) == Place(p, phase[p], turn[p], coef[p], Len(ring[p]), g[p])

KType ==
  /\ DOMAIN chan = Party /\ \A p \in Party : DOMAIN chan[p] = Party
  /\ DOMAIN phase = Party /\ DOMAIN turn = Party /\ DOMAIN coef = Party
  /\ DOMAIN share = Party /\ DOMAIN polys = Party /\ DOMAIN ring = Party

\* What lies between p and q is the part of the script that p has said and q
\* has not read.
Wire(p, q, g) ==
  /\ IsSeq(chan[p][q])
  /\ HeardNow(q, p, g) + Len(chan[p][q]) = SaidNow(p, q, g)
  /\ \A i \in 1 .. Len(chan[p][q]) : chan[p][q][i] = Item(p, q, HeardNow(q, p, g) + i)

Wires(g) == \A p, q \in Party : p # q => Wire(p, q, g)

\* What p has of the others' shares, polynomials and sums.
SharesOf(p, ph, t) == {p} \cup {q \in Party : q # p /\ HeardShare(p, q, ph, t) = 1}
PolysOf(p, ph, t, c) ==
  {<<p, d>> : d \in 0 .. SetSize}
    \cup {x \in Party \X (0 .. SetSize) : x[1] < p /\ x[2] < PolyCount(p, x[1], ph, t, c)}

Stored(p) ==
  /\ chan[p][p] = <<>>
  /\ share[p] = SharesOf(p, phase[p], turn[p])
  /\ polys[p] = PolysOf(p, phase[p], turn[p], coef[p])
  /\ IsSeq(ring[p])
  /\ \A i \in 1 .. Len(ring[p]) : ring[p][i] = RingBody(Previous(p))

\* What the leader has of the keys and of the partial decryptions.
Answer(q, c) == [party |-> q, coef |-> c]
KeysOf(ph, t) == {Leader} \cup {q \in Party : q # Leader /\ HeardKey(Leader, q, ph, t) = 1}
AnswersOf(ph, t, c) ==
  {Answer(q, c) : q \in {Leader}
    \cup {r \in Party : r # Leader /\ ph = "collect" /\ At(Leader, r) < t}}
Completed(ph, c) == IF ph \in {"ask", "collect"} THEN c ELSE IF ph = "done" THEN RingLen ELSE 0

LeaderStored ==
  /\ keys = KeysOf(phase[Leader], turn[Leader])
  /\ phase[Leader] = "collect" => answers = AnswersOf("collect", turn[Leader], coef[Leader])
  /\ IsSeq(decrypted)
  /\ Len(decrypted) = Completed(phase[Leader], coef[Leader])
  /\ \A i \in 1 .. Len(decrypted) : decrypted[i] = {Answer(q, i - 1) : q \in Party}

Inv(g) ==
  /\ KType /\ Wires(g)
  /\ \A p \in Party : Placed(p, g) /\ Stored(p)
  /\ LeaderStored

Count == 0 .. RingLen
KInv == \E g \in [Party -> Count] : Inv(g)

\* Any sequence over some set is a sequence over its own elements.
LEMMA SeqIsSeq ==
  ASSUME NEW S, NEW s \in Seq(S)
  PROVE  IsSeq(s)
<1>. DEFINE R == {s[i] : i \in DOMAIN s}
<1>1. s \in [1 .. Len(s) -> S] /\ Len(s) \in Nat
  BY LenProperties
<1>2. s \in [1 .. Len(s) -> R]
  BY <1>1
<1>. QED BY <1>1, <1>2, SeqDef DEF IsSeq

\* A message put at the end of a queue is its last.
LEMMA AppendSeq ==
  ASSUME NEW s, IsSeq(s), NEW m
  PROVE  /\ IsSeq(Append(s, m))
         /\ Len(s) \in Nat
         /\ Len(Append(s, m)) = Len(s) + 1
         /\ \A i \in 1 .. Len(s) : Append(s, m)[i] = s[i]
         /\ Append(s, m)[Len(s) + 1] = m
<1>. DEFINE R == {s[i] : i \in DOMAIN s}
            Q == R \cup {m}
<1>1. s \in Seq(R) /\ R \subseteq Q /\ m \in Q
  BY DEF IsSeq
<1>2. s \in Seq(Q)
  <2>1. s \in [1 .. Len(s) -> R] /\ Len(s) \in Nat
    BY <1>1, LenProperties
  <2>. HIDE DEF R
  <2>2. s \in [1 .. Len(s) -> Q]
    BY <2>1
  <2>. QED BY <2>1, <2>2, SeqDef
<1>. HIDE DEF R, Q
<1>3. /\ Append(s, m) \in Seq(Q)
      /\ Len(Append(s, m)) = Len(s) + 1
      /\ \A i \in 1 .. Len(s) : Append(s, m)[i] = s[i]
      /\ Append(s, m)[Len(s) + 1] = m
  BY <1>1, <1>2, AppendProperties
<1>4. IsSeq(Append(s, m))
  BY <1>3, SeqIsSeq
<1>5. Len(s) \in Nat
  BY <1>2, LenProperties
<1>. QED BY <1>3, <1>4, <1>5

\* A queue that is not empty has a first message, and the rest moves up.
LEMMA TailSeq ==
  ASSUME NEW s, IsSeq(s), s # <<>>
  PROVE  /\ IsSeq(Tail(s))
         /\ Len(s) \in Nat \ {0}
         /\ Len(Tail(s)) = Len(s) - 1
         /\ Head(s) = s[1]
         /\ \A i \in 1 .. Len(s) - 1 : Tail(s)[i] = s[i + 1]
<1>. DEFINE R == {s[i] : i \in DOMAIN s}
<1>1. s \in Seq(R)
  BY DEF IsSeq
<1>. HIDE DEF R
<1>2. /\ Tail(s) \in Seq(R)
      /\ Len(Tail(s)) = Len(s) - 1
      /\ \A i \in 1 .. Len(Tail(s)) : Tail(s)[i] = s[i + 1]
  BY <1>1, HeadTailProperties
<1>3. IsSeq(Tail(s))
  BY <1>2, SeqIsSeq
<1>4. Len(s) \in Nat \ {0} /\ Head(s) = s[1]
  BY <1>1, EmptySeq
<1>. QED BY <1>2, <1>3, <1>4

\* Only the empty queue has no message.
LEMMA NoMessage == IsSeq(<<>>) /\ Len(<<>>) = 0
<1>1. <<>> \in Seq({}) /\ Len(<<>>) = 0
  BY EmptySeq
<1>. QED BY <1>1, SeqIsSeq

LEMMA EmptyQueue ==
  ASSUME NEW s, IsSeq(s)
  PROVE  Len(s) \in Nat /\ (Len(s) = 0 <=> s = <<>>)
<1>. DEFINE R == {s[i] : i \in DOMAIN s}
<1>1. s \in Seq(R)
  BY DEF IsSeq
<1>. HIDE DEF R
<1>. QED BY <1>1, EmptySeq


-----------------------------------------------------------------------------
(***************************************************************************)
(* One number sent or read.                                                *)
(***************************************************************************)
LEMMA Counts ==
  ASSUME NEW g \in [Party -> Nat], \A p \in Party : Placed(p, g), NEW p \in Party,
         NEW q \in Party, p # q
  PROVE  SaidNow(p, q, g) \in Nat /\ HeardNow(p, q, g) \in Nat
BY CountTypes DEF Placed, SaidNow, HeardNow

LEMMA Sending ==
  ASSUME NEW g \in [Party -> Nat], KType, Wires(g), \A p \in Party : Placed(p, g),
         NEW p \in Party, NEW q \in Party, p # q, NEW m, Send(p, q, m),
         \A r \in Party : r # p => UNCHANGED <<phase[r], turn[r], coef[r], ring[r]>>,
         \A r \in Party : r # p =>
           /\ SaidNow(p, r, g)' = SaidNow(p, r, g) + IF r = q THEN 1 ELSE 0
           /\ HeardNow(p, r, g)' = HeardNow(p, r, g),
         m = Item(p, q, SaidNow(p, q, g) + 1)
  PROVE  Wires(g)' /\ \A r \in Party : UNCHANGED chan[r][r]
<1>1. /\ \A r, x \in Party : ~(r = p /\ x = q) => chan'[r][x] = chan[r][x]
      /\ chan'[p][q] = Append(chan[p][q], m)
  BY DEF Send, KType
<1>2. ASSUME NEW r \in Party, NEW x \in Party, r # x, r # p
      PROVE  SaidNow(r, x, g)' = SaidNow(r, x, g) /\ HeardNow(r, x, g)' = HeardNow(r, x, g)
  BY <1>2 DEF SaidNow, HeardNow
<1>3. ASSUME NEW r \in Party, NEW x \in Party, r # x PROVE HeardNow(r, x, g)' = HeardNow(r, x, g)
  BY <1>2, <1>3
<1>4. ASSUME NEW r \in Party, NEW x \in Party, r # x, ~(r = p /\ x = q)
      PROVE  SaidNow(r, x, g)' = SaidNow(r, x, g)
  <2>1. CASE r = p
    <3>1. SaidNow(p, x, g) \in Nat
      BY <1>4, <2>1, Counts
    <3>. QED BY <1>4, <2>1, <3>1
  <2>. QED BY <2>1, <1>2, <1>4
<1>5. ASSUME NEW r \in Party, NEW x \in Party, r # x, ~(r = p /\ x = q) PROVE Wire(r, x, g)'
  <2>1. Wire(r, x, g)
    BY <1>5 DEF Wires
  <2>2. HeardNow(x, r, g)' = HeardNow(x, r, g)
    BY <1>3, <1>5
  <2>. QED BY <2>1, <2>2, <1>1, <1>4, <1>5 DEF Wire
<1>6. Wire(p, q, g)'
  <2>1. Wire(p, q, g) /\ SaidNow(p, q, g) \in Nat /\ HeardNow(q, p, g) \in Nat
    BY Counts DEF Wires
  <2>2. HeardNow(q, p, g)' = HeardNow(q, p, g) /\ SaidNow(p, q, g)' = SaidNow(p, q, g) + 1
    BY <1>3
  <2>3. /\ IsSeq(chan'[p][q]) /\ Len(chan[p][q]) \in Nat /\ Len(chan'[p][q]) = Len(chan[p][q]) + 1
        /\ \A i \in 1 .. Len(chan[p][q]) : chan'[p][q][i] = chan[p][q][i]
        /\ chan'[p][q][Len(chan[p][q]) + 1] = m
    BY SMTT(30), <1>1, <2>1, AppendSeq DEF Wire
  <2>4. ASSUME NEW i \in 1 .. Len(chan'[p][q])
        PROVE chan'[p][q][i] = Item(p, q, HeardNow(q, p, g) + i)
    <3>1. CASE i <= Len(chan[p][q])
      BY <2>1, <2>3, <3>1 DEF Wire
    <3>2. CASE ~(i <= Len(chan[p][q]))
      <4>1. i = Len(chan[p][q]) + 1
        BY <2>3, <3>2
      <4>2. HeardNow(q, p, g) + i = SaidNow(p, q, g) + 1
        BY <2>1, <2>3, <4>1 DEF Wire
      <4>. QED BY <2>3, <4>1, <4>2
    <3>. QED BY <3>1, <3>2
  <2>. QED BY <2>1, <2>2, <2>3, <2>4 DEF Wire
<1>7. \A r \in Party : UNCHANGED chan[r][r]
  BY <1>1
<1>. QED BY <1>5, <1>6, <1>7 DEF Wires

\* What lies first on a connection is the next number of the script.
LEMMA NextNumber ==
  ASSUME NEW g \in [Party -> Nat], Wires(g), \A p \in Party : Placed(p, g),
         NEW p \in Party, NEW q \in Party, p # q, chan[q][p] # <<>>
  PROVE  /\ Incoming(p, q) = Item(q, p, HeardNow(p, q, g) + 1)
         /\ HeardNow(p, q, g) + 1 <= SaidNow(q, p, g)
<1>1. Wire(q, p, g) /\ SaidNow(q, p, g) \in Nat /\ HeardNow(p, q, g) \in Nat
  BY Counts DEF Wires
<1>2. Len(chan[q][p]) \in Nat \ {0} /\ Head(chan[q][p]) = chan[q][p][1]
  BY <1>1, TailSeq DEF Wire
<1>3. 1 \in 1 .. Len(chan[q][p])
  BY <1>2
<1>4. chan[q][p][1] = Item(q, p, HeardNow(p, q, g) + 1)
  BY <1>1, <1>3 DEF Wire
<1>. QED BY <1>1, <1>2, <1>4 DEF Wire, Incoming

\* h counts the ciphertexts read after the step.
LEMMA Reading ==
  ASSUME NEW g \in [Party -> Nat], KType, Wires(g), \A p \in Party : Placed(p, g),
         NEW h \in [Party -> Nat],
         NEW p \in Party, NEW q \in Party, p # q, Receive(p, q),
         \A r \in Party : r # p => UNCHANGED <<phase[r], turn[r], coef[r], ring[r]>> /\ h[r] = g[r],
         \A r \in Party : r # p =>
           /\ SaidNow(p, r, h)' = SaidNow(p, r, g)
           /\ HeardNow(p, r, h)' = HeardNow(p, r, g) + IF r = q THEN 1 ELSE 0
  PROVE  Wires(h)' /\ \A r \in Party : UNCHANGED chan[r][r]
<1>1. /\ \A r, x \in Party : ~(r = q /\ x = p) => chan'[r][x] = chan[r][x]
      /\ chan'[q][p] = Tail(chan[q][p]) /\ chan[q][p] # <<>>
  BY DEF Receive, KType
<1>2. ASSUME NEW r \in Party, NEW x \in Party, r # x, r # p
      PROVE  SaidNow(r, x, h)' = SaidNow(r, x, g) /\ HeardNow(r, x, h)' = HeardNow(r, x, g)
  BY <1>2 DEF SaidNow, HeardNow
<1>3. ASSUME NEW r \in Party, NEW x \in Party, r # x PROVE SaidNow(r, x, h)' = SaidNow(r, x, g)
  BY <1>2, <1>3
<1>4. ASSUME NEW r \in Party, NEW x \in Party, r # x, ~(r = q /\ x = p)
      PROVE  HeardNow(x, r, h)' = HeardNow(x, r, g)
  <2>1. CASE x = p
    <3>1. HeardNow(p, r, g) \in Nat
      BY <1>4, <2>1, Counts
    <3>. QED BY <1>4, <2>1, <3>1
  <2>. QED BY <2>1, <1>2, <1>4
<1>5. ASSUME NEW r \in Party, NEW x \in Party, r # x, ~(r = q /\ x = p) PROVE Wire(r, x, h)'
  <2>1. Wire(r, x, g)
    BY <1>5 DEF Wires
  <2>2. SaidNow(r, x, h)' = SaidNow(r, x, g)
    BY <1>3, <1>5
  <2>. QED BY <2>1, <2>2, <1>1, <1>4, <1>5 DEF Wire
<1>6. Wire(q, p, h)'
  <2>1. Wire(q, p, g) /\ SaidNow(q, p, g) \in Nat /\ HeardNow(p, q, g) \in Nat
    BY Counts DEF Wires
  <2>2. HeardNow(p, q, h)' = HeardNow(p, q, g) + 1 /\ SaidNow(q, p, h)' = SaidNow(q, p, g)
    BY <1>3
  <2>3. /\ IsSeq(chan'[q][p]) /\ Len(chan[q][p]) \in Nat \ {0}
             /\ Len(chan'[q][p]) = Len(chan[q][p]) - 1
        /\ \A i \in 1 .. Len(chan[q][p]) - 1 : chan'[q][p][i] = chan[q][p][i + 1]
    BY <1>1, <2>1, TailSeq DEF Wire
  <2>4. ASSUME NEW i \in 1 .. Len(chan'[q][p])
        PROVE chan'[q][p][i] = Item(q, p, HeardNow(p, q, g) + 1 + i)
    <3>1. i + 1 \in 1 .. Len(chan[q][p]) /\ i \in 1 .. Len(chan[q][p]) - 1
      BY <2>3
    <3>2. HeardNow(p, q, g) + (i + 1) = HeardNow(p, q, g) + 1 + i
      BY <2>1, <3>1
    <3>3. chan[q][p][i + 1] = Item(q, p, HeardNow(p, q, g) + (i + 1))
      BY <2>1, <3>1 DEF Wire
    <3>. QED BY <2>3, <3>1, <3>2, <3>3
  <2>5. HeardNow(p, q, h)' + Len(chan'[q][p]) = SaidNow(q, p, h)'
    <3>1. HeardNow(p, q, g) + Len(chan[q][p]) = SaidNow(q, p, g)
      BY <2>1 DEF Wire
    <3>2. /\ HeardNow(p, q, h)' = HeardNow(p, q, g) + 1 /\ SaidNow(q, p, h)' = SaidNow(q, p, g)
          /\ Len(chan[q][p]) \in Nat /\ Len(chan'[q][p]) = Len(chan[q][p]) - 1
      BY <2>2, <2>3
    <3>3. HeardNow(p, q, g) + 1 + (Len(chan[q][p]) - 1) = HeardNow(p, q, g) + Len(chan[q][p])
      BY SMTT(30), <2>1, <3>2
    <3>. QED BY ONLY <3>1, <3>2, <3>3
  <2>6. \A i \in 1 .. Len(chan'[q][p]) : chan'[q][p][i] = Item(q, p, HeardNow(p, q, h)' + i)
    BY <2>2, <2>4
  <2>. QED BY <2>3, <2>5, <2>6 DEF Wire
<1>7. \A r \in Party : UNCHANGED chan[r][r]
  BY <1>1
<1>. QED BY <1>5, <1>6, <1>7 DEF Wires

-----------------------------------------------------------------------------
(***************************************************************************)
(* What the sets of Stored and LeaderStored are in the other phases.       *)
(***************************************************************************)
LEMMA SharesAre ==
  ASSUME NEW p \in Party, NEW ph \in Phases, NEW t \in 1 .. N - 1
  PROVE  /\ Pos(p, ph) < 2 \/ (ph = "shareReceive" /\ t = 1) => SharesOf(p, ph, t) = {p}
         /\ Pos(p, ph) > 2 => SharesOf(p, ph, t) = Party
<1>1. \A q \in Party : q # p => At(p, q) \in Nat /\ At(p, q) >= 1
  BY Sizes, AtOther
<1>2. ASSUME Pos(p, ph) < 2 \/ (ph = "shareReceive" /\ t = 1) PROVE SharesOf(p, ph, t) = {p}
  <2>1. \A q \in Party : q # p => HeardShare(p, q, ph, t) = 0
    BY <1>1, <1>2 DEF HeardShare, Pos, Phases
  <2>. QED BY <2>1 DEF SharesOf
<1>3. ASSUME Pos(p, ph) > 2 PROVE SharesOf(p, ph, t) = Party
  <2>1. \A q \in Party : q # p => HeardShare(p, q, ph, t) = 1
    BY <1>3 DEF HeardShare
  <2>. QED BY <2>1 DEF SharesOf
<1>. QED BY <1>2, <1>3

LEMMA PolysAre ==
  ASSUME NEW p \in Party, NEW ph \in Phases, NEW t \in 1 .. N - 1, NEW c \in Nat
  PROVE  /\ Pos(p, ph) < 3 \/ (ph = "poly" /\ t = 1 /\ c = 0) =>
              PolysOf(p, ph, t, c) = {<<p, d>> : d \in 0 .. SetSize}
         /\ Pos(p, ph) > 3 => PolysOf(p, ph, t, c) = {x \in Party \X (0 .. SetSize) : x[1] <= p}
<1>. DEFINE Own == {<<p, d>> : d \in 0 .. SetSize}
<1>1. \A q \in Party : q # p => CycAt(p, q) \in Nat /\ CycAt(p, q) >= 1
  BY Sizes, AtCyclic
<1>2. \A x \in Party \X (0 .. SetSize) : x[1] \in Party /\ x[1] \in Nat /\ x[2] \in Nat
        /\ x[2] < PolyLen
  BY Sizes DEF PolyLen
<1>3. ASSUME Pos(p, ph) < 3 \/ (ph = "poly" /\ t = 1 /\ c = 0) PROVE PolysOf(p, ph, t, c) = Own
  <2>1. \A q \in Party : q < p => PolyCount(p, q, ph, t, c) = 0
    BY <1>1, <1>3, Sizes DEF PolyCount, Pos, Phases
  <2>2. {x \in Party \X (0 .. SetSize) : x[1] < p /\ x[2] < PolyCount(p, x[1], ph, t, c)} = {}
    BY <1>2, <2>1
  <2>. QED BY <2>2 DEF PolysOf
<1>4. ASSUME Pos(p, ph) > 3 PROVE PolysOf(p, ph, t, c) = {x \in Party \X (0 .. SetSize) : x[1] <= p}
  <2>1. \A q \in Party : PolyCount(p, q, ph, t, c) = PolyLen
    BY <1>4, Sizes DEF PolyCount, Pos, Phases
  <2>. DEFINE Theirs == {x \in Party \X (0 .. SetSize) : x[1] < p
                /\ x[2] < PolyCount(p, x[1], ph, t, c)}
  <2>2. Theirs = {x \in Party \X (0 .. SetSize) : x[1] < p}
    BY <1>2, <2>1
  <2>3. Own = {x \in Party \X (0 .. SetSize) : x[1] = p}
    OBVIOUS
  <2>. HIDE DEF Own, Theirs
  <2>4. Own \cup Theirs = {x \in Party \X (0 .. SetSize) : x[1] <= p}
    <3>1. \A x \in Party \X (0 .. SetSize) : x[1] <= p <=> x[1] = p \/ x[1] < p
      BY <1>2, Sizes
    <3>. QED BY <2>2, <2>3, <3>1
  <2>. QED BY <2>4 DEF PolysOf, Own, Theirs
<1>. QED BY <1>3, <1>4

LEMMA KeysAre ==
  ASSUME NEW ph \in Phases, NEW t \in 1 .. N - 1
  PROVE  /\ Pos(Leader, ph) < 6 \/ (ph = "keys" /\ t = 1) => KeysOf(ph, t) = {Leader}
         /\ Pos(Leader, ph) > 6 => KeysOf(ph, t) = Party
<1>1. \A q \in Party : q # Leader => At(Leader, q) \in Nat /\ At(Leader, q) >= 1
  BY Sizes, AtOther
<1>2. ASSUME Pos(Leader, ph) < 6 \/ (ph = "keys" /\ t = 1) PROVE KeysOf(ph, t) = {Leader}
  <2>1. \A q \in Party : q # Leader => HeardKey(Leader, q, ph, t) = 0
    BY <1>1, <1>2 DEF HeardKey, Pos, Phases
  <2>. QED BY <2>1 DEF KeysOf
<1>3. ASSUME Pos(Leader, ph) > 6 PROVE KeysOf(ph, t) = Party
  <2>1. \A q \in Party : q # Leader => HeardKey(Leader, q, ph, t) = 1
    BY <1>3 DEF HeardKey
  <2>. QED BY <2>1, Sizes DEF KeysOf
<1>. QED BY <1>2, <1>3

\* What p passes on is the sum so far and its own.
LEMMA SharedIs ==
  ASSUME NEW p \in Party, NEW ph \in Phases, NEW t \in 1 .. N - 1, NEW c \in Nat, Pos(p, ph) > 3,
         polys[p] = PolysOf(p, ph, t, c)
  PROVE  Shared(p) = {s \in Party \X Party : s[1] = p /\ s[2] <= p}
<1>1. polys[p] = {x \in Party \X (0 .. SetSize) : x[1] <= p}
  BY PolysAre
<1>2. 0 \in 0 .. SetSize
  BY Sizes
<1>3. \A j \in Party : {<<j, c1>> : c1 \in 0 .. SetSize} \subseteq polys[p] <=> j <= p
  <2>1. ASSUME NEW j \in Party, {<<j, c1>> : c1 \in 0 .. SetSize} \subseteq polys[p] PROVE j <= p
    <3>1. <<j, 0>> \in polys[p]
      BY <1>2, <2>1
    <3>. QED BY <3>1, <1>1
  <2>2. ASSUME NEW j \in Party, j <= p PROVE {<<j, c1>> : c1 \in 0 .. SetSize} \subseteq polys[p]
    BY <1>1, <2>2
  <2>. QED BY <2>1, <2>2
<1>4. {j \in Party : {<<j, c1>> : c1 \in 0 .. SetSize} \subseteq polys[p]} = {j \in Party : j <= p}
  BY <1>3
<1>5. Shared(p) = {<<p, i>> : i \in {j \in Party : j <= p}}
  BY <1>4 DEF Shared
<1>. QED BY <1>5

LEMMA RingStep ==
  ASSUME NEW p \in Party
  PROVE  LET Mine == {s \in Party \X Party : s[1] = p /\ s[2] <= p}
         IN  /\ p = Leader => RingBody(p) = Mine
             /\ p # Leader => RingBody(p) = RingBody(Previous(p)) \cup Mine
<1>1. p = Leader => Upto(p) = {p}
  BY Sizes DEF Upto
<1>2. p # Leader => Upto(p) = Upto(Previous(p)) \cup {p}
  BY Sizes DEF Upto, Previous
<1>. DEFINE Mine == {s \in Party \X Party : s[1] = p /\ s[2] <= p}
<1>3. Mine = {s \in Party \X Party : s[1] \in {p} /\ s[2] <= s[1]}
  OBVIOUS
<1>4. p = Leader => RingBody(p) = Mine
  BY <1>1, <1>3 DEF RingBody
<1>5. p # Leader => RingBody(p) = RingBody(Previous(p)) \cup Mine
  <2>. HIDE DEF Mine
  <2>. QED BY <1>2, <1>3 DEF RingBody
<1>. QED BY <1>4, <1>5

\* Once around, it is everything.
LEMMA WholeRing == RingBody(Previous(Leader)) = {s \in Party \X Party : s[2] <= s[1]}
<1>1. Upto(Previous(Leader)) = Party
  BY Sizes DEF Upto, Previous
<1>. QED BY <1>1 DEF RingBody

-----------------------------------------------------------------------------
(***************************************************************************)
(* Every step keeps the invariant.                                         *)
(***************************************************************************)
\* Only p moves.
Alone(p) == \A r \in Party : r # p => UNCHANGED <<phase[r], turn[r], coef[r], ring[r]>>

LEMMA Bounds == RingLen \in Nat /\ Count \subseteq Nat
  /\ \A g \in [Party -> Count] : g \in [Party -> Nat]
<1>1. RingLen \in Nat
  BY Sizes DEF RingLen
<1>2. Count \subseteq Nat
  BY <1>1 DEF Count
<1>. HIDE DEF Count
<1>. QED BY <1>1, <1>2

LEMMA Together ==
  ASSUME NEW g \in [Party -> Count], Inv(g), NEW h \in [Party -> Count], NEW p \in Party,
         Alone(p), \A r \in Party : r # p => h[r] = g[r],
         KType', Wires(h)', \A r \in Party : UNCHANGED chan[r][r], Placed(p, h)',
         \A r \in Party : r # p => UNCHANGED <<share[r], polys[r]>>,
         share'[p] = SharesOf(p, phase'[p], turn'[p]),
         polys'[p] = PolysOf(p, phase'[p], turn'[p], coef'[p]),
         IsSeq(ring'[p]), \A i \in 1 .. Len(ring'[p]) : ring'[p][i] = RingBody(Previous(p)),
         LeaderStored'
  PROVE  Inv(h)'
<1>1. ASSUME NEW r \in Party, r # p PROVE Placed(r, h)' /\ Stored(r)'
  <2>1. Placed(r, g) /\ Stored(r)
    BY DEF Inv
  <2>2. UNCHANGED <<phase[r], turn[r], coef[r], ring[r], share[r], polys[r], chan[r][r]>>
          /\ h[r] = g[r]
    BY <1>1 DEF Alone
  <2>3. Placed(r, h)'
    BY <2>1, <2>2 DEF Placed
  <2>4. Stored(r)'
    BY <2>1, <2>2 DEF Stored
  <2>. QED BY <2>3, <2>4
<1>2. Stored(p)'
  BY DEF Inv, Stored
<1>. QED BY <1>1, <1>2 DEF Inv

\* What the leader has collected does not change while a follower moves.
LEMMA NotTheLeader ==
  ASSUME NEW p \in Party, p # Leader, Alone(p), LeaderStored, UNCHANGED <<keys, answers, decrypted>>
  PROVE  LeaderStored'
BY Sizes DEF Alone, LeaderStored

\* Before the last part of the program it has its own key and nothing else.
LEMMA LeaderEarly ==
  ASSUME LeaderStored, UNCHANGED <<keys, decrypted>>,
         phase[Leader] \in Phases, turn[Leader] \in 1 .. N - 1, Pos(Leader, phase[Leader]) < 6,
         phase'[Leader] \in Phases, turn'[Leader] \in 1 .. N - 1,
         Pos(Leader, phase'[Leader]) < 6 \/ (phase'[Leader] = "keys" /\ turn'[Leader] = 1)
  PROVE  LeaderStored'
<1>1. phase[Leader] \notin {"ask", "collect", "done"}
        /\ phase'[Leader] \notin {"ask", "collect", "done"}
  BY DEF Pos
<1>2. KeysOf(phase[Leader], turn[Leader]) = {Leader}
        /\ KeysOf(phase'[Leader], turn'[Leader]) = {Leader}
  BY KeysAre
<1>. QED BY <1>1, <1>2 DEF LeaderStored, Completed

\* Before the values arrive and after the polynomials it has the same.
LEMMA Staying ==
  ASSUME NEW p \in Party, Stored(p), share'[p] = share[p], polys'[p] = polys[p],
         phase[p] \in Phases, turn[p] \in 1 .. N - 1, coef[p] \in Nat,
         phase'[p] \in Phases, turn'[p] \in 1 .. N - 1, coef'[p] \in Nat,
         \/ /\ phase[p] \in {"params", "shareSend"}
            /\ phase'[p] \in {"params", "shareSend"} \/ (phase'[p] = "shareReceive" /\ turn'[p] = 1)
         \/ Pos(p, phase[p]) > 3 /\ Pos(p, phase'[p]) > 3
  PROVE  /\ share'[p] = SharesOf(p, phase'[p], turn'[p])
         /\ polys'[p] = PolysOf(p, phase'[p], turn'[p], coef'[p])
<1>1. share[p] = SharesOf(p, phase[p], turn[p]) /\ polys[p] = PolysOf(p, phase[p], turn[p], coef[p])
  BY DEF Stored
<1>2. CASE Pos(p, phase[p]) > 3 /\ Pos(p, phase'[p]) > 3
  <2>1. Pos(p, phase[p]) > 2 /\ Pos(p, phase'[p]) > 2
    BY <1>2 DEF Pos
  <2>2. SharesOf(p, phase[p], turn[p]) = Party /\ SharesOf(p, phase'[p], turn'[p]) = Party
    BY <2>1, SharesAre
  <2>3. PolysOf(p, phase[p], turn[p], coef[p]) = {x \in Party \X (0 .. SetSize) : x[1] <= p}
    BY <1>2, PolysAre
  <2>4. PolysOf(p, phase'[p], turn'[p], coef'[p]) = {x \in Party \X (0 .. SetSize) : x[1] <= p}
    BY <1>2, PolysAre
  <2>. QED BY <1>1, <2>2, <2>3, <2>4
<1>3. CASE /\ phase[p] \in {"params", "shareSend"}
           /\ phase'[p] \in {"params", "shareSend"} \/ (phase'[p] = "shareReceive" /\ turn'[p] = 1)
  <2>1. /\ Pos(p, phase[p]) < 2 /\ Pos(p, phase[p]) < 3 /\ Pos(p, phase'[p]) < 3
        /\ Pos(p, phase'[p]) < 2 \/ (phase'[p] = "shareReceive" /\ turn'[p] = 1)
    BY <1>3 DEF Pos
  <2>2. SharesOf(p, phase[p], turn[p]) = {p} /\ SharesOf(p, phase'[p], turn'[p]) = {p}
    BY <2>1, SharesAre
  <2>3. PolysOf(p, phase[p], turn[p], coef[p]) = {<<p, d>> : d \in 0 .. SetSize}
    BY <2>1, PolysAre
  <2>4. PolysOf(p, phase'[p], turn'[p], coef'[p]) = {<<p, d>> : d \in 0 .. SetSize}
    BY <2>1, PolysAre
  <2>. QED BY <1>1, <2>2, <2>3, <2>4
<1>. QED BY <1>2, <1>3

\* The leader hands out the parameters.
LEMMA ParamsSendKeeps ==
  ASSUME NEW g \in [Party -> Count], Inv(g), NEW p \in Party, p = Leader, Params(p)
  PROVE  Inv(g)'
<1>. DEFINE t == turn[p]
            q == Other(p, t)
            m == Number("params", 0, {})
<1>1. /\ KType /\ Wires(g) /\ (\A r \in Party : Placed(r, g)) /\ Stored(p) /\ LeaderStored
      /\ phase[p] = "params" /\ t \in 1 .. N - 1 /\ coef[p] = 0 /\ Len(ring[p]) = 0 /\ g[p] = 0
      /\ Place(p, "params", t, 0, 0, 0)
  BY DEF Inv, Placed, Place, Params, Pos
<1>2. /\ Send(p, q, m) /\ phase'[p] = (IF t = N - 1 THEN "shareSend" ELSE "params")
           /\ turn'[p] = (IF t = N - 1 THEN 1 ELSE t + 1) /\ coef'[p] = coef[p]
      /\ UNCHANGED <<share, polys, ring, keys, answers, decrypted>>
      /\ \A r \in Party : r # p
           => UNCHANGED <<phase[r], turn[r], coef[r], ring[r], share[r], polys[r]>>
      /\ KType'
  BY <1>1 DEF Params, NextTurn, SharingStart, KType, Send
<1>3. q \in Party /\ q # p
  BY <1>1, OtherAt
<1>4. ASSUME NEW r \in Party, r # p
      PROVE  /\ Place(p, phase'[p], turn'[p], 0, 0, 0)
             /\ Said(p, r, phase'[p], turn'[p], 0, 0)
                  = Said(p, r, "params", t, 0, 0) + IF r = q THEN 1 ELSE 0
             /\ Heard(p, r, phase'[p], turn'[p], 0, 0, 0)
                  = Heard(p, r, "params", t, 0, 0, 0)
  BY <1>1, <1>2, <1>4, ParamsTurn
<1>5. Item(p, q, Said(p, q, "params", t, 0, 0) + 1) = m
  BY <1>1, <1>2, <1>3, ParamsTurn
<1>6. Alone(p)
  BY <1>2 DEF Alone
<1>7. /\ Len(ring'[p]) = 0 /\ IsSeq(ring'[p])
      /\ \A i \in 1 .. Len(ring'[p]) : ring'[p][i] = RingBody(Previous(p))
  BY <1>1, <1>2 DEF Stored
<1>. HIDE DEF q, m
<1>8. ASSUME NEW r \in Party, r # p
      PROVE  /\ SaidNow(p, r, g)' = SaidNow(p, r, g) + IF r = q THEN 1 ELSE 0
             /\ HeardNow(p, r, g)' = HeardNow(p, r, g)
  BY <1>1, <1>2, <1>4, <1>7, <1>8 DEF SaidNow, HeardNow
<1>9. m = Item(p, q, SaidNow(p, q, g) + 1)
  BY <1>1, <1>3, <1>5 DEF SaidNow
<1>10. Wires(g)' /\ \A r \in Party : UNCHANGED chan[r][r]
  <2>1. g \in [Party -> Nat]
    BY Bounds
  <2>. QED BY <2>1, <1>1, <1>2, <1>3, <1>8, <1>9, Sending
<1>11. Placed(p, g)'
  BY <1>1, <1>2, <1>3, <1>4, <1>7 DEF Placed
<1>12. phase'[p] \in Phases /\ turn'[p] \in 1 .. N - 1 /\ coef'[p] \in Nat
  BY <1>11 DEF Placed, Place
<1>13. share'[p] = SharesOf(p, phase'[p], turn'[p])
         /\ polys'[p] = PolysOf(p, phase'[p], turn'[p], coef'[p])
  BY <1>1, <1>2, <1>12, Staying DEF Phases, Pos
<1>14. LeaderStored'
  BY <1>1, <1>2, <1>6, <1>12, NotTheLeader, LeaderEarly DEF Phases, Pos
<1>. QED BY <1>2, <1>6, <1>7, <1>10, <1>11, <1>13, <1>14, Together

\* A follower takes them.
LEMMA ParamsReceiveKeeps ==
  ASSUME NEW g \in [Party -> Count], Inv(g), NEW p \in Party, p # Leader, Params(p)
  PROVE  Inv(g)'
<1>. DEFINE q == Leader
            m == Number("params", 0, {})
<1>1. /\ KType /\ Wires(g) /\ (\A r \in Party : Placed(r, g)) /\ Stored(p) /\ LeaderStored
      /\ phase[p] = "params" /\ turn[p] = 1 /\ coef[p] = 0 /\ Len(ring[p]) = 0 /\ g[p] = 0
  BY DEF Inv, Placed, Place, Params, Pos
<1>2. /\ Receive(p, q) /\ phase'[p] = ("shareSend") /\ turn'[p] = (1) /\ coef'[p] = coef[p]
      /\ UNCHANGED <<turn, share, polys, ring, keys, answers, decrypted>>
      /\ \A r \in Party : r # p
           => UNCHANGED <<phase[r], turn[r], coef[r], ring[r], share[r], polys[r]>>
      /\ KType'
  BY <1>1 DEF Params, SharingStart, KType, Receive
<1>3. q \in Party /\ q # p
  BY Sizes
<1>4. ASSUME NEW r \in Party, r # p
      PROVE  /\ Place(p, phase'[p], turn'[p], 0, 0, 0)
             /\ Said(p, r, phase'[p], turn'[p], 0, 0)
                  = Said(p, r, "params", 1, 0, 0)
             /\ Heard(p, r, phase'[p], turn'[p], 0, 0, 0)
                  = Heard(p, r, "params", 1, 0, 0, 0) + IF r = q THEN 1 ELSE 0
  BY <1>1, <1>2, <1>4, ParamsRead
<1>5. Item(q, p, Heard(p, q, "params", 1, 0, 0, 0) + 1) = m
  BY <1>1, <1>2, <1>3, ParamsRead
<1>6. Alone(p)
  BY <1>2 DEF Alone
<1>7. /\ Len(ring'[p]) = 0 /\ IsSeq(ring'[p])
      /\ \A i \in 1 .. Len(ring'[p]) : ring'[p][i] = RingBody(Previous(p))
  BY <1>1, <1>2 DEF Stored
<1>. HIDE DEF q, m
<1>8. Incoming(p, q) = m
  <2>1. Incoming(p, q) = Item(q, p, HeardNow(p, q, g) + 1)
    BY <1>1, <1>2, <1>3, NextNumber, Bounds DEF Receive
  <2>. QED BY <2>1, <1>1, <1>3, <1>5 DEF HeardNow
<1>9. ASSUME NEW r \in Party, r # p
      PROVE  /\ SaidNow(p, r, g)' = SaidNow(p, r, g)
             /\ HeardNow(p, r, g)' = HeardNow(p, r, g) + IF r = q THEN 1 ELSE 0
  BY <1>1, <1>2, <1>4, <1>7, <1>9 DEF SaidNow, HeardNow
<1>10. Wires(g)' /\ \A r \in Party : UNCHANGED chan[r][r]
  <2>1. Receive(p, q) /\ KType /\ Wires(g) /\ \A r \in Party : Placed(r, g)
    BY <1>1, <1>2
  <2>2. \A r \in Party : r # p => UNCHANGED <<phase[r], turn[r], coef[r], ring[r]>> /\ g[r] = g[r]
    BY <1>2
  <2>. QED BY <2>1, <2>2, <1>3, <1>9, Reading, Bounds
<1>11. Placed(p, g)'
  BY <1>1, <1>2, <1>3, <1>4, <1>7 DEF Placed
<1>12. phase'[p] \in Phases /\ turn'[p] \in 1 .. N - 1 /\ coef'[p] \in Nat
  BY <1>11 DEF Placed, Place
<1>13. share'[p] = SharesOf(p, phase'[p], turn'[p])
         /\ polys'[p] = PolysOf(p, phase'[p], turn'[p], coef'[p])
  BY <1>1, <1>2, <1>12, Staying DEF Phases, Pos
<1>14. LeaderStored'
  BY <1>1, <1>2, <1>6, NotTheLeader
<1>. QED BY <1>2, <1>6, <1>7, <1>10, <1>11, <1>13, <1>14, Together

\* A value of the key is handed out.
LEMMA ShareSendKeeps ==
  ASSUME NEW g \in [Party -> Count], Inv(g), NEW p \in Party, ShareSend(p)
  PROVE  Inv(g)'
<1>. DEFINE t == turn[p]
            q == Other(p, t)
            m == Number("share", 0, {p})
<1>1. /\ KType /\ Wires(g) /\ (\A r \in Party : Placed(r, g)) /\ Stored(p) /\ LeaderStored
      /\ phase[p] = "shareSend" /\ t \in 1 .. N - 1 /\ coef[p] = 0 /\ Len(ring[p]) = 0 /\ g[p] = 0
  BY DEF Inv, Placed, Place, ShareSend, Pos
<1>2. /\ Send(p, q, m) /\ phase'[p] = (IF t = N - 1 THEN "shareReceive" ELSE "shareSend")
           /\ turn'[p] = (IF t = N - 1 THEN 1 ELSE t + 1) /\ coef'[p] = coef[p]
      /\ UNCHANGED <<share, polys, ring, keys, answers, decrypted>>
      /\ \A r \in Party : r # p
           => UNCHANGED <<phase[r], turn[r], coef[r], ring[r], share[r], polys[r]>>
      /\ KType'
  BY <1>1 DEF ShareSend, NextTurn, KType, Send
<1>3. q \in Party /\ q # p
  BY <1>1, OtherAt
<1>4. ASSUME NEW r \in Party, r # p
      PROVE  /\ Place(p, phase'[p], turn'[p], 0, 0, 0)
             /\ Said(p, r, phase'[p], turn'[p], 0, 0)
                  = Said(p, r, "shareSend", t, 0, 0) + IF r = q THEN 1 ELSE 0
             /\ Heard(p, r, phase'[p], turn'[p], 0, 0, 0)
                  = Heard(p, r, "shareSend", t, 0, 0, 0)
  BY <1>1, <1>2, <1>4, ShareSendTurn
<1>5. Item(p, q, Said(p, q, "shareSend", t, 0, 0) + 1) = m
  <2>1. Item(p, q, Said(p, q, "shareSend", t, 0, 0) + 1) = Number("share", 0, Only(p))
    BY <1>1, <1>2, <1>3, ShareSendTurn
  <2>. QED BY <2>1 DEF Only
<1>6. Alone(p)
  BY <1>2 DEF Alone
<1>7. /\ Len(ring'[p]) = 0 /\ IsSeq(ring'[p])
      /\ \A i \in 1 .. Len(ring'[p]) : ring'[p][i] = RingBody(Previous(p))
  BY <1>1, <1>2 DEF Stored
<1>. HIDE DEF q, m
<1>8. ASSUME NEW r \in Party, r # p
      PROVE  /\ SaidNow(p, r, g)' = SaidNow(p, r, g) + IF r = q THEN 1 ELSE 0
             /\ HeardNow(p, r, g)' = HeardNow(p, r, g)
  BY <1>1, <1>2, <1>4, <1>7, <1>8 DEF SaidNow, HeardNow
<1>9. m = Item(p, q, SaidNow(p, q, g) + 1)
  BY <1>1, <1>3, <1>5 DEF SaidNow
<1>10. Wires(g)' /\ \A r \in Party : UNCHANGED chan[r][r]
  <2>1. g \in [Party -> Nat]
    BY Bounds
  <2>. QED BY <2>1, <1>1, <1>2, <1>3, <1>8, <1>9, Sending
<1>11. Placed(p, g)'
  BY <1>1, <1>2, <1>3, <1>4, <1>7 DEF Placed
<1>12. phase'[p] \in Phases /\ turn'[p] \in 1 .. N - 1 /\ coef'[p] \in Nat
  BY <1>11 DEF Placed, Place
<1>13. share'[p] = SharesOf(p, phase'[p], turn'[p])
         /\ polys'[p] = PolysOf(p, phase'[p], turn'[p], coef'[p])
  BY <1>1, <1>2, <1>12, Staying DEF Phases, Pos
<1>14. LeaderStored'
  BY <1>1, <1>2, <1>6, <1>12, NotTheLeader, LeaderEarly DEF Phases, Pos
<1>. QED BY <1>2, <1>6, <1>7, <1>10, <1>11, <1>13, <1>14, Together

\* A value of the key is added.
LEMMA ShareReceiveKeeps ==
  ASSUME NEW g \in [Party -> Count], Inv(g), NEW p \in Party, ShareReceive(p)
  PROVE  Inv(g)'
<1>. DEFINE t == turn[p]
            q == Other(p, t)
            m == Number("share", 0, {q})
<1>1. /\ KType /\ Wires(g) /\ (\A r \in Party : Placed(r, g)) /\ Stored(p) /\ LeaderStored
      /\ phase[p] = "shareReceive" /\ t \in 1 .. N - 1 /\ coef[p] = 0 /\ Len(ring[p]) = 0
           /\ g[p] = 0
  BY DEF Inv, Placed, Place, ShareReceive, Pos
<1>2. /\ Receive(p, q) /\ phase'[p] = (IF t = N - 1 THEN "poly" ELSE "shareReceive")
           /\ turn'[p] = (IF t = N - 1 THEN 1 ELSE t + 1) /\ coef'[p] = coef[p]
                /\ share'[p] = share[p] \cup Incoming(p, q).body
      /\ UNCHANGED <<polys, ring, keys, answers, decrypted>>
      /\ \A r \in Party : r # p
           => UNCHANGED <<phase[r], turn[r], coef[r], ring[r], share[r], polys[r]>>
      /\ KType'
  BY <1>1 DEF ShareReceive, NextTurn, KType, Receive
<1>3. q \in Party /\ q # p
  BY <1>1, OtherAt
<1>4. ASSUME NEW r \in Party, r # p
      PROVE  /\ Place(p, phase'[p], turn'[p], 0, 0, 0)
             /\ Said(p, r, phase'[p], turn'[p], 0, 0)
                  = Said(p, r, "shareReceive", t, 0, 0)
             /\ Heard(p, r, phase'[p], turn'[p], 0, 0, 0)
                  = Heard(p, r, "shareReceive", t, 0, 0, 0) + IF r = q THEN 1 ELSE 0
  BY <1>1, <1>2, <1>4, ShareReadTurn
<1>5. Item(q, p, Heard(p, q, "shareReceive", t, 0, 0, 0) + 1) = m
  <2>1. Item(q, p, Heard(p, q, "shareReceive", t, 0, 0, 0) + 1) = Number("share", 0, Only(q))
    BY <1>1, <1>2, <1>3, ShareReadTurn
  <2>. QED BY <2>1 DEF Only
<1>6. Alone(p)
  BY <1>2 DEF Alone
<1>7. /\ Len(ring'[p]) = 0 /\ IsSeq(ring'[p])
      /\ \A i \in 1 .. Len(ring'[p]) : ring'[p][i] = RingBody(Previous(p))
  BY <1>1, <1>2 DEF Stored
<1>. HIDE DEF q, m
<1>8. Incoming(p, q) = m
  <2>1. Incoming(p, q) = Item(q, p, HeardNow(p, q, g) + 1)
    BY <1>1, <1>2, <1>3, NextNumber, Bounds DEF Receive
  <2>. QED BY <2>1, <1>1, <1>3, <1>5 DEF HeardNow
<1>9. ASSUME NEW r \in Party, r # p
      PROVE  /\ SaidNow(p, r, g)' = SaidNow(p, r, g)
             /\ HeardNow(p, r, g)' = HeardNow(p, r, g) + IF r = q THEN 1 ELSE 0
  BY <1>1, <1>2, <1>4, <1>7, <1>9 DEF SaidNow, HeardNow
<1>10. Wires(g)' /\ \A r \in Party : UNCHANGED chan[r][r]
  <2>1. Receive(p, q) /\ KType /\ Wires(g) /\ \A r \in Party : Placed(r, g)
    BY <1>1, <1>2
  <2>2. \A r \in Party : r # p => UNCHANGED <<phase[r], turn[r], coef[r], ring[r]>> /\ g[r] = g[r]
    BY <1>2
  <2>. QED BY <2>1, <2>2, <1>3, <1>9, Reading, Bounds
<1>11. Placed(p, g)'
  BY <1>1, <1>2, <1>3, <1>4, <1>7 DEF Placed
<1>12. phase'[p] \in Phases /\ turn'[p] \in 1 .. N - 1 /\ coef'[p] \in Nat
  BY <1>11 DEF Placed, Place
<1>13. share'[p] = SharesOf(p, phase'[p], turn'[p])
         /\ polys'[p] = PolysOf(p, phase'[p], turn'[p], coef'[p])
  <2>1. /\ share'[p] = SharesOf(p, "shareReceive", t) \cup {q}
        /\ polys'[p] = PolysOf(p, "shareReceive", t, 0)
    BY <1>1, <1>2, <1>8 DEF Stored, m, Number
  <2>2. ASSUME NEW r \in Party, r # p
        PROVE  HeardShare(p, r, phase'[p], turn'[p]) = 1
                 <=> HeardShare(p, r, "shareReceive", t) = 1 \/ r = q
    <3>1. At(p, r) \in 1 .. N - 1 /\ (r = q <=> At(p, r) = t) /\ N \in Nat
      <4>1. At(p, q) = t
        BY <1>1, OtherAt DEF q
      <4>2. At(p, r) \in 1 .. N - 1 /\ Other(p, At(p, r)) = r
        BY <2>2, AtOther
      <4>. QED BY <4>1, <4>2, Sizes DEF q
    <3>. QED BY <3>1, <1>1, <1>2 DEF HeardShare, Pos
  <2>3. SharesOf(p, phase'[p], turn'[p]) = SharesOf(p, "shareReceive", t) \cup {q}
    BY <2>2, <1>3 DEF SharesOf
  <2>4. PolysOf(p, "shareReceive", t, 0) = {<<p, d>> : d \in 0 .. SetSize}
    BY <1>1, PolysAre DEF Phases, Pos
  <2>5. PolysOf(p, phase'[p], turn'[p], coef'[p]) = {<<p, d>> : d \in 0 .. SetSize}
    BY <1>1, <1>2, <1>12, PolysAre DEF Pos
  <2>. QED BY <2>1, <2>3, <2>4, <2>5
<1>14. LeaderStored'
  BY <1>1, <1>2, <1>6, <1>12, NotTheLeader, LeaderEarly DEF Phases, Pos
<1>. QED BY <1>2, <1>6, <1>7, <1>10, <1>11, <1>13, <1>14, Together

\* A coefficient goes to a party above.
LEMMA PolySendKeeps ==
  ASSUME NEW g \in [Party -> Count], Inv(g), NEW p \in Party, Cyclic(p, turn[p]) > p, Poly(p)
  PROVE  Inv(g)'
<1>. DEFINE t == turn[p]
            c == coef[p]
            q == Cyclic(p, t)
            m == Number("poly", c, {p})
<1>1. /\ KType /\ Wires(g) /\ (\A r \in Party : Placed(r, g)) /\ Stored(p) /\ LeaderStored
      /\ phase[p] = "poly" /\ t \in 1 .. N - 1 /\ c \in 0 .. SetSize /\ Len(ring[p]) = 0 /\ g[p] = 0
  BY DEF Inv, Placed, Place, Poly, Pos
<1>2. /\ Send(p, q, m)
           /\ phase'[p] = (IF c = SetSize /\ t = N - 1 THEN AfterPoly(p) ELSE "poly")
                /\ turn'[p] = (IF c # SetSize THEN t ELSE IF t = N - 1 THEN 1 ELSE t + 1)
                     /\ coef'[p] = (IF c = SetSize THEN 0 ELSE c + 1)
      /\ UNCHANGED <<share, polys, ring, keys, answers, decrypted>>
      /\ q > p
      /\ \A r \in Party : r # p
           => UNCHANGED <<phase[r], turn[r], coef[r], ring[r], share[r], polys[r]>>
      /\ KType'
  BY <1>1 DEF Poly, NextTurn, KType, Send
<1>3. q \in Party /\ q # p
  BY <1>1, CyclicAt
<1>4. ASSUME NEW r \in Party, r # p
      PROVE  /\ Place(p, phase'[p], turn'[p], coef'[p], 0, 0)
             /\ Said(p, r, phase'[p], turn'[p], coef'[p], 0)
                  = Said(p, r, "poly", t, c, 0) + IF r = q THEN 1 ELSE 0
             /\ Heard(p, r, phase'[p], turn'[p], coef'[p], 0, 0)
                  = Heard(p, r, "poly", t, c, 0, 0)
  BY <1>1, <1>2, <1>4, PolySendTurn
<1>5. Item(p, q, Said(p, q, "poly", t, c, 0) + 1) = m
  <2>1. Item(p, q, Said(p, q, "poly", t, c, 0) + 1) = Number("poly", c, Only(p))
    BY <1>1, <1>2, <1>3, PolySendTurn
  <2>. QED BY <2>1 DEF Only
<1>6. Alone(p)
  BY <1>2 DEF Alone
<1>7. /\ Len(ring'[p]) = 0 /\ IsSeq(ring'[p])
      /\ \A i \in 1 .. Len(ring'[p]) : ring'[p][i] = RingBody(Previous(p))
  BY <1>1, <1>2 DEF Stored
<1>. HIDE DEF q, m
<1>8. ASSUME NEW r \in Party, r # p
      PROVE  /\ SaidNow(p, r, g)' = SaidNow(p, r, g) + IF r = q THEN 1 ELSE 0
             /\ HeardNow(p, r, g)' = HeardNow(p, r, g)
  BY <1>1, <1>2, <1>4, <1>7, <1>8 DEF SaidNow, HeardNow
<1>9. m = Item(p, q, SaidNow(p, q, g) + 1)
  BY <1>1, <1>3, <1>5 DEF SaidNow
<1>10. Wires(g)' /\ \A r \in Party : UNCHANGED chan[r][r]
  <2>1. g \in [Party -> Nat]
    BY Bounds
  <2>. QED BY <2>1, <1>1, <1>2, <1>3, <1>8, <1>9, Sending
<1>11. Placed(p, g)'
  BY <1>1, <1>2, <1>3, <1>4, <1>7 DEF Placed
<1>12. phase'[p] \in Phases /\ turn'[p] \in 1 .. N - 1 /\ coef'[p] \in Nat
  BY <1>11 DEF Placed, Place
<1>13. share'[p] = SharesOf(p, phase'[p], turn'[p])
         /\ polys'[p] = PolysOf(p, phase'[p], turn'[p], coef'[p])
  <2>1. share'[p] = SharesOf(p, "poly", t) /\ polys'[p] = PolysOf(p, "poly", t, c)
    BY <1>1, <1>2 DEF Stored
  <2>2. SharesOf(p, "poly", t) = Party /\ SharesOf(p, phase'[p], turn'[p]) = Party
    BY <1>1, <1>2, <1>12, SharesAre DEF AfterPoly, Pos, Phases
  <2>3. ASSUME NEW r \in Party, r < p
        PROVE  PolyCount(p, r, phase'[p], turn'[p], coef'[p]) = PolyCount(p, r, "poly", t, c)
    <3>1. CycAt(p, r) \in 1 .. N - 1 /\ CycAt(p, r) # t /\ N \in Nat /\ SetSize \in Nat
      <4>1. CycAt(p, q) = t /\ q > p
        BY <1>1, <1>2, CyclicAt DEF q
      <4>2. CycAt(p, r) \in 1 .. N - 1 /\ Cyclic(p, CycAt(p, r)) = r /\ r # q
        BY <1>3, <2>3, <4>1, AtCyclic, Sizes
      <4>. QED BY <4>1, <4>2, Sizes DEF q
    <3>. QED BY <3>1, <1>1, <1>2 DEF PolyCount, AfterPoly, Pos
  <2>4. \A x \in Party \X (0 .. SetSize) : x[1] \in Party
    OBVIOUS
  <2>5. PolysOf(p, phase'[p], turn'[p], coef'[p]) = PolysOf(p, "poly", t, c)
    BY <2>3, <2>4 DEF PolysOf
  <2>. QED BY <2>1, <2>2, <2>5
<1>14. LeaderStored'
  BY <1>1, <1>2, <1>6, <1>12, NotTheLeader, LeaderEarly DEF AfterPoly, Phases, Pos
<1>. QED BY <1>2, <1>6, <1>7, <1>10, <1>11, <1>13, <1>14, Together

\* A coefficient comes from a party below.
LEMMA PolyReceiveKeeps ==
  ASSUME NEW g \in [Party -> Count], Inv(g), NEW p \in Party, ~(Cyclic(p, turn[p]) > p), Poly(p)
  PROVE  Inv(g)'
<1>. DEFINE t == turn[p]
            c == coef[p]
            q == Cyclic(p, t)
            m == Number("poly", c, {q})
<1>1. /\ KType /\ Wires(g) /\ (\A r \in Party : Placed(r, g)) /\ Stored(p) /\ LeaderStored
      /\ phase[p] = "poly" /\ t \in 1 .. N - 1 /\ c \in 0 .. SetSize /\ Len(ring[p]) = 0 /\ g[p] = 0
  BY DEF Inv, Placed, Place, Poly, Pos
<1>2. /\ Receive(p, q)
           /\ phase'[p] = (IF c = SetSize /\ t = N - 1 THEN AfterPoly(p) ELSE "poly")
                /\ turn'[p] = (IF c # SetSize THEN t ELSE IF t = N - 1 THEN 1 ELSE t + 1)
                     /\ coef'[p] = (IF c = SetSize THEN 0 ELSE c + 1)
      /\ UNCHANGED <<share, ring, keys, answers, decrypted>>
      /\ polys'[p] = polys[p] \cup {<<q, Incoming(p, q).coef>>} /\ ~(q > p)
      /\ \A r \in Party : r # p
           => UNCHANGED <<phase[r], turn[r], coef[r], ring[r], share[r], polys[r]>>
      /\ KType'
  BY <1>1 DEF Poly, NextTurn, KType, Receive
<1>3. q \in Party /\ q # p
  BY <1>1, CyclicAt
<1>4. ASSUME NEW r \in Party, r # p
      PROVE  /\ Place(p, phase'[p], turn'[p], coef'[p], 0, 0)
             /\ Said(p, r, phase'[p], turn'[p], coef'[p], 0)
                  = Said(p, r, "poly", t, c, 0)
             /\ Heard(p, r, phase'[p], turn'[p], coef'[p], 0, 0)
                  = Heard(p, r, "poly", t, c, 0, 0) + IF r = q THEN 1 ELSE 0
  BY <1>1, <1>2, <1>4, PolyReadTurn
<1>5. Item(q, p, Heard(p, q, "poly", t, c, 0, 0) + 1) = m
  <2>1. Item(q, p, Heard(p, q, "poly", t, c, 0, 0) + 1) = Number("poly", c, Only(q))
    BY <1>1, <1>2, <1>3, PolyReadTurn
  <2>. QED BY <2>1 DEF Only
<1>6. Alone(p)
  BY <1>2 DEF Alone
<1>7. /\ Len(ring'[p]) = 0 /\ IsSeq(ring'[p])
      /\ \A i \in 1 .. Len(ring'[p]) : ring'[p][i] = RingBody(Previous(p))
  BY <1>1, <1>2 DEF Stored
<1>. HIDE DEF q, m
<1>8. Incoming(p, q) = m
  <2>1. Incoming(p, q) = Item(q, p, HeardNow(p, q, g) + 1)
    BY <1>1, <1>2, <1>3, NextNumber, Bounds DEF Receive
  <2>. QED BY <2>1, <1>1, <1>3, <1>5 DEF HeardNow
<1>9. ASSUME NEW r \in Party, r # p
      PROVE  /\ SaidNow(p, r, g)' = SaidNow(p, r, g)
             /\ HeardNow(p, r, g)' = HeardNow(p, r, g) + IF r = q THEN 1 ELSE 0
  BY <1>1, <1>2, <1>4, <1>7, <1>9 DEF SaidNow, HeardNow
<1>10. Wires(g)' /\ \A r \in Party : UNCHANGED chan[r][r]
  <2>1. Receive(p, q) /\ KType /\ Wires(g) /\ \A r \in Party : Placed(r, g)
    BY <1>1, <1>2
  <2>2. \A r \in Party : r # p => UNCHANGED <<phase[r], turn[r], coef[r], ring[r]>> /\ g[r] = g[r]
    BY <1>2
  <2>. QED BY <2>1, <2>2, <1>3, <1>9, Reading, Bounds
<1>11. Placed(p, g)'
  BY <1>1, <1>2, <1>3, <1>4, <1>7 DEF Placed
<1>12. phase'[p] \in Phases /\ turn'[p] \in 1 .. N - 1 /\ coef'[p] \in Nat
  BY <1>11 DEF Placed, Place
<1>13. share'[p] = SharesOf(p, phase'[p], turn'[p])
         /\ polys'[p] = PolysOf(p, phase'[p], turn'[p], coef'[p])
  <2>1. share'[p] = SharesOf(p, "poly", t) /\ polys'[p] = PolysOf(p, "poly", t, c) \cup {<<q, c>>}
    BY <1>1, <1>2, <1>8 DEF Stored, m, Number
  <2>2. SharesOf(p, "poly", t) = Party /\ SharesOf(p, phase'[p], turn'[p]) = Party
    BY <1>1, <1>2, <1>12, SharesAre DEF AfterPoly, Pos, Phases
  <2>3. ASSUME NEW r \in Party, r < p, NEW d \in 0 .. SetSize
        PROVE  d < PolyCount(p, r, phase'[p], turn'[p], coef'[p])
                 <=> d < PolyCount(p, r, "poly", t, c) \/ (r = q /\ d = c)
    <3>1. /\ CycAt(p, r) \in 1 .. N - 1 /\ (r = q <=> CycAt(p, r) = t) /\ N \in Nat
               /\ SetSize \in Nat
          /\ c \in Nat /\ c <= SetSize /\ d \in Nat /\ d <= SetSize /\ PolyLen = SetSize + 1
      <4>1. CycAt(p, q) = t
        BY <1>1, CyclicAt DEF q
      <4>2. CycAt(p, r) \in 1 .. N - 1 /\ Cyclic(p, CycAt(p, r)) = r
        BY <2>3, AtCyclic, Sizes
      <4>3. /\ N \in Nat /\ SetSize \in Nat /\ PolyLen = SetSize + 1
            /\ c \in Nat /\ c <= SetSize /\ d \in Nat /\ d <= SetSize
        BY <1>1, <2>3, Sizes DEF PolyLen
      <4>. QED BY <4>1, <4>2, <4>3 DEF q
    <3>. QED BY <3>1, <1>1, <1>2 DEF PolyCount, AfterPoly, Pos
  <2>4. \A x \in Party \X (0 .. SetSize) : x[1] \in Party /\ x[2] \in 0 .. SetSize
          /\ x = <<x[1], x[2]>>
    OBVIOUS
  <2>5. <<q, c>> \in Party \X (0 .. SetSize) /\ q < p
    BY <1>1, <1>2, <1>3, Sizes
  <2>6. PolysOf(p, phase'[p], turn'[p], coef'[p]) = PolysOf(p, "poly", t, c) \cup {<<q, c>>}
    BY <2>3, <2>4, <2>5 DEF PolysOf
  <2>. QED BY <2>1, <2>2, <2>6
<1>14. LeaderStored'
  BY <1>1, <1>2, <1>6, <1>12, NotTheLeader, LeaderEarly DEF AfterPoly, Phases, Pos
<1>. QED BY <1>2, <1>6, <1>7, <1>10, <1>11, <1>13, <1>14, Together

\* A coefficient of the sum goes on around the ring.
LEMMA RingSendKeeps ==
  ASSUME NEW g \in [Party -> Count], Inv(g), NEW p \in Party, RingSend(p)
  PROVE  Inv(g)'
<1>. DEFINE c == coef[p]
            l == Len(ring[p])
            q == Following(p)
            m == Number("ring", c, RingBody(p))
<1>1. /\ KType /\ Wires(g) /\ (\A r \in Party : Placed(r, g)) /\ Stored(p) /\ LeaderStored
      /\ phase[p] = "ringSend" /\ turn[p] = 1 /\ c \in 0 .. Degree /\ g[p] = 0
      /\ l = (IF p = Leader THEN 0 ELSE RingLen)
  BY Sizes DEF Inv, Placed, Place, RingSend, Pos
<1>2. RingCoef(p) = RingBody(p)
  <2>1. Shared(p) = {s \in Party \X Party : s[1] = p /\ s[2] <= p}
    <3>1. /\ "ringSend" \in Phases /\ Pos(p, "ringSend") > 3 /\ 1 \in 1 .. N - 1 /\ c \in Nat
          /\ polys[p] = PolysOf(p, "ringSend", 1, c)
      BY <1>1, Sizes DEF Stored, Phases, Pos
    <3>. QED BY <3>1, SharedIs
  <2>2. p # Leader => ring[p][c + 1] = RingBody(Previous(p))
    BY <1>1, Sizes DEF Stored, RingLen
  <2>. QED BY <2>1, <2>2, RingStep DEF RingCoef
<1>3. /\ Send(p, q, m)
           /\ phase'[p] = (IF c = Degree THEN IF p = Leader THEN "ringReceive" ELSE "key"
                ELSE "ringSend") /\ turn'[p] = (1) /\ coef'[p] = (IF c = Degree THEN 0 ELSE c + 1)
      /\ UNCHANGED <<share, polys, ring, keys, answers, decrypted>>
      /\ \A r \in Party : r # p
           => UNCHANGED <<phase[r], turn[r], coef[r], ring[r], share[r], polys[r]>>
      /\ KType'
  BY <1>1, <1>2 DEF RingSend, NextCoef, KType, Send
<1>4. q \in Party /\ q # p
  BY Neighbours
<1>5. ASSUME NEW r \in Party, r # p
      PROVE  /\ Place(p, phase'[p], 1, coef'[p], l, 0)
             /\ Said(p, r, phase'[p], 1, coef'[p], 0)
                  = Said(p, r, "ringSend", 1, c, 0) + IF r = q THEN 1 ELSE 0
             /\ Heard(p, r, phase'[p], 1, coef'[p], l, 0)
                  = Heard(p, r, "ringSend", 1, c, l, 0)
  BY <1>1, <1>3, <1>5, RingSendTurn
<1>6. Item(p, q, Said(p, q, "ringSend", 1, c, 0) + 1) = m
  BY <1>1, <1>3, <1>4, RingSendTurn
<1>7. Alone(p)
  BY <1>3 DEF Alone
<1>8. /\ Len(ring'[p]) = l /\ IsSeq(ring'[p])
      /\ \A i \in 1 .. Len(ring'[p]) : ring'[p][i] = RingBody(Previous(p))
  BY <1>1, <1>3 DEF Stored
<1>. HIDE DEF q, m
<1>9. ASSUME NEW r \in Party, r # p
      PROVE  /\ SaidNow(p, r, g)' = SaidNow(p, r, g) + IF r = q THEN 1 ELSE 0
             /\ HeardNow(p, r, g)' = HeardNow(p, r, g)
  BY <1>1, <1>3, <1>5, <1>8, <1>9 DEF SaidNow, HeardNow
<1>10. m = Item(p, q, SaidNow(p, q, g) + 1)
  BY <1>1, <1>4, <1>6 DEF SaidNow
<1>11. Wires(g)' /\ \A r \in Party : UNCHANGED chan[r][r]
  <2>1. g \in [Party -> Nat]
    BY Bounds
  <2>. QED BY <2>1, <1>1, <1>3, <1>4, <1>9, <1>10, Sending
<1>12. Placed(p, g)'
  BY <1>1, <1>3, <1>4, <1>5, <1>8 DEF Placed
<1>13. phase'[p] \in Phases /\ turn'[p] \in 1 .. N - 1 /\ coef'[p] \in Nat
  BY <1>12 DEF Placed, Place
<1>14. share'[p] = SharesOf(p, phase'[p], turn'[p])
         /\ polys'[p] = PolysOf(p, phase'[p], turn'[p], coef'[p])
  BY <1>1, <1>3, <1>13, Staying DEF Phases, Pos
<1>15. LeaderStored'
  BY <1>1, <1>3, <1>7, <1>13, NotTheLeader, LeaderEarly DEF Phases, Pos
<1>. QED BY <1>3, <1>7, <1>8, <1>11, <1>12, <1>14, <1>15, Together

\* A coefficient of the sum comes from the ring.
LEMMA RingReceiveKeeps ==
  ASSUME NEW g \in [Party -> Count], Inv(g), NEW p \in Party, RingReceive(p)
  PROVE  Inv(g)'
<1>. DEFINE c == coef[p]
            q == Previous(p)
            m == Number("ring", c, RingBody(q))
<1>1. /\ KType /\ Wires(g) /\ (\A r \in Party : Placed(r, g)) /\ Stored(p) /\ LeaderStored
      /\ phase[p] = "ringReceive" /\ turn[p] = 1 /\ c \in 0 .. Degree /\ Len(ring[p]) = c
           /\ g[p] = 0
  BY Sizes DEF Inv, Placed, Place, RingReceive, Pos
<1>2. /\ Receive(p, q)
           /\ phase'[p] = (IF c = Degree THEN IF p = Leader THEN "keys" ELSE "ringSend"
                ELSE "ringReceive") /\ turn'[p] = (1)
                  /\ coef'[p] = (IF c = Degree THEN 0 ELSE c + 1)
      /\ UNCHANGED <<share, polys, keys, answers, decrypted>>
      /\ ring'[p] = Append(ring[p], Incoming(p, q).body)
      /\ \A r \in Party : r # p
           => UNCHANGED <<phase[r], turn[r], coef[r], ring[r], share[r], polys[r]>>
      /\ KType'
  BY <1>1 DEF RingReceive, NextCoef, KType, Receive
<1>3. q \in Party /\ q # p
  BY Neighbours
<1>4. ASSUME NEW r \in Party, r # p
      PROVE  /\ Place(p, phase'[p], 1, coef'[p], c + 1, 0)
             /\ Said(p, r, phase'[p], 1, coef'[p], 0)
                  = Said(p, r, "ringReceive", 1, c, 0)
             /\ Heard(p, r, phase'[p], 1, coef'[p], c + 1, 0)
                  = Heard(p, r, "ringReceive", 1, c, c, 0) + IF r = q THEN 1 ELSE 0
  BY <1>1, <1>2, <1>4, RingReadTurn
<1>5. Item(q, p, Heard(p, q, "ringReceive", 1, c, c, 0) + 1) = m
  BY <1>1, <1>2, <1>3, RingReadTurn
<1>6. Alone(p)
  BY <1>2 DEF Alone
<1>7. /\ IsSeq(ring'[p]) /\ Len(ring'[p]) = c + 1 /\ ring'[p][c + 1] = Incoming(p, q).body
       /\ \A i \in 1 .. c : ring'[p][i] = ring[p][i]
  BY <1>1, <1>2, AppendSeq DEF Stored
<1>. HIDE DEF q, m
<1>8. Incoming(p, q) = m
  <2>1. Incoming(p, q) = Item(q, p, HeardNow(p, q, g) + 1)
    BY <1>1, <1>2, <1>3, NextNumber, Bounds DEF Receive
  <2>. QED BY <2>1, <1>1, <1>3, <1>5 DEF HeardNow
<1>9. /\ Len(ring'[p]) = c + 1 /\ IsSeq(ring'[p])
      /\ \A i \in 1 .. Len(ring'[p]) : ring'[p][i] = RingBody(Previous(p))
  <2>1. ring'[p][c + 1] = RingBody(Previous(p))
    BY <1>8, <1>7 DEF m, q, Number
  <2>2. ASSUME NEW i \in 1 .. Len(ring'[p]) PROVE ring'[p][i] = RingBody(Previous(p))
    <3>1. i = c + 1 \/ i \in 1 .. c
      BY <1>1, <1>7, Sizes
    <3>2. i \in 1 .. c => ring[p][i] = RingBody(Previous(p))
      BY <1>1 DEF Stored
    <3>. QED BY <3>1, <3>2, <2>1, <1>7
  <2>. QED BY <2>2, <1>7
<1>10. ASSUME NEW r \in Party, r # p
      PROVE  /\ SaidNow(p, r, g)' = SaidNow(p, r, g)
             /\ HeardNow(p, r, g)' = HeardNow(p, r, g) + IF r = q THEN 1 ELSE 0
  BY <1>1, <1>2, <1>4, <1>9, <1>10 DEF SaidNow, HeardNow
<1>11. Wires(g)' /\ \A r \in Party : UNCHANGED chan[r][r]
  <2>1. Receive(p, q) /\ KType /\ Wires(g) /\ \A r \in Party : Placed(r, g)
    BY <1>1, <1>2
  <2>2. \A r \in Party : r # p => UNCHANGED <<phase[r], turn[r], coef[r], ring[r]>> /\ g[r] = g[r]
    BY <1>2
  <2>. QED BY <2>1, <2>2, <1>3, <1>10, Reading, Bounds
<1>12. Placed(p, g)'
  BY <1>1, <1>2, <1>3, <1>4, <1>9 DEF Placed
<1>13. phase'[p] \in Phases /\ turn'[p] \in 1 .. N - 1 /\ coef'[p] \in Nat
  BY <1>12 DEF Placed, Place
<1>14. share'[p] = SharesOf(p, phase'[p], turn'[p])
         /\ polys'[p] = PolysOf(p, phase'[p], turn'[p], coef'[p])
  BY <1>1, <1>2, <1>13, Staying DEF Phases, Pos
<1>15. LeaderStored'
  BY <1>1, <1>2, <1>6, <1>13, NotTheLeader, LeaderEarly DEF Phases, Pos
<1>. QED BY <1>2, <1>6, <1>9, <1>11, <1>12, <1>14, <1>15, Together

\* A follower's public key.
LEMMA KeySendKeeps ==
  ASSUME NEW g \in [Party -> Count], Inv(g), NEW p \in Party, p # Leader, KeySend(p)
  PROVE  Inv(g)'
<1>. DEFINE q == Leader
            m == Number("key", 0, {p})
<1>1. /\ KType /\ Wires(g) /\ (\A r \in Party : Placed(r, g)) /\ Stored(p) /\ LeaderStored
      /\ phase[p] = "key" /\ turn[p] = 1 /\ coef[p] = 0 /\ Len(ring[p]) = RingLen /\ g[p] = 0
  BY DEF Inv, Placed, Place, KeySend, Pos
<1>2. /\ Send(p, q, m) /\ phase'[p] = ("cipher") /\ turn'[p] = (1) /\ coef'[p] = coef[p]
      /\ UNCHANGED <<share, polys, ring, keys, answers, decrypted>>
      /\ \A r \in Party : r # p
           => UNCHANGED <<phase[r], turn[r], coef[r], ring[r], share[r], polys[r]>>
      /\ KType'
  BY <1>1 DEF KeySend, KType, Send
<1>3. q \in Party /\ q # p
  BY Sizes
<1>4. ASSUME NEW r \in Party, r # p
      PROVE  /\ Place(p, phase'[p], 1, 0, RingLen, 0)
             /\ Said(p, r, phase'[p], 1, 0, 0)
                  = Said(p, r, "key", 1, 0, 0) + IF r = q THEN 1 ELSE 0
             /\ Heard(p, r, phase'[p], 1, 0, RingLen, 0)
                  = Heard(p, r, "key", 1, 0, RingLen, 0)
  BY <1>1, <1>2, <1>4, KeySendTurn
<1>5. Item(p, q, Said(p, q, "key", 1, 0, 0) + 1) = m
  <2>1. Item(p, q, Said(p, q, "key", 1, 0, 0) + 1) = Number("key", 0, Only(p))
    BY <1>1, <1>2, <1>3, KeySendTurn
  <2>. QED BY <2>1 DEF Only
<1>6. Alone(p)
  BY <1>2 DEF Alone
<1>7. /\ Len(ring'[p]) = RingLen /\ IsSeq(ring'[p])
      /\ \A i \in 1 .. Len(ring'[p]) : ring'[p][i] = RingBody(Previous(p))
  BY <1>1, <1>2 DEF Stored
<1>. HIDE DEF q, m
<1>8. ASSUME NEW r \in Party, r # p
      PROVE  /\ SaidNow(p, r, g)' = SaidNow(p, r, g) + IF r = q THEN 1 ELSE 0
             /\ HeardNow(p, r, g)' = HeardNow(p, r, g)
  BY <1>1, <1>2, <1>4, <1>7, <1>8 DEF SaidNow, HeardNow
<1>9. m = Item(p, q, SaidNow(p, q, g) + 1)
  BY <1>1, <1>3, <1>5 DEF SaidNow
<1>10. Wires(g)' /\ \A r \in Party : UNCHANGED chan[r][r]
  <2>1. g \in [Party -> Nat]
    BY Bounds
  <2>. QED BY <2>1, <1>1, <1>2, <1>3, <1>8, <1>9, Sending
<1>11. Placed(p, g)'
  BY <1>1, <1>2, <1>3, <1>4, <1>7 DEF Placed
<1>12. phase'[p] \in Phases /\ turn'[p] \in 1 .. N - 1 /\ coef'[p] \in Nat
  BY <1>11 DEF Placed, Place
<1>13. share'[p] = SharesOf(p, phase'[p], turn'[p])
         /\ polys'[p] = PolysOf(p, phase'[p], turn'[p], coef'[p])
  BY <1>1, <1>2, <1>12, Staying DEF Phases, Pos
<1>14. LeaderStored'
  BY <1>1, <1>2, <1>6, NotTheLeader
<1>. QED BY <1>2, <1>6, <1>7, <1>10, <1>11, <1>13, <1>14, Together

\* The leader takes one.
LEMMA KeysReceiveKeeps ==
  ASSUME NEW g \in [Party -> Count], Inv(g), NEW p \in Party, p = Leader, KeysReceive
  PROVE  Inv(g)'
<1>. DEFINE t == turn[p]
            q == Other(p, t)
            m == Number("key", 0, {q})
<1>1. /\ KType /\ Wires(g) /\ (\A r \in Party : Placed(r, g)) /\ Stored(p) /\ LeaderStored
      /\ phase[p] = "keys" /\ t \in 1 .. N - 1 /\ coef[p] = 0 /\ Len(ring[p]) = RingLen /\ g[p] = 0
  BY DEF Inv, Placed, Place, KeysReceive, Pos
<1>2. /\ Receive(p, q) /\ phase'[p] = (IF t = N - 1 THEN "ask" ELSE "keys")
           /\ turn'[p] = (IF t = N - 1 THEN 1 ELSE t + 1) /\ coef'[p] = coef[p]
      /\ UNCHANGED <<share, polys, ring, answers, decrypted>> /\ keys' = keys
           \cup Incoming(p, q).body
      /\ \A r \in Party : r # p
           => UNCHANGED <<phase[r], turn[r], coef[r], ring[r], share[r], polys[r]>>
      /\ KType'
  BY <1>1 DEF KeysReceive, NextTurn, KType, Receive
<1>3. q \in Party /\ q # p
  BY <1>1, OtherAt
<1>4. ASSUME NEW r \in Party, r # p
      PROVE  /\ Place(p, phase'[p], turn'[p], 0, RingLen, 0)
             /\ Said(p, r, phase'[p], turn'[p], 0, 0)
                  = Said(p, r, "keys", t, 0, 0)
             /\ Heard(p, r, phase'[p], turn'[p], 0, RingLen, 0)
                  = Heard(p, r, "keys", t, 0, RingLen, 0) + IF r = q THEN 1 ELSE 0
  BY <1>1, <1>2, <1>4, KeyReadTurn
<1>5. Item(q, p, Heard(p, q, "keys", t, 0, RingLen, 0) + 1) = m
  <2>1. Item(q, p, Heard(p, q, "keys", t, 0, RingLen, 0) + 1) = Number("key", 0, Only(q))
    BY <1>1, <1>2, <1>3, KeyReadTurn
  <2>. QED BY <2>1 DEF Only
<1>6. Alone(p)
  BY <1>2 DEF Alone
<1>7. /\ Len(ring'[p]) = RingLen /\ IsSeq(ring'[p])
      /\ \A i \in 1 .. Len(ring'[p]) : ring'[p][i] = RingBody(Previous(p))
  BY <1>1, <1>2 DEF Stored
<1>. HIDE DEF q, m
<1>8. Incoming(p, q) = m
  <2>1. Incoming(p, q) = Item(q, p, HeardNow(p, q, g) + 1)
    BY <1>1, <1>2, <1>3, NextNumber, Bounds DEF Receive
  <2>. QED BY <2>1, <1>1, <1>3, <1>5 DEF HeardNow
<1>9. ASSUME NEW r \in Party, r # p
      PROVE  /\ SaidNow(p, r, g)' = SaidNow(p, r, g)
             /\ HeardNow(p, r, g)' = HeardNow(p, r, g) + IF r = q THEN 1 ELSE 0
  BY <1>1, <1>2, <1>4, <1>7, <1>9 DEF SaidNow, HeardNow
<1>10. Wires(g)' /\ \A r \in Party : UNCHANGED chan[r][r]
  <2>1. Receive(p, q) /\ KType /\ Wires(g) /\ \A r \in Party : Placed(r, g)
    BY <1>1, <1>2
  <2>2. \A r \in Party : r # p => UNCHANGED <<phase[r], turn[r], coef[r], ring[r]>> /\ g[r] = g[r]
    BY <1>2
  <2>. QED BY <2>1, <2>2, <1>3, <1>9, Reading, Bounds
<1>11. Placed(p, g)'
  BY <1>1, <1>2, <1>3, <1>4, <1>7 DEF Placed
<1>12. phase'[p] \in Phases /\ turn'[p] \in 1 .. N - 1 /\ coef'[p] \in Nat
  BY <1>11 DEF Placed, Place
<1>13. share'[p] = SharesOf(p, phase'[p], turn'[p])
         /\ polys'[p] = PolysOf(p, phase'[p], turn'[p], coef'[p])
  BY <1>1, <1>2, <1>12, Staying DEF Phases, Pos
<1>14. LeaderStored'
  <2>1. ASSUME NEW r \in Party, r # p
        PROVE  HeardKey(p, r, phase'[p], turn'[p]) = 1 <=> HeardKey(p, r, "keys", t) = 1 \/ r = q
    <3>1. At(p, r) \in 1 .. N - 1 /\ (r = q <=> At(p, r) = t) /\ N \in Nat
      <4>1. At(p, q) = t
        BY <1>1, OtherAt DEF q
      <4>2. At(p, r) \in 1 .. N - 1 /\ Other(p, At(p, r)) = r
        BY <2>1, AtOther
      <4>. QED BY <4>1, <4>2, Sizes DEF q
    <3>. QED BY <3>1, <1>1, <1>2 DEF HeardKey, Pos
  <2>2. KeysOf(phase'[p], turn'[p]) = KeysOf("keys", t) \cup {q}
    BY <2>1, <1>3 DEF KeysOf
  <2>3. keys' = KeysOf("keys", t) \cup {q}
    BY <1>1, <1>2, <1>8 DEF LeaderStored, m, Number
  <2>4. Completed(phase'[p], coef'[p]) = 0 /\ Completed(phase[p], coef[p]) = 0
          /\ phase'[p] # "collect"
    BY <1>1, <1>2 DEF Completed
  <2>. QED BY <2>2, <2>3, <2>4, <1>1, <1>2 DEF LeaderStored
<1>. QED BY <1>2, <1>6, <1>7, <1>10, <1>11, <1>13, <1>14, Together

\* The leader sends a ciphertext to one of the followers.
LEMMA AskKeeps ==
  ASSUME NEW g \in [Party -> Count], Inv(g), NEW p \in Party, p = Leader, Ask
  PROVE  Inv(g)'
<1>. DEFINE t == turn[p]
            c == coef[p]
            q == Other(p, t)
            m == Number("cipher", c, RingBody(Previous(p)))
<1>1. /\ KType /\ Wires(g) /\ (\A r \in Party : Placed(r, g)) /\ Stored(p) /\ LeaderStored
      /\ phase[p] = "ask" /\ t \in 1 .. N - 1 /\ c \in 0 .. Degree /\ Len(ring[p]) = RingLen
           /\ g[p] = 0
  <2>1. phase[p] = "ask" /\ Placed(p, g)
    BY DEF Inv, Ask
  <2>2. t \in 1 .. N - 1 /\ c \in Nat /\ c <= Degree /\ Len(ring[p]) = RingLen /\ g[p] = 0
    BY <2>1 DEF Placed, Place, Pos
  <2>. QED BY <2>1, <2>2, Sizes DEF Inv
<1>2. ring[p][c + 1] = RingBody(Previous(p))
  BY <1>1, Sizes DEF Stored, RingLen
<1>3. /\ Send(p, q, m) /\ phase'[p] = (IF t = N - 1 THEN "collect" ELSE "ask")
           /\ turn'[p] = (IF t = N - 1 THEN 1 ELSE t + 1) /\ coef'[p] = coef[p]
      /\ UNCHANGED <<share, polys, ring, keys, decrypted>> /\ answers' = {[party |-> p, coef |-> c]}
      /\ \A r \in Party : r # p
           => UNCHANGED <<phase[r], turn[r], coef[r], ring[r], share[r], polys[r]>>
      /\ KType'
  BY <1>1, <1>2 DEF Ask, NextTurn, KType, Send
<1>4. q \in Party /\ q # p
  BY <1>1, OtherAt
<1>5. ASSUME NEW r \in Party, r # p
      PROVE  /\ Place(p, phase'[p], turn'[p], c, RingLen, 0)
             /\ Said(p, r, phase'[p], turn'[p], c, 0)
                  = Said(p, r, "ask", t, c, 0) + IF r = q THEN 1 ELSE 0
             /\ Heard(p, r, phase'[p], turn'[p], c, RingLen, 0)
                  = Heard(p, r, "ask", t, c, RingLen, 0)
  BY <1>1, <1>3, <1>5, AskTurn
<1>6. Item(p, q, Said(p, q, "ask", t, c, 0) + 1) = m
  BY <1>1, <1>3, <1>4, AskTurn
<1>7. Alone(p)
  BY <1>3 DEF Alone
<1>8. /\ Len(ring'[p]) = RingLen /\ IsSeq(ring'[p])
      /\ \A i \in 1 .. Len(ring'[p]) : ring'[p][i] = RingBody(Previous(p))
  BY <1>1, <1>3 DEF Stored
<1>. HIDE DEF q, m
<1>9. ASSUME NEW r \in Party, r # p
      PROVE  /\ SaidNow(p, r, g)' = SaidNow(p, r, g) + IF r = q THEN 1 ELSE 0
             /\ HeardNow(p, r, g)' = HeardNow(p, r, g)
  BY <1>1, <1>3, <1>5, <1>8, <1>9 DEF SaidNow, HeardNow
<1>10. m = Item(p, q, SaidNow(p, q, g) + 1)
  BY <1>1, <1>4, <1>6 DEF SaidNow
<1>11. Wires(g)' /\ \A r \in Party : UNCHANGED chan[r][r]
  <2>1. g \in [Party -> Nat]
    BY Bounds
  <2>. QED BY <2>1, <1>1, <1>3, <1>4, <1>9, <1>10, Sending
<1>12. Placed(p, g)'
  BY <1>1, <1>3, <1>4, <1>5, <1>8 DEF Placed
<1>13. phase'[p] \in Phases /\ turn'[p] \in 1 .. N - 1 /\ coef'[p] \in Nat
  BY <1>12 DEF Placed, Place
<1>14. share'[p] = SharesOf(p, phase'[p], turn'[p])
         /\ polys'[p] = PolysOf(p, phase'[p], turn'[p], coef'[p])
  BY <1>1, <1>3, <1>13, Staying DEF Phases, Pos
<1>15. LeaderStored'
  <2>1. KeysOf(phase[p], turn[p]) = Party /\ KeysOf(phase'[p], turn'[p]) = Party
    <3>1. phase[p] \in Phases /\ Pos(p, phase[p]) > 6 /\ Pos(p, phase'[p]) > 6
      BY <1>1, <1>3 DEF Phases, Pos
    <3>. QED BY <3>1, <1>1, <1>13, KeysAre
  <2>2. ASSUME phase'[p] = "collect" PROVE answers' = AnswersOf("collect", turn'[p], coef'[p])
    <3>1. turn'[p] = 1
      BY <1>1, <1>3, <2>2
    <3>2. \A r \in Party : r # p => ~(At(p, r) < 1)
      BY AtOther, Sizes
    <3>3. AnswersOf("collect", 1, c) = {Answer(p, c)}
      BY <3>2 DEF AnswersOf
    <3>. QED BY <3>1, <3>3, <1>3 DEF Answer
  <2>3. Completed(phase'[p], coef'[p]) = c /\ Completed(phase[p], coef[p]) = c
    BY <1>1, <1>3 DEF Completed
  <2>. QED BY <2>1, <2>2, <2>3, <1>1, <1>3 DEF LeaderStored
<1>. QED BY <1>3, <1>7, <1>8, <1>11, <1>12, <1>14, <1>15, Together

\* It takes one of their partial decryptions.
LEMMA CollectKeeps ==
  ASSUME NEW g \in [Party -> Count], Inv(g), NEW p \in Party, p = Leader, Collect
  PROVE  Inv(g)'
<1>. DEFINE t == turn[p]
            c == coef[p]
            q == Other(p, t)
            m == Number("answer", c, {q})
<1>1. /\ KType /\ Wires(g) /\ (\A r \in Party : Placed(r, g)) /\ Stored(p) /\ LeaderStored
      /\ phase[p] = "collect" /\ t \in 1 .. N - 1 /\ c \in 0 .. Degree /\ Len(ring[p]) = RingLen
           /\ g[p] = 0
  <2>1. phase[p] = "collect" /\ Placed(p, g)
    BY DEF Inv, Collect
  <2>2. t \in 1 .. N - 1 /\ c \in Nat /\ c <= Degree /\ Len(ring[p]) = RingLen /\ g[p] = 0
    BY <2>1 DEF Placed, Place, Pos
  <2>. QED BY <2>1, <2>2, Sizes DEF Inv
<1>2. /\ Receive(p, q)
           /\ phase'[p] = (IF t # N - 1 THEN "collect" ELSE IF c = Degree THEN "done"
                ELSE "ask") /\ turn'[p] = (IF t = N - 1 THEN 1 ELSE t + 1)
                  /\ coef'[p] = (IF t = N - 1 THEN c + 1 ELSE c)
      /\ UNCHANGED <<share, polys, ring, keys>>
      /\ answers' = answers \cup {[party |-> q, coef |-> Incoming(p, q).coef]}
      /\ decrypted' = (IF t = N - 1 THEN Append(decrypted, answers') ELSE decrypted)
      /\ \A r \in Party : r # p
           => UNCHANGED <<phase[r], turn[r], coef[r], ring[r], share[r], polys[r]>>
      /\ KType'
  BY SMTT(30), <1>1, Sizes DEF Collect, KType, Receive
<1>3. q \in Party /\ q # p
  BY <1>1, OtherAt
<1>4. ASSUME NEW r \in Party, r # p
      PROVE  /\ Place(p, phase'[p], turn'[p], coef'[p], RingLen, 0)
             /\ Said(p, r, phase'[p], turn'[p], coef'[p], 0)
                  = Said(p, r, "collect", t, c, 0)
             /\ Heard(p, r, phase'[p], turn'[p], coef'[p], RingLen, 0)
                  = Heard(p, r, "collect", t, c, RingLen, 0) + IF r = q THEN 1 ELSE 0
  BY SMTT(30), <1>1, <1>2, <1>4, CollectTurn
<1>5. Item(q, p, Heard(p, q, "collect", t, c, RingLen, 0) + 1) = m
  <2>1. Item(q, p, Heard(p, q, "collect", t, c, RingLen, 0) + 1) = Number("answer", c, Only(q))
    BY <1>1, <1>2, <1>3, CollectTurn
  <2>. QED BY <2>1 DEF Only
<1>6. Alone(p)
  BY <1>2 DEF Alone
<1>7. /\ Len(ring'[p]) = RingLen /\ IsSeq(ring'[p])
      /\ \A i \in 1 .. Len(ring'[p]) : ring'[p][i] = RingBody(Previous(p))
  BY <1>1, <1>2 DEF Stored
<1>. HIDE DEF q, m
<1>8. Incoming(p, q) = m
  <2>1. Incoming(p, q) = Item(q, p, HeardNow(p, q, g) + 1)
    BY <1>1, <1>2, <1>3, NextNumber, Bounds DEF Receive
  <2>. QED BY <2>1, <1>1, <1>3, <1>5 DEF HeardNow
<1>9. ASSUME NEW r \in Party, r # p
      PROVE  /\ SaidNow(p, r, g)' = SaidNow(p, r, g)
             /\ HeardNow(p, r, g)' = HeardNow(p, r, g) + IF r = q THEN 1 ELSE 0
  BY <1>1, <1>2, <1>4, <1>7, <1>9 DEF SaidNow, HeardNow
<1>10. Wires(g)' /\ \A r \in Party : UNCHANGED chan[r][r]
  <2>1. Receive(p, q) /\ KType /\ Wires(g) /\ \A r \in Party : Placed(r, g)
    BY <1>1, <1>2
  <2>2. \A r \in Party : r # p => UNCHANGED <<phase[r], turn[r], coef[r], ring[r]>> /\ g[r] = g[r]
    BY <1>2
  <2>. QED BY <2>1, <2>2, <1>3, <1>9, Reading, Bounds
<1>11. Placed(p, g)'
  BY <1>1, <1>2, <1>3, <1>4, <1>7 DEF Placed
<1>12. phase'[p] \in Phases /\ turn'[p] \in 1 .. N - 1 /\ coef'[p] \in Nat
  BY <1>11 DEF Placed, Place
<1>13. share'[p] = SharesOf(p, phase'[p], turn'[p])
         /\ polys'[p] = PolysOf(p, phase'[p], turn'[p], coef'[p])
  BY <1>1, <1>2, <1>12, Staying DEF Phases, Pos
<1>14. LeaderStored'
  <2>1. KeysOf(phase[p], turn[p]) = Party /\ KeysOf(phase'[p], turn'[p]) = Party
    <3>1. phase[p] \in Phases /\ Pos(p, phase[p]) > 6 /\ Pos(p, phase'[p]) > 6
      BY <1>1, <1>2 DEF Phases, Pos
    <3>. QED BY <3>1, <1>1, <1>12, KeysAre
  <2>2. answers' = AnswersOf("collect", t, c) \cup {Answer(q, c)}
    BY <1>1, <1>2, <1>8 DEF LeaderStored, m, Number, Answer
  <2>3. ASSUME NEW r \in Party, r # p
        PROVE  At(p, r) \in 1 .. N - 1 /\ (r = q <=> At(p, r) = t) /\ N \in Nat
    <3>1. At(p, q) = t
      BY <1>1, OtherAt DEF q
    <3>2. At(p, r) \in 1 .. N - 1 /\ Other(p, At(p, r)) = r
      BY <2>3, AtOther
    <3>. QED BY <3>1, <3>2, Sizes DEF q
  <2>. DEFINE R == {p} \cup {r \in Party : r # p /\ At(p, r) < t}
  <2>4. AnswersOf("collect", t, c) = {Answer(r, c) : r \in R}
    BY DEF AnswersOf
  <2>5. answers' = {Answer(r, c) : r \in R \cup {q}}
    BY <2>2, <2>4
  <2>6. ASSUME t # N - 1 PROVE answers' = AnswersOf("collect", t + 1, c)
    <3>1. R \cup {q} = {p} \cup {r \in Party : r # p /\ At(p, r) < t + 1}
      <4>1. \A r \in Party : r # p => (At(p, r) < t + 1 <=> At(p, r) < t \/ r = q)
        BY <1>1, <2>3
      <4>. QED BY <4>1, <1>3
    <3>. HIDE DEF R
    <3>. QED BY <3>1, <2>5 DEF AnswersOf
  <2>7. ASSUME t = N - 1 PROVE answers' = {Answer(r, c) : r \in Party}
    <3>1. R \cup {q} = Party
      <4>1. \A r \in Party : r # p => At(p, r) < t \/ r = q
        BY <1>1, <2>3, <2>7
      <4>. QED BY <4>1, <1>3
    <3>. HIDE DEF R
    <3>. QED BY <3>1, <2>5
  <2>. HIDE DEF R
  <2>8. CASE t # N - 1
    <3>1. UNCHANGED <<decrypted, coef[p]>> /\ phase'[p] = "collect" /\ turn'[p] = t + 1
      BY <1>1, <1>2, <2>8
    <3>2. Completed("collect", c) = c
      BY DEF Completed
    <3>. QED BY <3>1, <3>2, <2>1, <2>6, <2>8, <1>1, <1>2 DEF LeaderStored
  <2>9. CASE t = N - 1
    <3>1. IsSeq(decrypted) /\ Len(decrypted) = c
      BY <1>1 DEF LeaderStored, Completed
    <3>2. /\ IsSeq(decrypted') /\ Len(decrypted') = c + 1 /\ decrypted'[c + 1] = answers'
          /\ \A i \in 1 .. c : decrypted'[i] = decrypted[i]
      BY <3>1, <1>2, <2>9, AppendSeq
    <3>3. Completed(phase'[p], coef'[p]) = c + 1 /\ phase'[p] # "collect"
      BY <1>1, <1>2, <2>9, Sizes DEF Completed, RingLen
    <3>4. ASSUME NEW i \in 1 .. Len(decrypted')
          PROVE decrypted'[i] = {Answer(r, i - 1) : r \in Party}
      <4>1. i = c + 1 \/ i \in 1 .. c
        BY <1>1, <3>2, Sizes
      <4>2. CASE i = c + 1
        <5>1. i - 1 = c
          BY <1>1, <4>2, Sizes
        <5>. QED BY <5>1, <4>2, <3>2, <2>7, <2>9
      <4>3. CASE i \in 1 .. c
        BY <4>3, <1>1, <3>1, <3>2 DEF LeaderStored
      <4>. QED BY <4>1, <4>2, <4>3
    <3>. QED BY <3>2, <3>3, <3>4, <2>1, <1>1, <1>2 DEF LeaderStored
  <2>. QED BY <2>8, <2>9
<1>. QED BY <1>2, <1>6, <1>7, <1>10, <1>11, <1>13, <1>14, Together

\* A follower takes a ciphertext.
LEMMA CipherKeeps ==
  ASSUME NEW g \in [Party -> Count], Inv(g), NEW p \in Party, p # Leader, Cipher(p)
  PROVE  \E h \in [Party -> Count] : Inv(h)'
<1>. DEFINE c == coef[p]
            n == g[p]
            h == [g EXCEPT ![p] = n + 1]
            q == Leader
            m == Number("cipher", n, RingBody(Previous(q)))
<1>1. /\ KType /\ Wires(g) /\ (\A r \in Party : Placed(r, g)) /\ Stored(p) /\ LeaderStored
      /\ phase[p] = "cipher" /\ turn[p] = 1 /\ c \in 0 .. Degree /\ n \in 0 .. Degree
           /\ Len(ring[p]) = RingLen
  BY Sizes DEF Inv, Placed, Place, Cipher, Pos
<1>2. /\ Receive(p, q) /\ phase'[p] = ("decrypt") /\ turn'[p] = (1)
           /\ coef'[p] = Incoming(p, q).coef
      /\ UNCHANGED <<share, polys, ring, keys, answers, decrypted>>
      /\ \A r \in Party : r # p
           => UNCHANGED <<phase[r], turn[r], coef[r], ring[r], share[r], polys[r]>>
      /\ KType'
  BY <1>1 DEF Cipher, KType, Receive
<1>3. q \in Party /\ q # p
  BY Sizes
<1>4. ASSUME NEW r \in Party, r # p
      PROVE  /\ Place(p, phase'[p], 1, n, RingLen, n + 1)
             /\ Said(p, r, phase'[p], 1, n, n + 1)
                  = Said(p, r, "cipher", 1, c, n)
             /\ Heard(p, r, phase'[p], 1, n, RingLen, n + 1)
                  = Heard(p, r, "cipher", 1, c, RingLen, n) + IF r = q THEN 1 ELSE 0
  BY <1>1, <1>2, <1>4, CipherTurn
<1>5. Item(q, p, Heard(p, q, "cipher", 1, c, RingLen, n) + 1) = m
  BY <1>1, <1>2, <1>3, CipherTurn
<1>6. Alone(p)
  BY <1>2 DEF Alone
<1>7. /\ Len(ring'[p]) = RingLen /\ IsSeq(ring'[p])
      /\ \A i \in 1 .. Len(ring'[p]) : ring'[p][i] = RingBody(Previous(p))
  BY <1>1, <1>2 DEF Stored
<1>. HIDE DEF q, m
<1>8. Incoming(p, q) = m
  <2>1. Incoming(p, q) = Item(q, p, HeardNow(p, q, g) + 1)
    BY <1>1, <1>2, <1>3, NextNumber, Bounds DEF Receive
  <2>. QED BY <2>1, <1>1, <1>3, <1>5 DEF HeardNow
<1>9. coef'[p] = n
  BY <1>2, <1>8 DEF m, Number
<1>10. h \in [Party -> Count] /\ h[p] = n + 1 /\ \A r \in Party : r # p => h[r] = g[r]
  BY <1>1, Sizes DEF Count, RingLen
<1>. HIDE DEF h
<1>11. ASSUME NEW r \in Party, r # p
      PROVE  /\ SaidNow(p, r, h)' = SaidNow(p, r, g)
             /\ HeardNow(p, r, h)' = HeardNow(p, r, g) + IF r = q THEN 1 ELSE 0
  BY <1>1, <1>2, <1>4, <1>7, <1>11, <1>10, <1>9 DEF SaidNow, HeardNow
<1>12. Wires(h)' /\ \A r \in Party : UNCHANGED chan[r][r]
  <2>1. Receive(p, q) /\ KType /\ Wires(g) /\ \A r \in Party : Placed(r, g)
    BY <1>1, <1>2
  <2>2. \A r \in Party : r # p => UNCHANGED <<phase[r], turn[r], coef[r], ring[r]>> /\ h[r] = g[r]
    BY <1>2, <1>10, <1>9
  <2>. QED BY <2>1, <2>2, <1>3, <1>11, Reading, Bounds, <1>10, <1>9
<1>13. Placed(p, h)'
  BY <1>1, <1>2, <1>3, <1>4, <1>7, <1>10, <1>9 DEF Placed
<1>14. phase'[p] \in Phases /\ turn'[p] \in 1 .. N - 1 /\ coef'[p] \in Nat
  BY <1>13 DEF Placed, Place
<1>15. share'[p] = SharesOf(p, phase'[p], turn'[p])
         /\ polys'[p] = PolysOf(p, phase'[p], turn'[p], coef'[p])
  BY <1>1, <1>2, <1>14, Staying DEF Phases, Pos
<1>16. LeaderStored'
  BY <1>1, <1>2, <1>6, NotTheLeader
<1>17. Inv(h)'
  BY <1>2, <1>6, <1>7, <1>12, <1>13, <1>15, <1>16, Together, <1>10, <1>9
<1>. QED BY <1>10, <1>17

\* It answers with its partial decryption.
LEMMA DecryptKeeps ==
  ASSUME NEW g \in [Party -> Count], Inv(g), NEW p \in Party, p # Leader, Decrypt(p)
  PROVE  Inv(g)'
<1>. DEFINE c == coef[p]
            q == Leader
            m == Number("answer", c, {p})
<1>1. /\ KType /\ Wires(g) /\ (\A r \in Party : Placed(r, g)) /\ Stored(p) /\ LeaderStored
      /\ phase[p] = "decrypt" /\ turn[p] = 1 /\ c \in 0 .. Degree /\ Len(ring[p]) = RingLen
           /\ g[p] = c + 1
  BY SMTT(30), Sizes DEF Inv, Placed, Place, Decrypt, Pos
<1>2. /\ Send(p, q, m) /\ phase'[p] = (IF c = Degree THEN "done" ELSE "cipher")
           /\ turn'[p] = (1) /\ coef'[p] = coef[p]
      /\ UNCHANGED <<share, polys, ring, keys, answers, decrypted>>
      /\ \A r \in Party : r # p
           => UNCHANGED <<phase[r], turn[r], coef[r], ring[r], share[r], polys[r]>>
      /\ KType'
  BY <1>1 DEF Decrypt, KType, Send
<1>3. q \in Party /\ q # p
  BY Sizes
<1>4. ASSUME NEW r \in Party, r # p
      PROVE  /\ Place(p, phase'[p], 1, c, RingLen, c + 1)
             /\ Said(p, r, phase'[p], 1, c, c + 1)
                  = Said(p, r, "decrypt", 1, c, c + 1) + IF r = q THEN 1 ELSE 0
             /\ Heard(p, r, phase'[p], 1, c, RingLen, c + 1)
                  = Heard(p, r, "decrypt", 1, c, RingLen, c + 1)
  BY <1>1, <1>2, <1>4, DecryptTurn
<1>5. Item(p, q, Said(p, q, "decrypt", 1, c, c + 1) + 1) = m
  <2>1. Item(p, q, Said(p, q, "decrypt", 1, c, c + 1) + 1) = Number("answer", c, Only(p))
    BY <1>1, <1>2, <1>3, DecryptTurn
  <2>. QED BY <2>1 DEF Only
<1>6. Alone(p)
  BY <1>2 DEF Alone
<1>7. /\ Len(ring'[p]) = RingLen /\ IsSeq(ring'[p])
      /\ \A i \in 1 .. Len(ring'[p]) : ring'[p][i] = RingBody(Previous(p))
  BY <1>1, <1>2 DEF Stored
<1>. HIDE DEF q, m
<1>8. ASSUME NEW r \in Party, r # p
      PROVE  /\ SaidNow(p, r, g)' = SaidNow(p, r, g) + IF r = q THEN 1 ELSE 0
             /\ HeardNow(p, r, g)' = HeardNow(p, r, g)
  BY <1>1, <1>2, <1>4, <1>7, <1>8 DEF SaidNow, HeardNow
<1>9. m = Item(p, q, SaidNow(p, q, g) + 1)
  BY <1>1, <1>3, <1>5 DEF SaidNow
<1>10. Wires(g)' /\ \A r \in Party : UNCHANGED chan[r][r]
  <2>1. g \in [Party -> Nat]
    BY Bounds
  <2>. QED BY <2>1, <1>1, <1>2, <1>3, <1>8, <1>9, Sending
<1>11. Placed(p, g)'
  BY <1>1, <1>2, <1>3, <1>4, <1>7 DEF Placed
<1>12. phase'[p] \in Phases /\ turn'[p] \in 1 .. N - 1 /\ coef'[p] \in Nat
  BY <1>11 DEF Placed, Place
<1>13. share'[p] = SharesOf(p, phase'[p], turn'[p])
         /\ polys'[p] = PolysOf(p, phase'[p], turn'[p], coef'[p])
  BY <1>1, <1>2, <1>12, Staying DEF Phases, Pos
<1>14. LeaderStored'
  BY <1>1, <1>2, <1>6, NotTheLeader
<1>. QED BY <1>2, <1>6, <1>7, <1>10, <1>11, <1>13, <1>14, Together

LEMMA KInit == Init => KInv
<1>. SUFFICES ASSUME Init PROVE KInv
  OBVIOUS
<1>. DEFINE g == [p \in Party |-> 0]
<1>1. g \in [Party -> Count]
  BY Bounds DEF Count
<1>2. KType
  BY DEF Init, KType
<1>3. ASSUME NEW p \in Party
      PROVE  /\ phase[p] = "params" /\ turn[p] = 1 /\ coef[p] = 0 /\ ring[p] = <<>>
                  /\ Len(ring[p]) = 0
             /\ IsSeq(ring[p]) /\ g[p] = 0
  BY NoMessage DEF Init
<1>4. ASSUME NEW p \in Party, NEW q \in Party
      PROVE  chan[p][q] = <<>> /\ IsSeq(chan[p][q]) /\ Len(chan[p][q]) = 0
  BY NoMessage DEF Init
<1>. HIDE DEF g
<1>5. ASSUME NEW p \in Party PROVE Placed(p, g)
  BY <1>3, Sizes DEF Placed, Place, Phases, Pos
<1>6. ASSUME NEW p \in Party, NEW q \in Party, p # q PROVE Wire(p, q, g)
  <2>1. At(p, q) \in 1 .. N - 1
    BY <1>6, AtOther
  <2>2. SaidNow(p, q, g) = 0
    BY <1>3, <1>6, <2>1, Sizes
    DEF SaidNow, Said, SaidParams, SaidShare, SaidPoly, SaidRing, SaidKey, SaidRest, Pos, PolyCount
  <2>3. HeardNow(q, p, g) = 0
    BY <1>3, <1>6, Sizes
    DEF HeardNow, Heard, HeardParams, HeardShare, HeardPoly, HeardRing, HeardKey, HeardRest, Pos,
        PolyCount
  <2>. QED BY <2>2, <2>3, <1>4 DEF Wire
<1>7. ASSUME NEW p \in Party PROVE Stored(p)
  <2>1. "params" \in Phases /\ Pos(p, "params") < 2 /\ Pos(p, "params") < 3 /\ 1 \in 1 .. N - 1
          /\ 0 \in Nat
    BY Sizes DEF Phases, Pos
  <2>2. SharesOf(p, "params", 1) = {p}
    BY <2>1, SharesAre
  <2>3. PolysOf(p, "params", 1, 0) = {<<p, d>> : d \in 0 .. SetSize}
    BY <2>1, PolysAre
  <2>4. share[p] = {p} /\ polys[p] = {<<p, d>> : d \in 0 .. SetSize}
    BY DEF Init
  <2>. QED BY <2>2, <2>3, <2>4, <1>3, <1>4 DEF Stored
<1>8. LeaderStored
  <2>1. "params" \in Phases /\ Pos(Leader, "params") < 6 /\ 1 \in 1 .. N - 1
    BY Sizes DEF Phases, Pos
  <2>2. KeysOf("params", 1) = {Leader}
    BY <2>1, KeysAre
  <2>3. keys = {Leader} /\ decrypted = <<>> /\ IsSeq(decrypted) /\ Len(decrypted) = 0
    BY NoMessage DEF Init
  <2>. QED BY <2>2, <2>3, <1>3, Sizes DEF LeaderStored, Completed
<1>. QED BY <1>1, <1>2, <1>5, <1>6, <1>7, <1>8 DEF KInv, Inv, Wires

LEMMA KNext == KInv /\ [Next]_kVars => KInv'
<1>. SUFFICES ASSUME KInv, [Next]_kVars PROVE KInv'
  OBVIOUS
<1>1. PICK g \in [Party -> Count] : Inv(g)
  BY DEF KInv
<1>2. SUFFICES Inv(g)' \/ \E h \in [Party -> Count] : Inv(h)'
  BY DEF KInv
<1>3. ASSUME NEW p \in Party, Step(p) PROVE Inv(g)' \/ \E h \in [Party -> Count] : Inv(h)'
  <2>1. CASE Params(p)
    BY <2>1, <1>1, ParamsSendKeeps, ParamsReceiveKeeps
  <2>2. CASE ShareSend(p)
    BY <2>2, <1>1, ShareSendKeeps
  <2>3. CASE ShareReceive(p)
    BY <2>3, <1>1, ShareReceiveKeeps
  <2>4. CASE Poly(p)
    BY <2>4, <1>1, PolySendKeeps, PolyReceiveKeeps
  <2>5. CASE RingSend(p)
    BY <2>5, <1>1, RingSendKeeps
  <2>6. CASE RingReceive(p)
    BY <2>6, <1>1, RingReceiveKeeps
  <2>7. CASE FollowerStep(p)
    BY <2>7, <1>1, KeySendKeeps, CipherKeeps, DecryptKeeps DEF FollowerStep
  <2>8. CASE LeaderStep(p)
    BY <2>8, <1>1, KeysReceiveKeeps, AskKeeps, CollectKeeps DEF LeaderStep
  <2>. QED BY <1>3, <2>1, <2>2, <2>3, <2>4, <2>5, <2>6, <2>7, <2>8 DEF Step
<1>4. CASE UNCHANGED kVars
  BY <1>1, <1>4 DEF kVars, Inv, KType, Wires, Wire, Placed, Stored, LeaderStored, SaidNow, HeardNow
<1>. QED BY <1>3, <1>4 DEF Next

\* However the parties interleave and whatever a connection holds, between any
\* two of them lies the part of their script that one has sent and the other has
\* not read, and every party has stored what it has read of the others.
THEOREM ScriptInvariant == Spec => []KInv
<1>1. Init => KInv
  BY KInit
<1>2. KInv /\ [Next]_kVars => KInv'
  BY KNext
<1>. QED BY <1>1, <1>2, PTL DEF Spec

-----------------------------------------------------------------------------
(***************************************************************************)
(* What follows from it.                                                   *)
(***************************************************************************)

\* The conjunct of ReadsWhatWasMeant for party p and the peer it reads from.
Meant(p) ==
  LET q == Expected(p)[1]
  IN  chan[q][p] # <<>> => /\ Incoming(p, q).kind = Expected(p)[2]
                           /\ phase[p] \in {"poly", "ringReceive", "collect"} =>
                                Incoming(p, q).coef = coef[p]

LEMMA NextIsMeant ==
  ASSUME NEW g \in [Party -> Count], Inv(g), NEW p \in Party
  PROVE  Meant(p)
<1>1. KType /\ Wires(g) /\ (\A r \in Party : Placed(r, g)) /\ Placed(p, g) /\ chan[p][p] = <<>>
  BY DEF Inv, Stored
<1>2. CASE phase[p] = "params" /\ p # Leader
  <2>1. Expected(p) = <<Leader, "params">>
    BY <1>2, <1>1 DEF Expected
  <2>2. turn[p] = 1 /\ coef[p] = 0 /\ Len(ring[p]) = 0 /\ g[p] = 0
    BY <1>2, <1>1, Sizes DEF Placed, Place, Pos
  <2>3. Leader \in Party /\ Leader # p
    BY <1>2, <1>1, <2>2, Sizes, OtherAt, CyclicAt, Neighbours
  <2>4. Item(Leader, p, Heard(p, Leader, "params", 1, 0, 0, 0) + 1) = Number("params", 0, {})
    BY <1>2, <1>1, <2>2, <2>3, ParamsRead
  <2>5. ASSUME chan[Leader][p] # <<>>
        PROVE  Incoming(p, Leader).kind = "params"
    <3>1. Incoming(p, Leader) = Item(Leader, p, HeardNow(p, Leader, g) + 1)
      BY <2>3, <2>5, <1>1, NextNumber, Bounds
    <3>. QED BY <3>1, <2>2, <2>4, <1>2 DEF HeardNow, Number
  <2>. QED BY <1>2, <2>1, <2>5 DEF Meant
<1>3. CASE phase[p] = "shareReceive"
  <2>1. Expected(p) = <<Other(p, turn[p]), "share">>
    BY <1>3, <1>1 DEF Expected
  <2>2. turn[p] \in 1 .. N - 1 /\ coef[p] = 0 /\ Len(ring[p]) = 0 /\ g[p] = 0
    BY <1>3, <1>1, Sizes DEF Placed, Place, Pos
  <2>3. Other(p, turn[p]) \in Party /\ Other(p, turn[p]) # p
    BY <1>3, <1>1, <2>2, Sizes, OtherAt, CyclicAt, Neighbours
  <2>4. PICK ph, u : ph = (IF turn[p] = N - 1 THEN "poly" ELSE "shareReceive")
               /\ u = (IF turn[p] = N - 1 THEN 1 ELSE turn[p] + 1)
    OBVIOUS
  <2>5. Item(Other(p, turn[p]), p,
        Heard(p, Other(p, turn[p]), "shareReceive", turn[p], 0, 0, 0) + 1)
          = Number("share", 0, Only(Other(p, turn[p])))
    BY <1>3, <1>1, <2>2, <2>3, <2>4, ShareReadTurn
  <2>6. ASSUME chan[Other(p, turn[p])][p] # <<>>
        PROVE  Incoming(p, Other(p, turn[p])).kind = "share"
    <3>1. Incoming(p, Other(p, turn[p]))
            = Item(Other(p, turn[p]), p, HeardNow(p, Other(p, turn[p]), g) + 1)
      BY <2>3, <2>6, <1>1, NextNumber, Bounds
    <3>. QED BY <3>1, <2>2, <2>5, <1>3 DEF HeardNow, Number
  <2>. QED BY <1>3, <2>1, <2>6 DEF Meant
<1>4. CASE phase[p] = "poly" /\ Cyclic(p, turn[p]) < p
  <2>1. Expected(p) = <<Cyclic(p, turn[p]), "poly">>
    BY <1>4, <1>1 DEF Expected
  <2>2. turn[p] \in 1 .. N - 1 /\ coef[p] \in 0 .. SetSize /\ Len(ring[p]) = 0 /\ g[p] = 0
    BY <1>4, <1>1, Sizes DEF Placed, Place, Pos
  <2>3. Cyclic(p, turn[p]) \in Party /\ Cyclic(p, turn[p]) # p /\ ~(Cyclic(p, turn[p]) > p)
    <3>1. Cyclic(p, turn[p]) \in Party
      BY <2>2, CyclicAt
    <3>. QED BY <3>1, <1>4, Sizes
  <2>4. PICK ph, u, d : ph
               = (IF coef[p] = SetSize /\ turn[p] = N - 1 THEN AfterPoly(p) ELSE "poly")
                 /\ u = (IF coef[p] # SetSize THEN turn[p] ELSE IF turn[p] = N - 1 THEN 1
                      ELSE turn[p] + 1) /\ d = (IF coef[p] = SetSize THEN 0 ELSE coef[p] + 1)
    OBVIOUS
  <2>5. Item(Cyclic(p, turn[p]), p,
        Heard(p, Cyclic(p, turn[p]), "poly", turn[p], coef[p], 0, 0) + 1)
          = Number("poly", coef[p], Only(Cyclic(p, turn[p])))
    BY <1>4, <1>1, <2>2, <2>3, <2>4, PolyReadTurn
  <2>6. ASSUME chan[Cyclic(p, turn[p])][p] # <<>>
        PROVE  Incoming(p, Cyclic(p, turn[p])).kind = "poly"
                 /\ Incoming(p, Cyclic(p, turn[p])).coef = coef[p]
    <3>1. Incoming(p, Cyclic(p, turn[p]))
            = Item(Cyclic(p, turn[p]), p, HeardNow(p, Cyclic(p, turn[p]), g) + 1)
      BY <2>3, <2>6, <1>1, NextNumber, Bounds
    <3>. QED BY <3>1, <2>2, <2>5, <1>4 DEF HeardNow, Number
  <2>. QED BY <1>4, <2>1, <2>6 DEF Meant
<1>5. CASE phase[p] = "ringReceive"
  <2>1. Expected(p) = <<Previous(p), "ring">>
    BY <1>5, <1>1 DEF Expected
  <2>2. turn[p] = 1 /\ coef[p] \in 0 .. Degree /\ Len(ring[p]) = coef[p] /\ g[p] = 0
    BY <1>5, <1>1, Sizes DEF Placed, Place, Pos
  <2>3. Previous(p) \in Party /\ Previous(p) # p
    BY <1>5, <1>1, <2>2, Sizes, OtherAt, CyclicAt, Neighbours
  <2>4. PICK ph, d : ph = (IF coef[p] = Degree THEN IF p = Leader THEN "keys" ELSE "ringSend"
               ELSE "ringReceive") /\ d = (IF coef[p] = Degree THEN 0 ELSE coef[p] + 1)
    OBVIOUS
  <2>5. Item(Previous(p), p, Heard(p, Previous(p), "ringReceive", 1, coef[p], coef[p], 0) + 1)
          = Number("ring", coef[p], RingBody(Previous(p)))
    BY <1>5, <1>1, <2>2, <2>3, <2>4, RingReadTurn
  <2>6. ASSUME chan[Previous(p)][p] # <<>>
        PROVE  Incoming(p, Previous(p)).kind = "ring" /\ Incoming(p, Previous(p)).coef = coef[p]
    <3>1. Incoming(p, Previous(p)) = Item(Previous(p), p, HeardNow(p, Previous(p), g) + 1)
      BY <2>3, <2>6, <1>1, NextNumber, Bounds
    <3>. QED BY <3>1, <2>2, <2>5, <1>5 DEF HeardNow, Number
  <2>. QED BY <1>5, <2>1, <2>6 DEF Meant
<1>6. CASE phase[p] = "keys"
  <2>1. Expected(p) = <<Other(p, turn[p]), "key">>
    BY <1>6, <1>1 DEF Expected
  <2>2. p = Leader /\ turn[p] \in 1 .. N - 1 /\ coef[p] = 0 /\ Len(ring[p]) = RingLen /\ g[p] = 0
    BY <1>6, <1>1, Sizes DEF Placed, Place, Pos
  <2>3. Other(p, turn[p]) \in Party /\ Other(p, turn[p]) # p
    BY <1>6, <1>1, <2>2, Sizes, OtherAt, CyclicAt, Neighbours
  <2>4. PICK ph, u : ph = (IF turn[p] = N - 1 THEN "ask" ELSE "keys")
               /\ u = (IF turn[p] = N - 1 THEN 1 ELSE turn[p] + 1)
    OBVIOUS
  <2>5. Item(Other(p, turn[p]), p,
        Heard(p, Other(p, turn[p]), "keys", turn[p], 0, RingLen, 0) + 1)
          = Number("key", 0, Only(Other(p, turn[p])))
    BY <1>6, <1>1, <2>2, <2>3, <2>4, KeyReadTurn
  <2>6. ASSUME chan[Other(p, turn[p])][p] # <<>>
        PROVE  Incoming(p, Other(p, turn[p])).kind = "key"
    <3>1. Incoming(p, Other(p, turn[p]))
            = Item(Other(p, turn[p]), p, HeardNow(p, Other(p, turn[p]), g) + 1)
      BY <2>3, <2>6, <1>1, NextNumber, Bounds
    <3>. QED BY <3>1, <2>2, <2>5, <1>6 DEF HeardNow, Number
  <2>. QED BY <1>6, <2>1, <2>6 DEF Meant
<1>7. CASE phase[p] = "collect"
  <2>1. Expected(p) = <<Other(p, turn[p]), "answer">>
    BY <1>7, <1>1 DEF Expected
  <2>2. p = Leader /\ turn[p] \in 1 .. N - 1 /\ coef[p] \in 0 .. Degree
          /\ Len(ring[p]) = RingLen /\ g[p] = 0
    BY <1>7, <1>1, Sizes DEF Placed, Place, Pos
  <2>3. Other(p, turn[p]) \in Party /\ Other(p, turn[p]) # p
    BY <1>7, <1>1, <2>2, Sizes, OtherAt, CyclicAt, Neighbours
  <2>4. PICK ph, u, d : ph
               = (IF turn[p] # N - 1 THEN "collect" ELSE IF coef[p] = Degree THEN "done"
                 ELSE "ask") /\ u = (IF turn[p] = N - 1 THEN 1 ELSE turn[p] + 1)
                   /\ d = (IF turn[p] = N - 1 THEN coef[p] + 1 ELSE coef[p])
    OBVIOUS
  <2>5. Item(Other(p, turn[p]), p,
        Heard(p, Other(p, turn[p]), "collect", turn[p], coef[p], RingLen, 0) + 1)
          = Number("answer", coef[p], Only(Other(p, turn[p])))
    BY <1>7, <1>1, <2>2, <2>3, <2>4, CollectTurn
  <2>6. ASSUME chan[Other(p, turn[p])][p] # <<>>
        PROVE  Incoming(p, Other(p, turn[p])).kind = "answer"
                 /\ Incoming(p, Other(p, turn[p])).coef = coef[p]
    <3>1. Incoming(p, Other(p, turn[p]))
            = Item(Other(p, turn[p]), p, HeardNow(p, Other(p, turn[p]), g) + 1)
      BY <2>3, <2>6, <1>1, NextNumber, Bounds
    <3>. QED BY <3>1, <2>2, <2>5, <1>7 DEF HeardNow, Number
  <2>. QED BY <1>7, <2>1, <2>6 DEF Meant
<1>8. CASE phase[p] = "cipher"
  <2>1. Expected(p) = <<Leader, "cipher">>
    BY <1>8, <1>1 DEF Expected
  <2>2. p # Leader /\ turn[p] = 1 /\ coef[p] \in 0 .. Degree /\ g[p] \in 0 .. Degree
          /\ Len(ring[p]) = RingLen
    BY <1>8, <1>1, Sizes DEF Placed, Place, Pos
  <2>3. Leader \in Party /\ Leader # p
    BY <1>8, <1>1, <2>2, Sizes, OtherAt, CyclicAt, Neighbours
  <2>4. Item(Leader, p, Heard(p, Leader, "cipher", 1, coef[p], RingLen, g[p]) + 1)
          = Number("cipher", g[p], RingBody(Previous(Leader)))
    BY <1>8, <1>1, <2>2, <2>3, CipherTurn
  <2>5. ASSUME chan[Leader][p] # <<>>
        PROVE  Incoming(p, Leader).kind = "cipher"
    <3>1. Incoming(p, Leader) = Item(Leader, p, HeardNow(p, Leader, g) + 1)
      BY <2>3, <2>5, <1>1, NextNumber, Bounds
    <3>. QED BY <3>1, <2>2, <2>4, <1>8 DEF HeardNow, Number
  <2>. QED BY <1>8, <2>1, <2>5 DEF Meant
<1>9. CASE /\ ~(phase[p] = "params" /\ p # Leader)
           /\ ~(phase[p] = "poly" /\ Cyclic(p, turn[p]) < p)
           /\ phase[p] \notin {"shareReceive", "ringReceive", "keys", "collect", "cipher"}
  <2>1. Expected(p) = <<p, "none">>
    BY <1>9 DEF Expected
  <2>. QED BY <2>1, <1>1 DEF Meant
<1>. QED BY <1>2, <1>3, <1>4, <1>5, <1>6, <1>7, <1>8, <1>9

\* Nothing on the wire says what a number is, and yet no party ever takes one
\* for another, whichever party leads and however the rest of them interleave.
THEOREM NothingMistaken == Spec => []ReadsWhatWasMeant
<1>1. KInv => ReadsWhatWasMeant
  BY NextIsMeant DEF KInv, ReadsWhatWasMeant, Meant
<1>. QED BY <1>1, ScriptInvariant, PTL

\* Once the leader has gone around the ring, it has the sum of all the blinded
\* polynomials: of every party, its own and all those below it.
THEOREM SumIsComplete == Spec => []RingSumsEverything
<1>1. ASSUME NEW g \in [Party -> Count], Inv(g),
             phase[Leader] \in {"keys", "ask", "collect", "done"}
      PROVE  /\ Len(ring[Leader]) = Degree + 1
             /\ \A c \in DOMAIN ring[Leader] : ring[Leader][c]
                  = {s \in Party \X Party : s[2] <= s[1]}
  <2>1. Placed(Leader, g) /\ Stored(Leader)
    BY <1>1, Sizes DEF Inv
  <2>2. Len(ring[Leader]) = Degree + 1
    BY <1>1, <2>1 DEF Placed, Place, Pos, RingLen
  <2>3. DOMAIN ring[Leader] = 1 .. Len(ring[Leader])
    BY <2>1, LenProperties DEF Stored, IsSeq
  <2>. QED BY <2>1, <2>2, <2>3, WholeRing DEF Stored
<1>2. KInv => RingSumsEverything
  BY <1>1 DEF KInv, RingSumsEverything
<1>. QED BY <1>2, ScriptInvariant, PTL

\* A follower one of whose answers the leader has read has got that far.
LEMMA Answered ==
  ASSUME NEW g \in [Party -> Count], Inv(g), NEW q \in Party, q # Leader,
         phase[Leader] \in {"ask", "collect", "done"}, Completed(phase[Leader], coef[Leader]) > 0
  PROVE  Pos(q, phase[q]) > 6
<1>1. /\ Placed(Leader, g) /\ Placed(q, g) /\ Wire(q, Leader, g) /\ Leader \in Party
      /\ SaidNow(q, Leader, g) \in Nat /\ HeardNow(Leader, q, g) \in Nat
  BY Sizes, Counts, Bounds DEF Inv, Wires
<1>2. HeardNow(Leader, q, g) > EndKey(q, Leader)
  <2>1. coef[Leader] \in Nat /\ Len(ring[Leader]) = RingLen /\ RingLen = Degree + 1
          /\ Degree \in Nat
    BY SMTT(30), <1>1, Sizes DEF Placed, Place, Pos, RingLen
  <2>2. HeardRest(Leader, q, phase[Leader], turn[Leader], coef[Leader], g[Leader]) \in Nat
        /\ HeardRest(Leader, q, phase[Leader], turn[Leader], coef[Leader], g[Leader]) > 0
    BY <2>1 DEF HeardRest, Completed
  <2>3. /\ HeardParams(Leader, q, phase[Leader]) = 0
             /\ HeardShare(Leader, q, phase[Leader], turn[Leader]) = 1
        /\ HeardPoly(Leader, q, phase[Leader], turn[Leader], coef[Leader])
             = (IF q < Leader THEN PolyLen ELSE 0)
        /\ HeardRing(Leader, q, Len(ring[Leader])) = (IF q = Previous(Leader) THEN RingLen ELSE 0)
        /\ HeardKey(Leader, q, phase[Leader], turn[Leader]) = 1
    BY <2>1 DEF HeardParams, HeardShare, HeardPoly, HeardRing, HeardKey, PolyCount, Pos
  <2>4. q = Previous(Leader) <=> Leader = Following(q)
    BY <1>1, Neighbours
  <2>5. EndKey(q, Leader) = 0 + 1 + (IF q < Leader THEN PolyLen ELSE 0)
                              + (IF q = Previous(Leader) THEN RingLen ELSE 0) + 1
    BY <2>4 DEF EndKey, EndRing, EndPoly, EndShare, EndParams
  <2>. QED BY <2>1, <2>2, <2>3, <2>5, ScriptEnds DEF HeardNow, Heard
<1>3. HeardNow(Leader, q, g) <= SaidNow(q, Leader, g)
  BY <1>1, EmptyQueue DEF Wire
<1>4. ASSUME ~(Pos(q, phase[q]) > 6) PROVE SaidNow(q, Leader, g) <= EndKey(q, Leader)
  <2>1. coef[q] \in Nat /\ PolyLen \in Nat /\ RingLen \in Nat /\ RingLen = Degree + 1
          /\ PolyLen = SetSize + 1
    BY <1>1, ScriptEnds DEF Placed, Place
  <2>2. g[q] = 0 /\ phase[q] \in Phases /\ phase[q] # "decrypt"
    BY <1>1, <1>4 DEF Placed, Place, Pos, Phases
  <2>3. /\ SaidParams(q, Leader, phase[q], turn[q]) = 0
        /\ SaidShare(q, Leader, phase[q], turn[q]) <= 1
             /\ SaidShare(q, Leader, phase[q], turn[q]) \in Nat
        /\ SaidKey(q, Leader, phase[q]) = 0
        /\ SaidRest(q, Leader, phase[q], turn[q], coef[q], g[q]) = 0
    BY <1>4, <2>2 DEF SaidParams, SaidShare, SaidKey, SaidRest
  <2>4. /\ SaidPoly(q, Leader, phase[q], turn[q], coef[q]) \in Nat
        /\ SaidPoly(q, Leader, phase[q], turn[q], coef[q]) <= (IF q < Leader THEN PolyLen ELSE 0)
    <3>1. Pos(q, phase[q]) = 3 => coef[q] <= SetSize
      BY <1>1, <2>2 DEF Placed, Place, Pos, Phases
    <3>2. Pos(q, phase[q]) \in Nat
      BY DEF Pos
    <3>3. PolyCount(q, Leader, phase[q], turn[q], coef[q]) \in Nat
          /\ PolyCount(q, Leader, phase[q], turn[q], coef[q]) <= PolyLen
      BY <2>1, <3>1, <3>2, Sizes DEF PolyCount
    <3>. QED BY <3>3 DEF SaidPoly
  <2>5. /\ SaidRing(q, Leader, phase[q], coef[q]) \in Nat
        /\ SaidRing(q, Leader, phase[q], coef[q]) <= (IF Leader = Following(q) THEN RingLen ELSE 0)
    <3>1. phase[q] = "ringSend" => coef[q] <= Degree
      BY <1>1 DEF Placed, Place
    <3>. QED BY <3>1, <2>1, Sizes DEF SaidRing
  <2>6. EndKey(q, Leader) = 0 + 1 + (IF q < Leader THEN PolyLen ELSE 0)
                              + (IF Leader = Following(q) THEN RingLen ELSE 0) + 1
    BY DEF EndKey, EndRing, EndPoly, EndShare, EndParams
  <2>. QED BY <2>1, <2>3, <2>4, <2>5, <2>6 DEF SaidNow, Said
<1>5. Pos(q, phase[q]) \in Nat
  BY DEF Pos
<1>. QED BY <1>1, <1>2, <1>3, <1>4, <1>5, ScriptEnds

\* Every ciphertext is decrypted with one partial decryption of every party, all
\* of this ciphertext, made with complete shares under everybody's key.
THEOREM DecryptionIsComplete == Spec => []DecryptedByEveryone
<1>1. ASSUME NEW g \in [Party -> Count], Inv(g) PROVE DecryptedByEveryone
  <2>1. LeaderStored /\ Placed(Leader, g) /\ DOMAIN decrypted = 1 .. Len(decrypted)
    BY <1>1, Sizes, LenProperties DEF Inv, LeaderStored, IsSeq
  <2>2. \A c \in DOMAIN decrypted : decrypted[c] = {[party |-> p, coef |-> c - 1] : p \in Party}
    BY <2>1 DEF LeaderStored, Answer
  <2>3. ASSUME decrypted # <<>> PROVE keys = Party /\ \A p \in Party : share[p] = Party
    <3>1. Len(decrypted) \in Nat /\ Len(decrypted) > 0
      BY <2>1, <2>3, EmptyQueue DEF LeaderStored
    <3>2. /\ phase[Leader] \in {"ask", "collect", "done"}
          /\ Completed(phase[Leader], coef[Leader]) > 0
      BY <2>1, <3>1 DEF LeaderStored, Completed
    <3>3. phase[Leader] \in Phases /\ turn[Leader] \in 1 .. N - 1 /\ Pos(Leader, phase[Leader]) > 6
      BY <2>1, <3>2 DEF Placed, Place, Pos
    <3>4. keys = Party
      BY <2>1, <3>3, KeysAre DEF LeaderStored
    <3>5. ASSUME NEW p \in Party PROVE share[p] = Party
      <4>1. Stored(p) /\ phase[p] \in Phases /\ turn[p] \in 1 .. N - 1
        BY <1>1 DEF Inv, Placed, Place
      <4>2. Pos(p, phase[p]) > 6
        BY <1>1, <3>2, <3>3, Answered
      <4>3. Pos(p, phase[p]) > 2
        BY <4>2 DEF Pos
      <4>. QED BY <4>1, <4>3, SharesAre DEF Stored
    <3>. QED BY <3>4, <3>5
  <2>. QED BY <2>2, <2>3 DEF DecryptedByEveryone
<1>2. KInv => DecryptedByEveryone
  BY <1>1 DEF KInv
<1>. QED BY <1>2, ScriptInvariant, PTL
=============================================================================
