---------------------------- MODULE CuckooProofs ----------------------------
(***************************************************************************)
(* Proofs about Cuckoo for every number of elements and bins and every     *)
(* address function.                                                       *)
(*                                                                         *)
(* The invariants of the insertion loop (RestsAtAnAddress, HeldOnce) are   *)
(* inductive once the phases are related to the loop variables and the     *)
(* elements in the table are known to be among those already offered.      *)
(* That perm is never overrun needs more: filled is the rank of the bin    *)
(* being copied, and ranks are bounded by the number of elements because   *)
(* the table is injective on its occupied bins.                            *)
(***************************************************************************)
EXTENDS Cuckoo, FiniteSetTheorems, TLAPS

\* How the phase fixes the loop variables.
Phases ==
  /\ pc = "insert" => next < NumEles /\ evicted \in Ele /\ bin = 0
  /\ pc # "insert" => next = NumEles
  /\ pc = "copy" => bin < NumBins
  /\ pc \in {"bins", "perm", "done"} => bin = NumBins

\* Only elements already offered are in the table or in hand.
OnlyOffered ==
  /\ \A b \in Occupied : table[b] <= next
  /\ pc = "insert" => evicted <= next

\* What the copy loop has written for the bins below bin.
CopiedSoFar ==
  /\ filled = Rank(bin)
  /\ \A b \in Bin : binIds[b] = IF b < bin /\ table[b] # Null THEN table[b] + 1 ELSE 0
  /\ \A b \in Occupied : b < bin => /\ perm[Rank(b)] = table[b]
                                    /\ hashedBy[b] = LowestHF(b)

IInv == /\ TypeOK
        /\ RestsAtAnAddress
        /\ HeldOnce
        /\ Phases
        /\ OnlyOffered
        /\ CopiedSoFar

-----------------------------------------------------------------------------
(***************************************************************************)
(* A non-empty set of numbers up to n has a greatest element: Last, the    *)
(* last writer of the loops of runAsLeader, is well defined.               *)
(***************************************************************************)
LEMMA LastExists ==
  ASSUME NEW n \in Nat, NEW S \in SUBSET (0 .. n), S # {}
  PROVE  Last(S) \in S /\ \A k \in S : k <= Last(S)
<1> DEFINE Above(m) == {k \in S : m < k}
           T == {Above(m) : m \in S}
           R == StrictSubsetOrdering(0 .. n)
<1>1. IsFiniteSet(0 .. n)
  BY FS_Interval
<1>2. IsWellFoundedOn(R, SUBSET (0 .. n))
  BY <1>1, FS_StrictSubsetOrderingWellFounded, FS_FiniteSubsetsOfFinite
<1>3. T \subseteq SUBSET (0 .. n) /\ T # {}
  OBVIOUS
<1>4. PICK X \in T : \A Y \in T : <<Y, X>> \notin R
  <2> HIDE DEF T, R
  <2> QED BY <1>2, <1>3, WFMin
<1>5. PICK m \in S : X = Above(m)
  OBVIOUS
<1>6. \A k \in S : k <= m
  <2> SUFFICES ASSUME NEW k \in S, m < k PROVE FALSE
    OBVIOUS
  <2>0. \A x \in S : x \in Int
    OBVIOUS
  <2>1. Above(k) \subseteq Above(m) /\ k \in Above(m) /\ k \notin Above(k)
    <3>1. \A x \in S : k < x => m < x
      BY <2>0
    <3>2. k \in Above(m) /\ k \notin Above(k)
      BY <2>0
    <3> QED BY <3>1, <3>2
  <2>2. <<Above(k), Above(m)>> \in R
    BY <2>1 DEF StrictSubsetOrdering
  <2> QED BY <2>2, <1>4, <1>5
<1> QED BY <1>6 DEF Last

(***************************************************************************)
(* Ranks: counted one bin at a time, bounded by the number of elements.    *)
(***************************************************************************)
LEMMA BinsFinite == IsFiniteSet(Bin) /\ IsFiniteSet(Ele) /\ Cardinality(Ele) = NumEles
  BY FS_Interval, SizeAssumption DEF Bin, Ele

LEMMA RankStep ==
  ASSUME NEW b \in Bin
  PROVE  /\ Rank(b) \in Nat
         /\ Rank(b + 1) = IF table[b] # Null THEN Rank(b) + 1 ELSE Rank(b)
<1> DEFINE Below(k) == {c \in Occupied : c < k}
<1>1. IsFiniteSet(Below(b))
  BY BinsFinite, FS_Subset, Below(b) \subseteq Bin DEF Occupied
<1>2. Below(b + 1) = IF table[b] # Null THEN Below(b) \cup {b} ELSE Below(b)
  BY SizeAssumption DEF Occupied, Bin
<1>3. b \notin Below(b)
  BY SizeAssumption DEF Bin
<1>4. table[b] # Null => Cardinality(Below(b + 1)) = Cardinality(Below(b)) + 1
  <2> HIDE DEF Below
  <2> QED BY <1>1, <1>2, <1>3, FS_AddElement
<1>5. Cardinality(Below(b)) \in Nat
  BY <1>1, FS_CardinalityType
<1> QED BY <1>2, <1>4, <1>5 DEF Rank

LEMMA RankBound ==
  ASSUME TypeOK, HeldOnce, NEW k \in Int
  PROVE  Rank(k) \in 0 .. NumEles
<1> DEFINE S == {c \in Occupied : c < k}
           f == [c \in S |-> table[c]]
<1>1. f \in Injection(S, Ele)
  BY DEF TypeOK, HeldOnce, Occupied, Injection, IsInjective
<1>2. Cardinality(S) <= NumEles /\ IsFiniteSet(S)
  <2> HIDE DEF S, f
  <2> QED BY <1>1, BinsFinite, FS_Injection
<1> QED BY <1>2, FS_CardinalityType, SizeAssumption DEF Rank

-----------------------------------------------------------------------------
(***************************************************************************)
(* The invariant.                                                          *)
(***************************************************************************)
LEMMA InitIInv == Init => IInv
<1> SUFFICES ASSUME Init PROVE IInv
  OBVIOUS
<1> USE SizeAssumption DEF Init
<1>1. Occupied = {}
  BY DEF Occupied
<1>2. TypeOK
  BY DEF TypeOK, Ele, Bin, HF, Null, NoInfo
<1>3. RestsAtAnAddress /\ HeldOnce
  BY <1>1 DEF RestsAtAnAddress, HeldOnce, InTable
<1>4. Phases /\ OnlyOffered
  BY <1>1 DEF Phases, OnlyOffered, Ele
<1>5. Rank(0) = 0
  BY <1>1, FS_EmptySet DEF Rank
<1>6. CopiedSoFar
  BY <1>1, <1>5 DEF CopiedSoFar, Bin
<1> QED BY <1>2, <1>3, <1>4, <1>6 DEF IInv

\* A step that puts the entry in hand into one of its own bins keeps the
\* facts about the bins, provided what was in that bin leaves the table.
LEMMA PutKeepsBins ==
  ASSUME IInv, pc = "insert", NEW j \in HF, NEW b \in Bin,
         b = address[evicted][j],
         address' = address,
         table' = [table EXCEPT ![b] = evicted]
  PROVE  /\ table' \in [Bin -> Ele \cup {Null}]
         /\ RestsAtAnAddress'
         /\ \A c, d \in Occupied' : table'[c] = table'[d] => c = d
         /\ \A c \in Occupied' : table'[c] <= next
         /\ \A c \in Occupied' : table'[c] = evicted \/ table'[c] \in InTable
<1>1. evicted \in Ele /\ evicted # Null /\ evicted <= next
  BY DEF IInv, Phases, OnlyOffered, Ele, Null
<1>2. Occupied' = Occupied \cup {b}
  BY <1>1 DEF IInv, TypeOK, Occupied
<1>3. \A c \in Occupied' : table'[c] = IF c = b THEN evicted ELSE table[c]
  BY <1>2 DEF IInv, TypeOK, Occupied
<1>4. \A c \in Occupied' : c # b => c \in Occupied /\ table[c] # evicted
  BY <1>2 DEF IInv, HeldOnce, InTable
<1>5. table' \in [Bin -> Ele \cup {Null}]
  BY <1>1 DEF IInv, TypeOK
<1>6. RestsAtAnAddress'
  BY <1>3, <1>4 DEF IInv, RestsAtAnAddress
<1>7. \A c, d \in Occupied' : table'[c] = table'[d] => c = d
  BY <1>3, <1>4 DEF IInv, HeldOnce
<1>8. \A c \in Occupied' : table'[c] <= next
  BY <1>1, <1>3, <1>4 DEF IInv, OnlyOffered
<1>9. \A c \in Occupied' : table'[c] = evicted \/ table'[c] \in InTable
  BY <1>3, <1>4 DEF InTable
<1> QED BY <1>5, <1>6, <1>7, <1>8, <1>9

\* While elements are still being inserted nothing has been copied: bin is 0.
LEMMA NothingCopied ==
  ASSUME IInv, pc = "insert", UNCHANGED copying
  PROVE  CopiedSoFar'
<1>1. bin = 0 /\ bin' = 0
  BY DEF IInv, Phases, copying
<1>2. Rank(0) = 0 /\ Rank(0)' = 0
  <2>1. {c \in Occupied : c < 0} = {} /\ {c \in Occupied' : c < 0} = {}
    BY DEF Occupied, Bin
  <2> QED BY <2>1, FS_EmptySet DEF Rank
<1>3. \A b \in Bin : ~(b < 0)
  BY DEF Bin
<1>4. filled' = 0 /\ \A b \in Bin : binIds'[b] = 0
  BY <1>1, <1>2, <1>3 DEF IInv, CopiedSoFar, copying
<1>5. Rank(bin)' = 0
  BY <1>1, <1>2
<1> QED BY <1>1, <1>3, <1>4, <1>5 DEF CopiedSoFar, Occupied

\* The outer loop's step keeps what is said of the loop variables.
LEMMA NextElementKeeps ==
  ASSUME TypeOK, Phases, pc = "insert", NextElement, UNCHANGED bin
  PROVE  /\ next' \in 0 .. NumEles /\ evicted' \in Ele \cup {Null} /\ iter' \in 0 .. NumEles
         /\ pc' \in {"insert", "copy"}
         /\ Phases'
         /\ next' = next + 1
         /\ pc' = "insert" => evicted' = next + 1
<1> USE SizeAssumption DEF TypeOK, Phases, NextElement, Ele, Null
<1>1. next \in Nat /\ next < NumEles /\ bin = 0 /\ next' = next + 1
  OBVIOUS
<1>2. CASE next + 1 < NumEles
  BY <1>1, <1>2
<1>3. CASE ~(next + 1 < NumEles)
  BY <1>1, <1>3
<1> QED BY <1>2, <1>3

-----------------------------------------------------------------------------
(***************************************************************************)
(* One lemma per action.                                                   *)
(***************************************************************************)
LEMMA PlaceKeeps == IInv /\ Place => IInv'
<1> SUFFICES ASSUME IInv, Place PROVE IInv'
  OBVIOUS
<1>1. PICK j \in FreeHF : /\ \A k \in FreeHF : j <= k
                          /\ table' = [table EXCEPT ![address[evicted][j]] = evicted]
                          /\ pos' = [pos EXCEPT ![evicted] = j]
  BY DEF Place
<1>2. /\ pc = "insert" /\ j \in HF /\ evicted \in Ele /\ address[evicted][j] \in Bin
      /\ NextElement /\ UNCHANGED <<address, reported, copying, hashInfo>>
  BY DEF Place, FreeHF, IInv, Phases, TypeOK
<1>3. /\ table' \in [Bin -> Ele \cup {Null}]
      /\ RestsAtAnAddress'
      /\ \A c, d \in Occupied' : table'[c] = table'[d] => c = d
      /\ \A c \in Occupied' : table'[c] <= next
  BY <1>1, <1>2, PutKeepsBins
<1>4. /\ next' \in 0 .. NumEles /\ evicted' \in Ele \cup {Null} /\ iter' \in 0 .. NumEles
      /\ pc' \in {"insert", "copy"}
      /\ Phases'
      /\ next' = next + 1
      /\ pc' = "insert" => evicted' = next + 1
  BY <1>2, NextElementKeeps DEF IInv, copying
<1>5. CopiedSoFar'
  BY <1>2, NothingCopied
<1>6. pos' \in [Ele -> HF]
  BY <1>1, <1>2 DEF IInv, TypeOK
<1>7. TypeOK'
  BY <1>2, <1>3, <1>4, <1>6 DEF IInv, TypeOK, copying
<1>8. next \in Int /\ \A c \in Occupied' : table'[c] \in Int
  BY <1>3 DEF IInv, TypeOK, Occupied, Ele, Bin, Null
<1>9. OnlyOffered'
  BY <1>3, <1>4, <1>8 DEF OnlyOffered
<1>10. HeldOnce'
  BY <1>3, <1>4, <1>8 DEF HeldOnce, InTable
<1> QED BY <1>3, <1>4, <1>5, <1>7, <1>9, <1>10 DEF IInv

LEMMA EvictHFType == IInv /\ pc = "insert" => EvictHF \in HF
<1> SUFFICES ASSUME IInv, pc = "insert" PROVE EvictHF \in HF
  OBVIOUS
<1>1. pos[evicted] \in Int /\ iter \in Int
  BY DEF IInv, TypeOK, Phases, HF
<1>2. PosXor(pos[evicted], iter) \in Int
  BY <1>1 DEF PosXor
<1> QED BY <1>2 DEF EvictHF, HF

LEMMA EvictKeeps == IInv /\ Evict => IInv'
<1> SUFFICES ASSUME IInv, Evict PROVE IInv'
  OBVIOUS
<1> DEFINE b == address[evicted][EvictHF]
           out == table[b]
<1>1. /\ pc = "insert" /\ iter < MaxIterations /\ FreeHF = {}
      /\ table' = [table EXCEPT ![b] = evicted]
      /\ evicted' = out
      /\ pos' = [pos EXCEPT ![out] = (@ + 1) % 3]
      /\ iter' = iter + 1
      /\ UNCHANGED <<address, next, reported, copying, hashInfo, pc>>
  BY DEF Evict
<1>2. EvictHF \in HF /\ evicted \in Ele /\ evicted # Null
  BY <1>1, EvictHFType DEF IInv, Phases, Ele, Null
<1>3. b \in Bin /\ b \in Occupied
  BY <1>1, <1>2 DEF IInv, TypeOK, FreeHF, Occupied
<1> HIDE DEF b
<1>4. /\ table' \in [Bin -> Ele \cup {Null}]
      /\ RestsAtAnAddress'
      /\ \A c, d \in Occupied' : table'[c] = table'[d] => c = d
      /\ \A c \in Occupied' : table'[c] <= next
  <2>1. address' = address
    BY <1>1
  <2>2. \E j \in HF : b = address[evicted][j]
    BY <1>2 DEF b
  <2> QED BY <2>1, <2>2, <1>1, <1>3, PutKeepsBins
<1>5. out \in Ele /\ out # evicted /\ out <= next
  BY <1>1, <1>3 DEF IInv, TypeOK, Occupied, HeldOnce, InTable, OnlyOffered
<1>6. \A c \in Occupied' : table'[c] # out
  <2> SUFFICES ASSUME NEW c \in Occupied', table'[c] = out PROVE FALSE
    OBVIOUS
  <2>1. c # b /\ table[c] = out /\ c \in Bin
    BY <1>1, <1>3, <1>5 DEF IInv, TypeOK, Occupied
  <2>2. c \in Occupied
    BY <2>1, <1>3 DEF Occupied
  <2> QED BY <2>1, <2>2, <1>3 DEF IInv, HeldOnce
<1>7. pos' \in [Ele -> HF]
  BY SMTT(30), <1>1, <1>5 DEF IInv, TypeOK, HF
<1>8. iter' \in 0 .. NumEles
  BY <1>1, SizeAssumption DEF IInv, TypeOK, MaxIterations
<1> HIDE DEF out
<1>9. TypeOK'
  BY <1>1, <1>4, <1>5, <1>7, <1>8 DEF IInv, TypeOK, copying
<1>10. Phases'
  BY <1>1, <1>5 DEF IInv, Phases, copying
<1>11. OnlyOffered'
  BY <1>1, <1>4, <1>5 DEF OnlyOffered
<1>12. HeldOnce'
  BY <1>1, <1>4, <1>6 DEF HeldOnce, InTable
<1>13. CopiedSoFar'
  BY <1>1, NothingCopied
<1> QED BY <1>4, <1>9, <1>10, <1>11, <1>12, <1>13 DEF IInv

LEMMA GiveUpKeeps == IInv /\ GiveUp => IInv'
<1> SUFFICES ASSUME IInv, GiveUp PROVE IInv'
  OBVIOUS
<1>1. /\ pc = "insert" /\ reported' = reported \cup {next} /\ NextElement
      /\ UNCHANGED <<address, table, pos, copying, hashInfo>>
  BY DEF GiveUp
<1>2. /\ next' \in 0 .. NumEles /\ evicted' \in Ele \cup {Null} /\ iter' \in 0 .. NumEles
      /\ pc' \in {"insert", "copy"}
      /\ Phases'
      /\ next' = next + 1
      /\ pc' = "insert" => evicted' = next + 1
  BY <1>1, NextElementKeeps DEF IInv, copying
<1>3. CopiedSoFar'
  BY <1>1, NothingCopied
<1>4. next \in Ele /\ next \in Int
  BY <1>1, SizeAssumption DEF IInv, TypeOK, Phases, Ele
<1>5. TypeOK'
  BY <1>1, <1>2, <1>4 DEF IInv, TypeOK, copying
<1>6. Occupied' = Occupied /\ table' = table /\ RestsAtAnAddress'
  BY <1>1 DEF IInv, Occupied, RestsAtAnAddress
<1>7. \A c \in Occupied : table[c] \in Int
  BY DEF IInv, TypeOK, Occupied, Ele, Bin, Null
<1>8. OnlyOffered'
  BY <1>2, <1>4, <1>6, <1>7 DEF IInv, OnlyOffered
<1>9. HeldOnce'
  BY <1>2, <1>4, <1>6, <1>7 DEF IInv, OnlyOffered, HeldOnce, InTable
<1> QED BY <1>2, <1>3, <1>5, <1>6, <1>8, <1>9 DEF IInv

\* An occupied bin has a lowest hash function leading to it.
LEMMA LowestHFProp ==
  ASSUME RestsAtAnAddress, NEW b \in Occupied
  PROVE  /\ LowestHF(b) \in HF
         /\ address[table[b]][LowestHF(b)] = b
         /\ \A k \in HF : k < LowestHF(b) => address[table[b]][k] # b
<1> DEFINE Leads(j) == address[table[b]][j] = b
<1>1. \E j \in HF : Leads(j) /\ \A k \in HF : k < j => ~Leads(k)
  <2>1. PICK j \in HF : Leads(j)
    BY DEF RestsAtAnAddress
  <2>2. j \in {0, 1, 2} /\ HF = {0, 1, 2}
    BY DEF HF
  <2> HIDE DEF Leads
  <2>3. CASE Leads(0)
    BY <2>2, <2>3
  <2>4. CASE ~Leads(0) /\ Leads(1)
    BY <2>2, <2>4
  <2>5. CASE ~Leads(0) /\ ~Leads(1)
    BY <2>1, <2>2, <2>5
  <2> QED BY <2>3, <2>4, <2>5
<1> QED BY <1>1 DEF LowestHF

LEMMA CopyBinKeeps == IInv /\ CopyBin => IInv'
<1> SUFFICES ASSUME IInv, CopyBin PROVE IInv'
  OBVIOUS
<1>1. /\ pc = "copy" /\ bin < NumBins /\ bin' = bin + 1
      /\ pc' = IF bin + 1 = NumBins THEN "bins" ELSE "copy"
      /\ UNCHANGED <<address, inserting, hashInfo>>
  BY DEF CopyBin
<1>2. bin \in Bin /\ bin \in Nat
  BY <1>1, SizeAssumption DEF IInv, TypeOK, Bin
<1>3. UNCHANGED <<address, table, pos, next, evicted, iter, reported, hashInfo>>
  BY <1>1 DEF inserting
<1>4. Occupied' = Occupied /\ InTable' = InTable /\ \A k : Rank(k)' = Rank(k)
  BY <1>3 DEF Occupied, InTable, Rank
<1>5. RestsAtAnAddress' /\ HeldOnce' /\ OnlyOffered'
  BY <1>1, <1>3, <1>4 DEF IInv, RestsAtAnAddress, HeldOnce, OnlyOffered
<1>6. Phases'
  BY <1>1, <1>2, <1>3, SizeAssumption DEF IInv, Phases
<1>7. /\ filled = Rank(bin) /\ Rank(bin) \in Nat /\ Rank(bin + 1) \in 0 .. NumEles
      /\ Rank(bin + 1) = IF table[bin] # Null THEN Rank(bin) + 1 ELSE Rank(bin)
  BY <1>2, RankStep, RankBound DEF IInv, CopiedSoFar
<1>8. \A b \in Occupied : LowestHF(b)' = LowestHF(b)
  BY <1>3 DEF LowestHF
<1>9. CASE table[bin] # Null
  <2>1. /\ hashedBy' = [hashedBy EXCEPT ![bin] = LowestHF(bin)]
        /\ perm' = [perm EXCEPT ![filled] = table[bin]]
        /\ filled' = filled + 1
        /\ binIds' = [binIds EXCEPT ![bin] = table[bin] + 1]
    BY <1>9 DEF CopyBin
  <2>2. bin \in Occupied /\ table[bin] \in Ele /\ LowestHF(bin) \in HF
    BY <1>2, <1>9, LowestHFProp DEF IInv, TypeOK, Occupied
  <2>3. filled \in Ele /\ filled + 1 \in 0 .. NumEles
    BY <1>7, <1>9, SizeAssumption DEF Ele
  <2>4. TypeOK'
    <3>1. perm' \in [Ele -> Ele] /\ hashedBy' \in [Bin -> HF] /\ filled' \in 0 .. NumEles
      BY <2>1, <2>2, <2>3 DEF IInv, TypeOK
    <3>2. binIds' \in [Bin -> 0 .. NumEles]
      <4>1. table[bin] + 1 \in 0 .. NumEles
        BY <2>2, SizeAssumption DEF Ele
      <4> QED BY <2>1, <4>1 DEF IInv, TypeOK
    <3>3. bin' \in 0 .. NumBins /\ pc' \in {"copy", "bins"}
      BY <1>1, <1>2, SizeAssumption
    <3> QED BY <1>3, <3>1, <3>2, <3>3 DEF IInv, TypeOK
  <2>5. filled' = Rank(bin)'
    BY <1>1, <1>4, <1>7, <1>9, <2>1
  <2>6. \A b \in Bin : binIds'[b] = IF b < bin' /\ table'[b] # Null THEN table'[b] + 1 ELSE 0
    BY <1>1, <1>2, <1>3, <1>9, <2>1 DEF IInv, CopiedSoFar, TypeOK, Bin
  <2>7. ASSUME NEW b \in Occupied, b < bin'
        PROVE  perm'[Rank(b)] = table[b] /\ hashedBy'[b] = LowestHF(b)
    <3>1. b \in Bin /\ b \in Int /\ (b < bin \/ b = bin)
      BY <1>1, <1>2, <2>7, SizeAssumption DEF Occupied, Bin
    <3>2. CASE b = bin
      BY <1>2, <1>7, <2>1, <2>3, <3>2 DEF IInv, TypeOK
    <3>3. CASE b < bin
      <4>1. perm[Rank(b)] = table[b] /\ hashedBy[b] = LowestHF(b)
        BY <3>3 DEF IInv, CopiedSoFar
      <4>2. Rank(b) # filled
        <5>1. Rank(b) + 1 = Rank(b + 1) /\ Rank(b) \in Nat
          BY <3>1, RankStep DEF Occupied
        <5>2. Rank(b + 1) <= Rank(bin)
          <6>1. {c \in Occupied : c < b + 1} \subseteq {c \in Occupied : c < bin}
            BY <1>2, <3>1, <3>3, SizeAssumption DEF Occupied, Bin
          <6>2. IsFiniteSet({c \in Occupied : c < bin})
            BY BinsFinite, FS_Subset, {c \in Occupied : c < bin} \subseteq Bin DEF Occupied
          <6> QED BY <6>1, <6>2, FS_Subset DEF Rank
        <5> QED BY <5>1, <5>2, <1>7
      <4>3. Rank(b) \in Nat
        BY <3>1, RankStep
      <4> QED BY <1>2, <2>1, <3>1, <3>3, <4>1, <4>2 DEF IInv, TypeOK
    <3> QED BY <3>1, <3>2, <3>3
  <2>8. CopiedSoFar'
    BY <1>3, <1>4, <1>8, <2>5, <2>6, <2>7 DEF CopiedSoFar
  <2> QED BY <1>5, <1>6, <2>4, <2>8 DEF IInv
<1>10. CASE table[bin] = Null
  <2>1. UNCHANGED <<hashedBy, perm, filled, binIds>>
    BY <1>10 DEF CopyBin
  <2>2. TypeOK'
    <3>1. bin' \in 0 .. NumBins /\ pc' \in {"copy", "bins"}
      BY <1>1, <1>2, SizeAssumption
    <3> QED BY <1>3, <2>1, <3>1 DEF IInv, TypeOK
  <2>3. filled' = Rank(bin)'
    BY <1>1, <1>4, <1>7, <1>10, <2>1
  <2>4. \A b \in Bin : binIds'[b] = IF b < bin' /\ table'[b] # Null THEN table'[b] + 1 ELSE 0
    BY <1>1, <1>2, <1>3, <1>10, <2>1 DEF IInv, CopiedSoFar, TypeOK, Bin
  <2>5. \A b \in Occupied : b < bin' => b < bin
    BY <1>1, <1>2, <1>10 DEF Occupied, Bin
  <2>6. CopiedSoFar'
    BY <1>3, <1>4, <1>8, <2>1, <2>3, <2>4, <2>5 DEF IInv, CopiedSoFar
  <2> QED BY <1>5, <1>6, <2>2, <2>6 DEF IInv
<1> QED BY <1>9, <1>10

\* Rewriting hashInfo and moving pc on is all the loops of runAsLeader do.
LEMMA FillKeeps ==
  ASSUME IInv, pc \in {"bins", "perm"}, UNCHANGED <<address, inserting, copying>>,
         pc' \in {"perm", "done"},
         hashInfo' \in [Ele -> [binIndex : Bin \cup {Null}, tableIndex : Ele \cup {Null},
                                hashedBy : HF]]
  PROVE  IInv'
<1>1. TypeOK'
  BY DEF IInv, TypeOK, inserting, copying
<1>2. /\ UNCHANGED <<address, table, next, evicted, reported, bin, filled, perm, binIds, hashedBy>>
      /\ Occupied' = Occupied
  BY DEF inserting, copying, Occupied
<1>3. RestsAtAnAddress' /\ HeldOnce' /\ OnlyOffered'
  BY <1>2 DEF IInv, RestsAtAnAddress, HeldOnce, OnlyOffered, InTable
<1>4. Phases'
  BY <1>2 DEF IInv, Phases
<1>5. CopiedSoFar'
  BY <1>2 DEF IInv, CopiedSoFar, Rank, LowestHF
<1> QED BY <1>1, <1>3, <1>4, <1>5 DEF IInv

LEMMA FillBinIndexKeeps == IInv /\ FillBinIndex => IInv'
<1> SUFFICES ASSUME IInv, FillBinIndex PROVE IInv'
  OBVIOUS
<1> DEFINE Info == [binIndex : Bin \cup {Null}, tableIndex : Ele \cup {Null}, hashedBy : HF]
<1>1. ASSUME NEW e \in Ele, BinsOf(e) # {} PROVE Last(BinsOf(e)) \in Bin
  <2>1. BinsOf(e) \in SUBSET (0 .. NumBins - 1) /\ NumBins - 1 \in Nat
    BY SizeAssumption DEF BinsOf, Bin
  <2>2. Last(BinsOf(e)) \in BinsOf(e)
    BY <1>1, <2>1, LastExists
  <2> QED BY <2>2 DEF BinsOf
<1>2. hashInfo \in [Ele -> Info] /\ hashedBy \in [Bin -> HF]
  BY DEF IInv, TypeOK
<1>3. hashInfo' = [e \in Ele |->
        IF BinsOf(e) = {} THEN hashInfo[e]
        ELSE [hashInfo[e] EXCEPT !.binIndex = Last(BinsOf(e)),
                                 !.hashedBy = hashedBy[Last(BinsOf(e))]]]
  BY DEF FillBinIndex
<1>4. hashInfo' \in [Ele -> Info]
  BY <1>1, <1>2, <1>3
<1> QED BY <1>4, FillKeeps DEF FillBinIndex

LEMMA FillTableIndexKeeps == IInv /\ FillTableIndex => IInv'
<1> SUFFICES ASSUME IInv, FillTableIndex PROVE IInv'
  OBVIOUS
<1> DEFINE Info == [binIndex : Bin \cup {Null}, tableIndex : Ele \cup {Null}, hashedBy : HF]
           mine(e) == {k \in Ele : perm[k] = e}
<1>1. ASSUME NEW e \in Ele, mine(e) # {} PROVE Last(mine(e)) \in Ele
  <2>1. mine(e) \in SUBSET (0 .. NumEles - 1) /\ NumEles - 1 \in Nat
    BY SizeAssumption DEF Ele
  <2>2. Last(mine(e)) \in mine(e)
    <3> HIDE DEF mine
    <3> QED BY <1>1, <2>1, LastExists
  <2> QED BY <2>2
<1>2. hashInfo \in [Ele -> Info]
  BY DEF IInv, TypeOK
<1>3. hashInfo' = [e \in Ele |-> IF mine(e) = {} THEN hashInfo[e]
                                 ELSE [hashInfo[e] EXCEPT !.tableIndex = Last(mine(e))]]
  BY DEF FillTableIndex
<1>4. hashInfo' \in [Ele -> Info]
  <2> HIDE DEF mine
  <2> QED BY <1>1, <1>2, <1>3
<1> QED BY <1>4, FillKeeps DEF FillTableIndex

LEMMA StutterKeeps == IInv /\ UNCHANGED vars => IInv'
<1> SUFFICES ASSUME IInv, UNCHANGED vars PROVE IInv'
  OBVIOUS
<1>1. /\ UNCHANGED <<address, table, pos, next, evicted, iter, reported>>
      /\ UNCHANGED <<bin, filled, perm, binIds, hashedBy, hashInfo, pc>>
      /\ Occupied' = Occupied
  BY DEF vars, Occupied
<1>2. TypeOK'
  BY <1>1 DEF IInv, TypeOK
<1>3. RestsAtAnAddress' /\ HeldOnce' /\ OnlyOffered'
  BY <1>1 DEF IInv, RestsAtAnAddress, HeldOnce, OnlyOffered, InTable
<1>4. Phases'
  BY <1>1 DEF IInv, Phases
<1>5. CopiedSoFar'
  BY <1>1 DEF IInv, CopiedSoFar, Rank, LowestHF
<1> QED BY <1>2, <1>3, <1>4, <1>5 DEF IInv

\* The strengthened invariant is inductive.
THEOREM Inductive == Spec => []IInv
<1>1. Init => IInv
  BY InitIInv
<1>2. IInv /\ [Next]_vars => IInv'
  BY PlaceKeeps, EvictKeeps, GiveUpKeeps, CopyBinKeeps, FillBinIndexKeeps,
     FillTableIndexKeeps, StutterKeeps DEF Next
<1> QED BY <1>1, <1>2, PTL DEF Spec

\* Type correctness of the leader's hashing for every size and every address
\* function; it includes that perm is never written past its last entry.
THEOREM TypeCorrect == Spec => []TypeOK
<1>1. IInv => TypeOK
  BY DEF IInv
<1> QED BY <1>1, Inductive, PTL

\* Whatever the eviction chains do, an entry rests at one of its addresses.
THEOREM AtAnAddress == Spec => []RestsAtAnAddress
<1>1. IInv => RestsAtAnAddress
  BY DEF IInv
<1> QED BY <1>1, Inductive, PTL

\* Whatever the eviction chains do, no entry is held twice.
THEOREM NeverTwice == Spec => []HeldOnce
<1>1. IInv => HeldOnce
  BY DEF IInv
<1> QED BY <1>1, Inductive, PTL

-----------------------------------------------------------------------------
(***************************************************************************)
(* What the hashing leaves behind: how many elements it lost, and what     *)
(* CuckooHashInfo says of the others.                                      *)
(*                                                                         *)
(* Losses are counted with one fact about the loop of cuckoo_hashing: the  *)
(* element being inserted is in hand or already in the table, so a failed  *)
(* insertion loses exactly the entry in hand.  The information is right    *)
(* because the copy loop numbers the occupied bins without a gap, so each  *)
(* entry of perm that was written belongs to exactly one bin, and the      *)
(* entries that were not written all hold 0.                               *)
(***************************************************************************)
\* The entry in hand, the element of the outer loop and the failed elements.
Counting ==
  /\ pc # "insert" => evicted = Null
  /\ pc = "insert" => next = evicted \/ next \in InTable
  /\ \A r \in reported : r < next

LInv == IInv /\ Counting /\ NoSilentLoss

\* perm below perm_ptr was written for some bin, and still holds 0 above it.
PermFromBins ==
  \A k \in Ele : IF k < filled THEN \E b \in Occupied : b < bin /\ Rank(b) = k
                 ELSE perm[k] = 0

\* The loop over bin_ids names for each element its bin and hash function.
BinNamed ==
  /\ pc \in {"insert", "copy", "bins"} => \A e \in Ele : hashInfo[e] = NoInfo
  /\ pc \in {"perm", "done"} =>
       \A e \in Ele : IF e \in InTable
                      THEN LET info == hashInfo[e]
                           IN  /\ info.binIndex \in Bin /\ table[info.binIndex] = e
                               /\ info.hashedBy = LowestHF(info.binIndex)
                      ELSE hashInfo[e].binIndex = Null

\* The loop over perm gives each element the rank of its bin; element 0 is
\* given the last unwritten entry instead when there is one.
RankNamed ==
  pc = "done" =>
    \A e \in InTable :
      IF e # 0 \/ filled = NumEles
      THEN hashInfo[e].tableIndex = Rank(hashInfo[e].binIndex)
      ELSE hashInfo[e].tableIndex >= filled

InfoInv == LInv /\ PermFromBins /\ BinNamed /\ RankNamed

-----------------------------------------------------------------------------
(***************************************************************************)
(* Losses.                                                                 *)
(***************************************************************************)

\* The elements that are in a bin or in hand.
Held == InTable \cup {evicted}

LEMMA LostIsFinite == IsFiniteSet(Lost) /\ Cardinality(Lost) \in Nat
<1>1. Lost \subseteq Ele
  BY DEF Lost
<1> QED BY <1>1, BinsFinite, FS_Subset, FS_CardinalityType

\* Losing the entry in hand to a failed insertion counts once on each side.
LEMMA OneMoreLost ==
  ASSUME NEW S, NEW T, IsFiniteSet(S), IsFiniteSet(T), NEW s, NEW t,
         s \notin S, t \notin T, Cardinality(S) = Cardinality(T)
  PROVE  Cardinality(S \cup {s}) = Cardinality(T \cup {t})
  BY FS_AddElement

LEMMA InitCounting == Init => Counting /\ NoSilentLoss
<1> SUFFICES ASSUME Init PROVE Counting /\ NoSilentLoss
  OBVIOUS
<1>1. Counting
  BY DEF Init, Counting
<1>2. Lost = {} /\ reported = {}
  BY DEF Init, Lost, Ele
<1> QED BY <1>1, <1>2 DEF NoSilentLoss

\* A free bin takes the entry in hand: what is held stays held.
LEMMA PlaceCounts == LInv /\ Place => (Counting /\ NoSilentLoss)'
<1> SUFFICES ASSUME LInv, Place PROVE (Counting /\ NoSilentLoss)'
  OBVIOUS
<1>1. PICK j \in FreeHF : table' = [table EXCEPT ![address[evicted][j]] = evicted]
  BY DEF Place
<1> DEFINE b == address[evicted][j]
<1>2. /\ pc = "insert" /\ b \in Bin /\ table[b] = Null /\ evicted \in Ele /\ evicted # Null
      /\ next \in Nat /\ next < NumEles /\ NextElement /\ reported' = reported
  BY SizeAssumption DEF Place, FreeHF, LInv, IInv, TypeOK, Phases, Ele, Null
<1>3. InTable' = InTable \cup {evicted}
  <2> HIDE DEF b
  <2>1. table' = [table EXCEPT ![b] = evicted]
    BY <1>1 DEF b
  <2>2. Occupied' = Occupied \cup {b} /\ b \notin Occupied
    BY <2>1, <1>2 DEF LInv, IInv, TypeOK, Occupied
  <2>3. \A c \in Occupied : table'[c] = table[c]
    BY <2>1, <2>2 DEF LInv, IInv, TypeOK, Occupied
  <2>4. table'[b] = evicted
    BY <2>1, <1>2 DEF LInv, IInv, TypeOK
  <2> QED BY <2>2, <2>3, <2>4 DEF InTable
<1>4. next' = next + 1 /\ evicted' \in {next + 1, Null} /\ (pc' = "insert" => evicted' = next + 1)
      /\ (pc' # "insert" => evicted' = Null)
  BY <1>2 DEF NextElement
<1>5. Counting'
  <2>1. \A r \in reported : r \in Int /\ r < next
    BY DEF LInv, IInv, TypeOK, Counting, Ele
  <2>2. \A r \in reported' : r < next'
    BY <1>2, <1>4, <2>1
  <2> QED BY <1>4, <2>2 DEF Counting
<1>6. Lost' = Lost
  <2>1. ASSUME NEW e \in Ele PROVE e \in Lost' <=> e \in Lost
    <3>1. e \in Int /\ e # Null
      BY DEF Ele, Null
    <3>2. next \in InTable'
      BY <1>2, <1>3 DEF LInv, Counting
    <3> QED BY <1>2, <1>3, <1>4, <3>1, <3>2 DEF Lost
  <2> QED BY <2>1 DEF Lost
<1> QED BY <1>2, <1>5, <1>6 DEF LInv, NoSilentLoss

\* A swap only exchanges the roles of two entries that are held.
LEMMA EvictCounts == LInv /\ Evict => (Counting /\ NoSilentLoss)'
<1> SUFFICES ASSUME LInv, Evict PROVE (Counting /\ NoSilentLoss)'
  OBVIOUS
<1> DEFINE b == address[evicted][EvictHF]
<1>1. /\ pc = "insert" /\ pc' = "insert" /\ FreeHF = {}
      /\ table' = [table EXCEPT ![b] = evicted]
      /\ evicted' = table[b]
      /\ next' = next /\ reported' = reported
  BY DEF Evict
<1>2. EvictHF \in HF /\ evicted \in Ele /\ evicted # Null
  BY <1>1, EvictHFType DEF LInv, IInv, Phases, Ele, Null
<1>3. b \in Occupied
  BY <1>1, <1>2 DEF LInv, IInv, TypeOK, FreeHF, Occupied
<1> HIDE DEF b
<1>4. Held' = Held
  <2>1. Occupied' = Occupied
    BY <1>1, <1>2, <1>3 DEF LInv, IInv, TypeOK, Occupied
  <2>2. \A c \in Occupied : table'[c] = IF c = b THEN evicted ELSE table[c]
    BY <1>1 DEF LInv, IInv, TypeOK, Occupied
  <2> QED BY <1>1, <1>3, <2>1, <2>2 DEF Held, InTable
<1>5. Counting'
  BY <1>1, <1>4 DEF LInv, Counting, Held
<1>6. Lost' = Lost
  BY <1>1, <1>4 DEF Lost, Held
<1> QED BY <1>1, <1>5, <1>6 DEF LInv, NoSilentLoss

\* A failed insertion loses the entry in hand and names the current element.
LEMMA GiveUpCounts == LInv /\ GiveUp => (Counting /\ NoSilentLoss)'
<1> SUFFICES ASSUME LInv, GiveUp PROVE (Counting /\ NoSilentLoss)'
  OBVIOUS
<1>1. /\ pc = "insert" /\ reported' = reported \cup {next} /\ NextElement /\ table' = table
      /\ evicted \in Ele /\ next \in Nat /\ next < NumEles
  BY SizeAssumption DEF GiveUp, LInv, IInv, Phases, TypeOK
<1>2. next' = next + 1 /\ evicted' \in {next + 1, Null} /\ (pc' = "insert" => evicted' = next + 1)
      /\ (pc' # "insert" => evicted' = Null)
  BY <1>1 DEF NextElement
<1>3. InTable' = InTable
  BY <1>1 DEF InTable, Occupied
<1>4. evicted \notin InTable /\ evicted <= next
  BY <1>1 DEF LInv, IInv, HeldOnce, OnlyOffered
<1>5. \A e \in InTable : e <= next
  BY <1>1 DEF LInv, IInv, OnlyOffered, InTable
<1>6. \A r \in reported : r \in Int /\ r < next
  BY DEF LInv, IInv, TypeOK, Counting, Ele
<1>7. Counting'
  <2>1. \A r \in reported' : r < next'
    BY <1>1, <1>2, <1>6
  <2> QED BY <1>2, <2>1 DEF Counting
<1>8. Lost' = Lost \cup {evicted} /\ evicted \notin Lost
  <2>1. ASSUME NEW e \in Ele PROVE e \in Lost' <=> e \in Lost \/ e = evicted
    <3>1. e \in Int /\ e # Null
      BY DEF Ele, Null
    <3>2. CASE e = evicted
      BY <1>1, <1>2, <1>3, <1>4, <3>1, <3>2 DEF Lost, Ele
    <3>3. CASE e # evicted /\ e = next
      BY <1>1, <1>2, <1>3, <3>3 DEF Lost, LInv, Counting
    <3>4. CASE e # evicted /\ e # next
      BY <1>1, <1>2, <1>3, <3>1, <3>4 DEF Lost
    <3> QED BY <3>2, <3>3, <3>4
  <2> QED BY <1>1, <2>1 DEF Lost
<1>9. IsFiniteSet(reported)
  BY BinsFinite, FS_Subset DEF LInv, IInv, TypeOK
<1>10. next \notin reported
  BY <1>1, <1>6
<1>11. Cardinality(Lost \cup {evicted}) = Cardinality(reported \cup {next})
  BY <1>8, <1>9, <1>10, LostIsFinite, OneMoreLost DEF LInv, NoSilentLoss
<1> QED BY <1>1, <1>7, <1>8, <1>11 DEF NoSilentLoss

\* After the insertions nothing more is lost, found or reported.
LEMMA InsertedCounts ==
  ASSUME LInv, (pc # "insert" /\ pc' # "insert") \/ pc' = pc, UNCHANGED inserting
  PROVE  (Counting /\ NoSilentLoss)'
<1>1. /\ UNCHANGED <<table, next, evicted, reported>>
      /\ InTable' = InTable
  BY DEF inserting, InTable, Occupied
<1> QED BY <1>1 DEF LInv, Counting, NoSilentLoss, Lost

LEMMA InductiveLoss == LInv /\ [Next]_vars => LInv'
<1> SUFFICES ASSUME LInv, [Next]_vars PROVE LInv'
  OBVIOUS
<1>1. IInv'
  BY PlaceKeeps, EvictKeeps, GiveUpKeeps, CopyBinKeeps, FillBinIndexKeeps,
     FillTableIndexKeeps, StutterKeeps DEF Next, LInv
<1>2. CASE Place
  BY <1>1, <1>2, PlaceCounts DEF LInv
<1>3. CASE Evict
  BY <1>1, <1>3, EvictCounts DEF LInv
<1>4. CASE GiveUp
  BY <1>1, <1>4, GiveUpCounts DEF LInv
<1>5. CASE CopyBin \/ FillBinIndex \/ FillTableIndex \/ UNCHANGED vars
  <2>1. UNCHANGED inserting /\ ((pc # "insert" /\ pc' # "insert") \/ pc' = pc)
    BY <1>5 DEF CopyBin, FillBinIndex, FillTableIndex, vars, inserting
  <2> QED BY <1>1, <2>1, InsertedCounts DEF LInv
<1> QED BY <1>2, <1>3, <1>4, <1>5 DEF Next

\* Evictions lose nothing on their own, for every size and every address
\* function: an element disappears exactly when a failed insertion is reported.
THEOREM LossesAreReported == Spec => []NoSilentLoss
<1>1. Init => LInv
  BY InitIInv, InitCounting DEF LInv
<1>2. LInv => NoSilentLoss
  BY DEF LInv
<1> QED BY <1>1, <1>2, InductiveLoss, PTL DEF Spec

-----------------------------------------------------------------------------
(***************************************************************************)
(* What CuckooHashInfo says.                                               *)
(***************************************************************************)

LEMMA NothingFilled == ASSUME IInv, pc = "insert" PROVE filled = 0
<1>1. bin = 0 /\ {c \in Occupied : c < 0} = {}
  BY DEF IInv, Phases, Occupied, Bin
<1> QED BY <1>1, FS_EmptySet DEF IInv, CopiedSoFar, Rank

\* The ranks of the occupied bins are indices of perm.
LEMMA RankIsAnIndex == ASSUME IInv, NEW b \in Occupied PROVE Rank(b) \in Ele
<1>1. b \in Bin /\ b \in Int /\ table[b] # Null
  BY DEF Occupied, Bin
<1>2. Rank(b) \in Nat /\ Rank(b + 1) = Rank(b) + 1
  BY <1>1, RankStep
<1>3. Rank(b + 1) \in 0 .. NumEles
  BY <1>1, RankBound DEF IInv
<1> QED BY <1>2, <1>3, SizeAssumption DEF Ele

LEMMA InitInfo == Init => PermFromBins /\ BinNamed /\ RankNamed
  BY DEF Init, PermFromBins, BinNamed, RankNamed, Ele

\* While elements are inserted there is no information and perm is all 0.
LEMMA InsertKeepsInfo ==
  ASSUME InfoInv, Place \/ Evict \/ GiveUp
  PROVE  (PermFromBins /\ BinNamed /\ RankNamed)'
<1>1. pc = "insert" /\ pc' \in {"insert", "copy"} /\ UNCHANGED <<copying, hashInfo>>
  BY DEF Place, Evict, GiveUp, NextElement
<1>2. filled = 0
  BY <1>1, NothingFilled DEF InfoInv, LInv
<1>3. \A k \in Ele : perm[k] = 0 /\ ~(k < 0)
  BY <1>2 DEF InfoInv, PermFromBins, Ele
<1>4. PermFromBins'
  BY <1>1, <1>2, <1>3 DEF PermFromBins, copying
<1>5. BinNamed' /\ RankNamed'
  BY <1>1 DEF InfoInv, BinNamed, RankNamed
<1> QED BY <1>4, <1>5

\* A copied bin takes the next entry of perm.
LEMMA CopyBinKeepsInfo ==
  ASSUME InfoInv, CopyBin
  PROVE  (PermFromBins /\ BinNamed /\ RankNamed)'
<1>1. /\ pc = "copy" /\ bin < NumBins /\ bin' = bin + 1 /\ pc' \in {"copy", "bins"}
      /\ UNCHANGED <<address, table, hashInfo>>
  BY DEF CopyBin, inserting
<1>2. /\ bin \in Bin /\ bin \in Nat /\ filled = Rank(bin) /\ filled \in Nat
      /\ perm \in [Ele -> Ele] /\ \A b \in Occupied : b \in Int
  BY <1>1, SizeAssumption DEF InfoInv, LInv, IInv, TypeOK, CopiedSoFar, Bin, Occupied
<1>3. Occupied' = Occupied /\ \A b : Rank(b)' = Rank(b)
  BY <1>1 DEF Occupied, Rank
<1>4. BinNamed' /\ RankNamed'
  BY <1>1 DEF InfoInv, BinNamed, RankNamed
<1>5. ASSUME NEW k \in Ele
      PROVE  IF k < filled' THEN \E b \in Occupied : b < bin' /\ Rank(b) = k
             ELSE perm'[k] = 0
  <2>1. k \in Int
    BY DEF Ele
  <2>2. CASE k < filled
    <3>1. \E b \in Occupied : b < bin' /\ Rank(b) = k
      BY <1>1, <1>2, <2>2 DEF InfoInv, PermFromBins
    <3>2. k < filled'
      BY <1>2, <2>1, <2>2 DEF CopyBin
    <3> QED BY <3>1, <3>2
  <2>3. CASE ~(k < filled) /\ table[bin] = Null
    BY <2>3 DEF CopyBin, InfoInv, PermFromBins
  <2>4. CASE ~(k < filled) /\ table[bin] # Null
    <3>1. filled' = filled + 1 /\ perm' = [perm EXCEPT ![filled] = table[bin]]
      BY <2>4 DEF CopyBin
    <3>2. perm[k] = 0
      BY <2>4 DEF InfoInv, PermFromBins
    <3>3. k = filled => \E b \in Occupied : b < bin' /\ Rank(b) = k
      BY <1>1, <1>2, <2>4 DEF Occupied
    <3>4. k # filled => perm'[k] = 0 /\ ~(k < filled')
      BY <1>2, <2>1, <2>4, <3>1, <3>2
    <3>5. k = filled => k < filled'
      BY <1>2, <2>1, <3>1
    <3> QED BY <3>3, <3>4, <3>5
  <2> QED BY <2>2, <2>3, <2>4
<1>6. PermFromBins'
  BY <1>3, <1>5 DEF PermFromBins
<1> QED BY <1>4, <1>6

\* bin_ids has one bin for each element of the table and none for the others.
LEMMA BinsOfElement ==
  ASSUME IInv, bin = NumBins, NEW e \in Ele
  PROVE  /\ e \notin InTable => BinsOf(e) = {}
         /\ e \in InTable => /\ BinsOf(e) # {}
                             /\ Last(BinsOf(e)) \in Occupied
                             /\ table[Last(BinsOf(e))] = e
                             /\ hashedBy[Last(BinsOf(e))] = LowestHF(Last(BinsOf(e)))
<1>1. \A b \in Bin : b < NumBins /\ b \in Int
  BY SizeAssumption DEF Bin
<1>2. \A b \in Bin : binIds[b] = e + 1 <=> b \in Occupied /\ table[b] = e
  <2> TAKE b \in Bin
  <2>1. binIds[b] = IF table[b] # Null THEN table[b] + 1 ELSE 0
    BY <1>1 DEF IInv, CopiedSoFar
  <2>2. table[b] \in Int /\ e \in Int /\ e + 1 # 0
    BY DEF IInv, TypeOK, Ele, Null
  <2> QED BY <2>1, <2>2 DEF Occupied
<1>3. BinsOf(e) = {b \in Occupied : table[b] = e}
  BY <1>2 DEF BinsOf, Occupied
<1>4. BinsOf(e) \in SUBSET (0 .. NumBins - 1) /\ NumBins - 1 \in Nat
  BY SizeAssumption DEF BinsOf, Bin
<1>5. BinsOf(e) # {} => Last(BinsOf(e)) \in BinsOf(e)
  BY <1>4, LastExists
<1>6. \A b \in Occupied : hashedBy[b] = LowestHF(b)
  BY <1>1 DEF IInv, CopiedSoFar, Occupied
<1> HIDE DEF Last
<1> QED BY <1>3, <1>5, <1>6 DEF InTable

\* The loop over bin_ids leaves each element of the table with its bin.
LEMMA FillBinIndexNames ==
  ASSUME InfoInv, FillBinIndex
  PROVE  (PermFromBins /\ BinNamed /\ RankNamed)'
<1>1. /\ pc = "bins" /\ pc' = "perm" /\ UNCHANGED <<address, inserting, copying>>
      /\ hashInfo' = [e \in Ele |->
           IF BinsOf(e) = {} THEN hashInfo[e]
           ELSE [hashInfo[e] EXCEPT !.binIndex = Last(BinsOf(e)),
                                    !.hashedBy = hashedBy[Last(BinsOf(e))]]]
  BY DEF FillBinIndex
<1>2. /\ UNCHANGED <<address, table, bin, filled, perm>>
      /\ Occupied' = Occupied /\ InTable' = InTable
      /\ \A b : Rank(b)' = Rank(b) /\ LowestHF(b)' = LowestHF(b)
  BY <1>1 DEF inserting, copying, Occupied, InTable, Rank, LowestHF
<1>3. PermFromBins' /\ RankNamed'
  BY <1>1, <1>2 DEF InfoInv, PermFromBins, RankNamed
<1>4. bin = NumBins /\ IInv
  BY <1>1 DEF InfoInv, LInv, IInv, Phases
<1>5. ASSUME NEW e \in Ele
      PROVE  IF e \in InTable
             THEN LET info == hashInfo'[e]
                  IN  /\ info.binIndex \in Bin /\ table[info.binIndex] = e
                      /\ info.hashedBy = LowestHF(info.binIndex)
             ELSE hashInfo'[e].binIndex = Null
  <2>1. hashInfo[e] = NoInfo
    BY <1>1 DEF InfoInv, BinNamed
  <2>2. CASE e \in InTable
    <3>1. /\ hashInfo'[e].binIndex = Last(BinsOf(e))
          /\ hashInfo'[e].hashedBy = hashedBy[Last(BinsOf(e))]
      BY <1>1, <1>4, <2>1, <2>2, BinsOfElement DEF NoInfo
    <3>2. /\ Last(BinsOf(e)) \in Bin
          /\ table[Last(BinsOf(e))] = e
          /\ hashedBy[Last(BinsOf(e))] = LowestHF(Last(BinsOf(e)))
      BY <1>4, <2>2, BinsOfElement DEF Occupied
    <3> QED BY <2>2, <3>1, <3>2
  <2>3. CASE e \notin InTable
    <3>1. BinsOf(e) = {}
      BY <1>4, <2>3, BinsOfElement
    <3>2. hashInfo'[e] = NoInfo
      BY <1>1, <2>1, <3>1
    <3> QED BY <2>3, <3>2 DEF NoInfo
  <2> QED BY <2>2, <2>3
<1>6. BinNamed'
  BY <1>1, <1>2, <1>5 DEF BinNamed
<1> QED BY <1>3, <1>6

\* perm holds an element at the rank of its bin only, unless the element is 0
\* and perm was not filled.
LEMMA OneIndex ==
  ASSUME InfoInv, bin = NumBins, NEW b \in Occupied,
         table[b] # 0 \/ filled = NumEles
  PROVE  {k \in Ele : perm[k] = table[b]} = {Rank(b)}
<1>1. \A c \in Occupied : c < bin /\ perm[Rank(c)] = table[c]
  BY SizeAssumption DEF InfoInv, LInv, IInv, CopiedSoFar, Occupied, Bin
<1>2. Rank(b) \in Ele /\ perm[Rank(b)] = table[b]
  BY <1>1, RankIsAnIndex DEF InfoInv, LInv
<1>3. ASSUME NEW k \in Ele, perm[k] = table[b] PROVE k = Rank(b)
  <2>1. k < filled
    <3>1. ~(k < filled) => perm[k] = 0
      BY DEF InfoInv, PermFromBins
    <3>2. k < NumEles
      BY SizeAssumption DEF Ele
    <3> QED BY <1>3, <3>1, <3>2
  <2>2. PICK c \in Occupied : Rank(c) = k
    BY <2>1 DEF InfoInv, PermFromBins
  <2>3. table[c] = table[b]
    BY <1>1, <1>3, <2>2
  <2> QED BY <2>2, <2>3 DEF InfoInv, LInv, IInv, HeldOnce
<1> QED BY <1>2, <1>3

\* No two bins have the same rank, and all ranks are below perm_ptr.
LEMMA RanksOfBins ==
  ASSUME InfoInv, bin = NumBins, NEW b \in Occupied
  PROVE  Rank(b) < filled /\ \A c \in Occupied : Rank(b) = Rank(c) => b = c
<1>1. \A c \in Occupied : c < bin /\ perm[Rank(c)] = table[c] /\ c \in Bin /\ c \in Int
  BY SizeAssumption DEF InfoInv, LInv, IInv, CopiedSoFar, Occupied, Bin
<1>2. \A c \in Occupied : Rank(b) = Rank(c) => b = c
  BY <1>1 DEF InfoInv, LInv, IInv, HeldOnce
<1>3. Rank(b) \in Nat /\ Rank(b + 1) = Rank(b) + 1
  BY <1>1, RankStep DEF Occupied
<1> DEFINE S == {c \in Occupied : c < b + 1}
           T == {c \in Occupied : c < bin}
<1>4. S \subseteq T /\ T \subseteq Bin
  BY <1>1
<1>5. Cardinality(S) <= Cardinality(T) /\ Cardinality(T) \in Nat /\ Cardinality(S) \in Nat
  <2> HIDE DEF S, T
  <2> QED BY <1>4, BinsFinite, FS_Subset, FS_CardinalityType
<1>6. filled = Cardinality(T) /\ Rank(b + 1) = Cardinality(S)
  BY DEF InfoInv, LInv, IInv, CopiedSoFar, Rank
<1> HIDE DEF S, T
<1>7. Rank(b) < filled
  BY <1>3, <1>5, <1>6
<1> QED BY <1>2, <1>7

\* The loop over perm gives the elements of the table the rank of their bin.
LEMMA FillTableIndexNames ==
  ASSUME InfoInv, FillTableIndex
  PROVE  (PermFromBins /\ BinNamed /\ RankNamed)'
<1> DEFINE mine(e) == {k \in Ele : perm[k] = e}
<1>1. /\ pc = "perm" /\ pc' = "done" /\ UNCHANGED <<address, inserting, copying>>
      /\ hashInfo' = [e \in Ele |-> IF mine(e) = {} THEN hashInfo[e]
                                    ELSE [hashInfo[e] EXCEPT !.tableIndex = Last(mine(e))]]
  BY DEF FillTableIndex
<1>2. /\ UNCHANGED <<address, table, bin, filled, perm>>
      /\ Occupied' = Occupied /\ InTable' = InTable
      /\ \A b : Rank(b)' = Rank(b) /\ LowestHF(b)' = LowestHF(b)
  BY <1>1 DEF inserting, copying, Occupied, InTable, Rank, LowestHF
<1>3. PermFromBins'
  BY <1>2 DEF InfoInv, PermFromBins
<1>4. bin = NumBins
  BY <1>1 DEF InfoInv, LInv, IInv, Phases
<1>5. ASSUME NEW e \in Ele
      PROVE  /\ hashInfo'[e].binIndex = hashInfo[e].binIndex
             /\ hashInfo'[e].hashedBy = hashInfo[e].hashedBy
             /\ mine(e) # {} => hashInfo'[e].tableIndex = Last(mine(e))
  <2>1. hashInfo[e] \in [binIndex : Bin \cup {Null}, tableIndex : Ele \cup {Null},
                         hashedBy : HF]
    BY DEF InfoInv, LInv, IInv, TypeOK
  <2> HIDE DEF mine
  <2> QED BY <1>1, <2>1
<1>6. BinNamed'
  BY <1>1, <1>2, <1>5 DEF InfoInv, BinNamed
<1>7. ASSUME NEW e \in InTable, e # 0 \/ filled = NumEles
      PROVE  hashInfo'[e].tableIndex = Rank(hashInfo'[e].binIndex)
  <2>1. e \in Ele
    BY DEF InTable, Occupied, InfoInv, LInv, IInv, TypeOK
  <2> DEFINE b == hashInfo[e].binIndex
  <2>2. b \in Occupied /\ table[b] = e
    BY <1>1, <2>1 DEF InfoInv, BinNamed, Occupied, Ele, Null
  <2>3. mine(e) = {Rank(b)}
    <3> HIDE DEF b
    <3> QED BY <1>4, <1>7, <2>2, OneIndex
  <2>4. Last({Rank(b)}) = Rank(b)
    BY DEF Last
  <2>5. hashInfo'[e].tableIndex = Last(mine(e)) /\ hashInfo'[e].binIndex = b
    BY <1>5, <2>1, <2>3
  <2> QED BY <2>3, <2>4, <2>5
<1>8. ASSUME 0 \in InTable, filled # NumEles
      PROVE  hashInfo'[0].tableIndex >= filled
  <2>1. filled \in 0 .. NumEles /\ NumEles \in Nat \ {0} /\ perm \in [Ele -> Ele]
    BY SizeAssumption DEF InfoInv, LInv, IInv, TypeOK
  <2>2. NumEles - 1 \in Ele /\ 0 \in Ele /\ filled <= NumEles - 1
    BY <1>8, <2>1 DEF Ele
  <2>3. perm[NumEles - 1] = 0
    BY <2>1, <2>2 DEF InfoInv, PermFromBins
  <2>4. NumEles - 1 \in mine(0) /\ mine(0) \in SUBSET (0 .. NumEles - 1) /\ NumEles - 1 \in Nat
    BY <2>1, <2>2, <2>3 DEF Ele
  <2> HIDE DEF mine
  <2>5. Last(mine(0)) \in 0 .. NumEles - 1 /\ NumEles - 1 <= Last(mine(0))
    BY <2>4, LastExists
  <2>6. hashInfo'[0].tableIndex = Last(mine(0))
    BY <1>5, <2>2, <2>4
  <2> QED BY <2>1, <2>2, <2>5, <2>6
<1>9. RankNamed'
  <2>1. ASSUME NEW e \in InTable
        PROVE  IF e # 0 \/ filled = NumEles
               THEN hashInfo'[e].tableIndex = Rank(hashInfo'[e].binIndex)
               ELSE hashInfo'[e].tableIndex >= filled
    BY <1>7, <1>8
  <2> QED BY <1>2, <2>1 DEF RankNamed
<1> QED BY <1>3, <1>6, <1>9

LEMMA InductiveInfo == InfoInv /\ [Next]_vars => InfoInv'
<1> SUFFICES ASSUME InfoInv, [Next]_vars PROVE InfoInv'
  OBVIOUS
<1>1. LInv'
  BY InductiveLoss DEF InfoInv
<1>2. CASE Place \/ Evict \/ GiveUp
  BY <1>1, <1>2, InsertKeepsInfo DEF InfoInv
<1>3. CASE CopyBin
  BY <1>1, <1>3, CopyBinKeepsInfo DEF InfoInv
<1>4. CASE FillBinIndex
  BY <1>1, <1>4, FillBinIndexNames DEF InfoInv
<1>5. CASE FillTableIndex
  BY <1>1, <1>5, FillTableIndexNames DEF InfoInv
<1>6. CASE UNCHANGED vars
  <2>1. UNCHANGED <<address, table, bin, filled, perm, hashInfo, pc>>
    BY <1>6 DEF vars
  <2>2. Occupied' = Occupied /\ InTable' = InTable
        /\ \A b : Rank(b)' = Rank(b) /\ LowestHF(b)' = LowestHF(b)
    BY <2>1 DEF Occupied, InTable, Rank, LowestHF
  <2> QED BY <1>1, <2>1, <2>2 DEF InfoInv, PermFromBins, BinNamed, RankNamed
<1> QED BY <1>2, <1>3, <1>4, <1>5, <1>6 DEF Next

LEMMA InitInfoInv == Init => InfoInv
BY InitIInv, InitCounting, InitInfo DEF InfoInv, LInv

LEMMA AlwaysInfoInv == Spec => []InfoInv
BY InitInfoInv, InductiveInfo, PTL DEF Spec

LEMMA InfoMeansLive == InfoInv => HashedByIsNotDummy
<1>1. ASSUME InfoInv, pc \in {"perm", "done"}, NEW e \in Ele, hashInfo[e].binIndex # Null
      PROVE  LET info == hashInfo[e]
             IN  /\ address[e][info.hashedBy] = info.binIndex
                 /\ \A k \in HF : k < info.hashedBy => address[e][k] # info.binIndex
  <2> DEFINE b == hashInfo[e].binIndex
  <2>1. b \in Bin /\ table[b] = e /\ hashInfo[e].hashedBy = LowestHF(b) /\ e # Null
    BY <1>1 DEF InfoInv, BinNamed, Ele, Null
  <2>2. b \in Occupied /\ RestsAtAnAddress
    BY <1>1, <2>1 DEF Occupied, InfoInv, LInv, IInv
  <2> QED BY <2>1, <2>2, LowestHFProp
<1> QED BY <1>1 DEF HashedByIsNotDummy

\* The hash function the leader names for an element is the one whose entry
\* the follower's simple hashing keeps, for every size and address function.
THEOREM NamesALiveEntry == Spec => []HashedByIsNotDummy
BY InfoMeansLive, AlwaysInfoInv, PTL

\* A failed insertion leaves the entry of every element but 0 correct, or
\* marked as one the check threads skip.
THEOREM OnlyElementZeroSuffers == Spec => []FailureIsContained
<1>1. ASSUME InfoInv, pc = "done", NEW e \in Ele \ {0} PROVE InfoMatchesTable(e)
  BY <1>1 DEF InfoInv, BinNamed, RankNamed, InfoMatchesTable
<1>2. InfoInv => FailureIsContained
  BY <1>1 DEF FailureIsContained
<1> QED BY <1>2, AlwaysInfoInv, PTL

\* If every element is in the table, perm is full.
LEMMA FullTable ==
  ASSUME InfoInv, pc = "done", \A e \in Ele : e \in InTable
  PROVE  filled = NumEles
<1> DEFINE f == [e \in Ele |-> hashInfo[e].binIndex]
           S == {c \in Occupied : c < bin}
<1>1. \A e \in Ele : hashInfo[e].binIndex \in Bin /\ table[hashInfo[e].binIndex] = e
  BY DEF InfoInv, BinNamed
<1>2. bin = NumBins /\ \A b \in Bin : b < NumBins
  BY SizeAssumption DEF InfoInv, LInv, IInv, Phases, Bin
<1>3. \A e \in Ele : hashInfo[e].binIndex \in S
  BY <1>1, <1>2 DEF Occupied, Ele, Null
<1>4. f \in Injection(Ele, S)
  BY <1>1, <1>3 DEF Injection, IsInjective
<1>5. IsFiniteSet(S)
  BY BinsFinite, FS_Subset, S \subseteq Bin DEF Occupied
<1>6. NumEles <= Cardinality(S)
  <2> HIDE DEF f, S
  <2> QED BY <1>4, <1>5, BinsFinite, FS_Injection
<1>7. filled = Cardinality(S) /\ filled \in 0 .. NumEles
  BY DEF InfoInv, LInv, IInv, TypeOK, CopiedSoFar, Rank
<1> QED BY <1>6, <1>7, SizeAssumption

LEMMA InfoMeansComplete == InfoInv => CompleteInfo
<1>1. ASSUME InfoInv, pc = "done", reported = {}
      PROVE  \A e \in Ele : e \in InTable /\ InfoMatchesTable(e)
  <2>1. Cardinality(Lost) = 0
    BY <1>1, FS_EmptySet DEF InfoInv, LInv, NoSilentLoss
  <2>2. Lost = {}
    BY <2>1, LostIsFinite, FS_EmptySet
  <2>3. next = NumEles /\ evicted = Null
    BY <1>1 DEF InfoInv, LInv, IInv, Phases, Counting
  <2>4. \A e \in Ele : e \in InTable
    BY <2>2, <2>3, SizeAssumption DEF Lost, Ele, Null
  <2>5. filled = NumEles
    BY <1>1, <2>4, FullTable
  <2> QED BY <1>1, <2>4, <2>5 DEF InfoInv, BinNamed, RankNamed, InfoMatchesTable
<1> QED BY <1>1 DEF CompleteInfo

\* When no insertion failed, CuckooHashInfo is right for every element.
THEOREM InfoIsComplete == Spec => []CompleteInfo
BY InfoMeansComplete, AlwaysInfoInv, PTL
=============================================================================
