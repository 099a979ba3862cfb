---------------------------- MODULE Algorithms ----------------------------
(***************************************************************************)
(* What the protocol computes by algorithms of its own, each next to what  *)
(* it is to compute: the bin and the value of an element (HashElement),    *)
(* the answers of a garbled Bloom filter, the encoding of BLOOM_FILTER     *)
(* (GarbledFilter), the solution of a linear system, with which            *)
(* GAUSS_SIMPLE_HASH and NAIVE_METHOD_LARGE_N look for an element          *)
(* (Elimination), and the numbers of KISSNER_MPSI's threshold decryption   *)
(* (Threshold).  They do not meet: one of them runs.                       *)
(***************************************************************************)
EXTENDS Integers, FiniteSets

CONSTANTS HfValue(_, _), None,
          Inputs,   (* what hashElement is called with: [hs, eleptr, behind]  *)
          NumElements, NumHashes, NumSlots, Digests,
          Systems,  (* the linear systems isZeroXOR may be called with     *)
          IntBits,
          Counts    (* the numbers of parties of KISSNER_MPSI              *)

VARIABLES algorithm   (* "hash", "filter", "elimination" or "threshold"    *)

VARIABLES hs, eleptr, behind, hashed
hashVars == <<hs, eleptr, behind, hashed>>
HE == INSTANCE HashElement

VARIABLES digest, element, hash, indHis, emptySlot, finalShare, data, bf, lost, building
filterVars == <<digest, element, hash, indHis, emptySlot, finalShare, data, bf, lost, building>>
GF == INSTANCE GarbledFilter

VARIABLES system, A, b, nextRow, col, lastRow, sol, stage
elimVars == <<system, A, b, nextRow, col, lastRow, sol, stage>>
EL == INSTANCE Elimination

VARIABLES numOfParties, delta, lagrangeBasis
keyVars == <<numOfParties, delta, lagrangeBasis>>
TH == INSTANCE Threshold

ASSUME HashInputs ==
  \A i \in Inputs : /\ HE!ValidSetup(i.hs)
                    /\ i.eleptr \in [HE!Side -> SUBSET (0 .. i.hs.inbitlen - 1)]
                    /\ i.behind \in [HE!Side -> SUBSET Nat]
ASSUME HashWords ==
  \A i \in HE!HF : \A x \in SUBSET (0 .. 2 * HE!ByteBits - 1) :
    HfValue(i, x) \in SUBSET (0 .. HE!WordBits - 1)
ASSUME FilterSizes == /\ NumElements \in Nat \ {0} /\ NumHashes \in Nat \ {0}
                      /\ NumSlots = GF!SlotsFor(NumElements, NumHashes)
                      /\ Digests \subseteq [GF!Element -> [GF!Hash -> GF!Slot]]
ASSUME SystemSizes ==
  \A s \in Systems : /\ s.rows \in Nat \ {0} /\ s.cols \in Nat \ {0} /\ s.block \in Nat \ {0}
                     /\ s.cols % s.block = 0
                     /\ s.A \in [0 .. s.rows - 1 -> SUBSET (0 .. s.cols - 1)]
                     /\ s.b \subseteq 0 .. s.rows - 1

\* Beyond, delta has lost its upper bits, and the casts their meaning before.
ASSUME KeySizes ==
  \A n \in Counts : n \in Nat \ {0} /\ \A i \in 1 .. n : TH!Factorial(i) = i * TH!Factorial(i - 1)

vars == <<algorithm, hashVars, filterVars, elimVars, keyVars>>

\* What the algorithms that do not run start with.
NoInput  == HE!Start([setsize |-> 1, inbitlen |-> HE!WordBits],
                     [s \in HE!Side |-> {}], [s \in HE!Side |-> {}])
NoFilter == GF!Start([e \in GF!Element |-> [i \in GF!Hash |-> 0]])
NoSystem == EL!Start([rows |-> 1, cols |-> 1, block |-> 1, A |-> [r \in {0} |-> {}], b |-> {}])
NoKey    == TH!Start(1)

Init ==
  \/ /\ algorithm = "hash"
     /\ \E i \in Inputs : HE!Start(i.hs, i.eleptr, i.behind)
     /\ NoFilter /\ NoSystem /\ NoKey
  \/ /\ algorithm = "filter"
     /\ \E d \in Digests : GF!Start(d)
     /\ NoInput /\ NoSystem /\ NoKey
  \/ /\ algorithm = "elimination"
     /\ \E s \in Systems : EL!Start(s)
     /\ NoInput /\ NoFilter /\ NoKey
  \/ /\ algorithm = "threshold"
     /\ \E n \in Counts : TH!Start(n)
     /\ NoInput /\ NoFilter /\ NoSystem

Hash   == algorithm = "hash" /\ HE!Step /\ UNCHANGED <<algorithm, filterVars, elimVars, keyVars>>
Filter == algorithm = "filter" /\ GF!Step /\ UNCHANGED <<algorithm, hashVars, elimVars, keyVars>>
Solve  == algorithm = "elimination" /\ EL!Step
          /\ UNCHANGED <<algorithm, hashVars, filterVars, keyVars>>
Key    == algorithm = "threshold" /\ TH!Step
          /\ UNCHANGED <<algorithm, hashVars, filterVars, elimVars>>

Next == Hash \/ Filter \/ Solve \/ Key

Spec == Init /\ [][Next]_vars

-----------------------------------------------------------------------------
(***************************************************************************)
(* Properties.                                                             *)
(***************************************************************************)

\* The leader and a follower put the same element in the same bins under the
\* same value (hashing_util.h:139-214), whatever lies behind it in the memory of
\* each: without that no mask of a common element would ever match.  It fails
\* for short elements and for some numbers of bins, see ReadsBehind.
SameWhereverItLies ==
  HE!Done /\ eleptr["leader"] = eleptr["follower"] /\ ~HE!ReadsBehind
    => hashed["leader"] = hashed["follower"]

\* Two elements that one hash function puts in one bin under one value, which
\* the OPRG cannot tell apart, differ in forgotten bits only: bin and value
\* together hold all the others.
ApartUnlessForgotten ==
  HE!Done /\ ~HE!ReadsBehind /\ (\E i \in HE!HF : HE!SameIn(i))
    => (eleptr["leader"] \ eleptr["follower"]) \cup (eleptr["follower"] \ eleptr["leader"])
         \subseteq HE!Forgotten

\* What is hashed by "a permutation" (hashing_util.h:132): a bin and a value
\* belong to one element, and the element to them.
HashedByPermutation ==
  HE!Done => \A i \in HE!HF : HE!SameIn(i) <=> eleptr["leader"] = eleptr["follower"]

\* Every element that was put into the filter is answered with its own mask
\* (GBFLeader.cpp:31), from then on, whatever later elements and the process's
\* memory did with slots they share with it.  It finds no empty slot, and no
\* answer, only if those before it have been to all of its slots.
FilterAnswers ==
  \A e \in 0 .. element - 1 :
    \/ GF!Query(e) = {GF!Mask(e)}
    \/ e \in lost /\ GF!Slots(e) \subseteq UNION {GF!Slots(d) : d \in 0 .. e - 1}

Independent == \A x \in (SUBSET EL!Col) \ {{}} : EL!Times(system.A, x) # {}

\* What NaiveLeader's search (NaiveLeader.cpp:41-55) would answer: the masks of
\* some choice of one column per party add up to b.
SearchFinds ==
  \E x \in SUBSET EL!Col :
    /\ \A p \in 0 .. (system.cols \div system.block) - 1 :
         Cardinality(x \cap (p * system.block .. (p + 1) * system.block - 1)) = 1
    /\ EL!Times(system.A, x) = system.b

\* The inverse leaders answer what the search they replace would, whenever the
\* masks are linearly independent.
AgreesWithSearch ==
  stage \in {"solved", "thrown"} /\ Independent => (EL!MatchFound <=> SearchFinds)

\* As long as every Lagrange number fits an int, the random coefficients of the
\* shares cancel in decrypt (PaillierParty.cpp:159-167), and the plaintext comes
\* out times a factor that is not zero.  It is 1 if 4*m_delta*m_delta does not
\* wrap around; otherwise what is decrypted is wrong, but 0 is still 0, and
\* KissnerParty.cpp:38 asks for no more.
ZeroStaysZero ==
  algorithm = "threshold" /\ TH!Initialised /\ TH!Fits =>
    /\ \A k \in 1 .. numOfParties - 1 : TH!Weight(k) = 0
    /\ TH!Weight(0) # 0 /\ TH!Scale # 0
    /\ TH!Scale # TH!Weight(0) => 4 * delta * delta >= TH!Word
=============================================================================
