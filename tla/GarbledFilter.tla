--------------------------- MODULE GarbledFilter ---------------------------
(***************************************************************************)
(* The garbled Bloom filter of BLOOM_FILTER: GBFFollower::buildGBFInThread *)
(* with GBF_add, and what GBFLeader::GBF_query finds in the filter.  Each  *)
(* of the three hash functions has a filter and a thread of its own, which *)
(* share nothing that is written: this is one of them.                     *)
(*                                                                         *)
(* A byte string is the set of the independent strings it is the XOR of:   *)
(* the random bytes a slot starts with, and the masks of the elements.     *)
(***************************************************************************)
EXTENDS Integers, FiniteSets

CONSTANTS NumElements,  (* m_numOfElements                                 *)
          NumHashes,    (* k: the security parameter                       *)
          NumSlots,     (* m                                               *)
          Digests       (* the digests RangeHash_Digest may compute        *)

Element == 0 .. NumElements - 1
Hash    == 0 .. NumHashes - 1
Slot    == 0 .. NumSlots - 1
NoSlot    == -1

VARIABLES
  digest,      (* digest[e][i]: the slot hashes[i] gives element e         *)
  element,     (* j of buildGBFInThread                                    *)
  hash,        (* i of GBF_add                                             *)
  indHis,      (* filter->indexes, never cleared                           *)
  emptySlot,   (* the first empty slot of the element                      *)
  finalShare,  (* what is to go there                                      *)
  data,        (* filter->data                                             *)
  bf,          (* the slots that are in use                                *)
  lost,        (* elements without an empty slot                           *)
  building     (* FALSE once the thread, or the process, has ended         *)

Random(s) == <<"random", s>>
Mask(e) == <<"mask", e>>

Add(x, y) == (x \ y) \cup (y \ x)

\* BF_GenerateParameters: n * k * log2(e), as a multiple of eight.
SlotsFor(n, k) == (((n * k * 1442696 + 999999) \div 1000000 + 7) \div 8) * 8

Start(d) ==
  /\ digest = d
  /\ element = 0 /\ hash = 0
  /\ indHis = [i \in Hash |-> 0]
  /\ emptySlot = NoSlot
  /\ finalShare = {Mask(0)}
  /\ data = [s \in Slot |-> {Random(s)}]
  /\ bf = {}
  /\ lost = {}
  /\ building = TRUE

\* Variant: indexes left from the element before count as well.
Exists_Stale(index) == \E i \in Hash : indHis[i] = index
\* exists(): the element has been to this slot already.
Exists(index) == \E i \in 0 .. hash - 1 : indHis[i] = index

\* Variant: the slot of a random share stays free.
Digest_NotTaken ==
  /\ building /\ hash < NumHashes
  /\ LET index == digest[element][hash]
         first == ~Exists(index) /\ index \notin bf /\ emptySlot = NoSlot
     IN  /\ indHis' = [indHis EXCEPT ![hash] = index]
         /\ emptySlot' = IF first THEN index ELSE emptySlot
         /\ finalShare' = IF first \/ Exists(index) THEN finalShare ELSE Add(finalShare, data[index])
  /\ hash' = hash + 1
  /\ UNCHANGED <<digest, element, data, bf, lost, building>>

\* One hash of GBF_add: the first empty slot is kept for the final share, every
\* other slot contributes what it holds, a random share if it was empty.
Digest ==
  /\ building /\ hash < NumHashes
  /\ LET index == digest[element][hash]
         first == ~Exists(index) /\ index \notin bf /\ emptySlot = NoSlot
     IN  /\ indHis' = [indHis EXCEPT ![hash] = index]
         /\ emptySlot' = IF first THEN index ELSE emptySlot
         /\ IF first \/ Exists(index)
            THEN UNCHANGED <<finalShare, bf>>
            ELSE /\ finalShare' = Add(finalShare, data[index])
                 /\ bf' = bf \cup {index}
  /\ hash' = hash + 1
  /\ UNCHANGED <<digest, element, data, lost, building>>

\* GBF_add returns to the loop of buildGBFInThread.
NextElement ==
  /\ element' = element + 1
  /\ hash' = 0
  /\ emptySlot' = NoSlot
  /\ finalShare' = {Mask(element + 1)}

PutShare ==
  /\ building /\ hash = NumHashes /\ emptySlot # NoSlot
  /\ data' = [data EXCEPT ![emptySlot] = finalShare]
  /\ bf' = bf \cup {emptySlot}
  /\ NextElement
  /\ building' = (element + 1 < NumElements)
  /\ UNCHANGED <<digest, indHis, lost>>

\* Without an empty slot emptySlot is -1: the share is written 4 GiB behind the
\* filter, which ends the process unless there is memory.
PutNowhere ==
  /\ building /\ hash = NumHashes /\ emptySlot = NoSlot
  /\ lost' = lost \cup {element}
  /\ NextElement
  /\ building' \in {FALSE, element + 1 < NumElements}
  /\ UNCHANGED <<digest, indHis, data, bf>>

Step == Digest \/ PutShare \/ PutNowhere

\* GBF_query: the XOR of the slots of x, each of them once.
Slots(x) == {digest[x][i] : i \in Hash}
Query(x) ==
  {part \in UNION {data[s] : s \in Slots(x)} :
     Cardinality({s \in Slots(x) : part \in data[s]}) % 2 = 1}
=============================================================================
