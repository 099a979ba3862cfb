------------------------------- MODULE Cuckoo -------------------------------
(***************************************************************************)
(* The leader's cuckoo hashing (src/PSI/src/hashing/cuckoo.cpp) and the    *)
(* table PsiParty::runAsLeader builds from it.                             *)
(*                                                                         *)
(* Elements are the indices 0..NumEles-1 of m_eleptr and bins the indices  *)
(* of cuckoo_table.  The three addresses of an element are an arbitrary    *)
(* function: hashElement is a table lookup filled from a shared random     *)
(* seed.  The insertion loop is a step machine, one step per iteration of  *)
(* insert_element; the copy of the table into perm, bin_ids and hashed_by  *)
(* is one step per bin, and the two loops of runAsLeader that fill         *)
(* CuckooHashInfo are one step each.                                       *)
(***************************************************************************)
EXTENDS Integers, FiniteSets

CONSTANTS NumEles,   (* m_setSize, the number of elements of the leader    *)
          NumBins    (* m_numOfBins                                        *)

ASSUME SizeAssumption == /\ NumEles \in Nat \ {0}
                         /\ NumBins \in Nat \ {0}
                         /\ NumEles <= NumBins

VARIABLES
  address,   (* address[e][j]: the bin hash function j gives element e     *)
  table,     (* cuckoo_table: the element a bin points to, or Null         *)
  pos,       (* cuckoo_entry_ctx.pos of every entry                        *)
  next,      (* i, the element being inserted                              *)
  evicted,   (* the entry insert_element holds in its hand                 *)
  iter,      (* iter_cnt                                                   *)
  reported,  (* elements named by "Insertion not successful for element"   *)
  bin,       (* i of the copy loop                                         *)
  filled,    (* perm_ptr - perm                                            *)
  perm,      (* perm[k]: element in the k-th non-empty bin                 *)
  binIds,    (* bin_ids[b]: 1 + element of bin b, 0 when it is empty       *)
  hashedBy,  (* hashed_by[b]: the hash function that sends it there        *)
  hashInfo,  (* CuckooHashInfo of every element                            *)
  pc

vars == <<address, table, pos, next, evicted, iter, reported, bin, filled,
          perm, binIds, hashedBy, hashInfo, pc>>

inserting == <<table, pos, next, evicted, iter, reported>>
copying   == <<bin, filled, perm, binIds, hashedBy>>

Ele  == 0 .. NumEles - 1
Bin  == 0 .. NumBins - 1
HF   == 0 .. 2              \* NUM_HASH_FUNCTIONS
Null == -1                  \* a NULL pointer, or the -1 of CuckooHashInfo

(***************************************************************************)
(* pos ^ iter_cnt, for a pos below 4: only the two low bits can differ.    *)
(***************************************************************************)
PosXor(p, n) == (n - (n % 4)) + ((p + n) % 2) + 2 * (((p \div 2) + (n \div 2)) % 2)

Occupied == {b \in Bin : table[b] # Null}
InTable  == {table[b] : b \in Occupied}

\* The order in which the copy loop meets the non-empty bins.
Rank(b) == Cardinality({c \in Occupied : c < b})

NoInfo == [binIndex |-> Null, tableIndex |-> Null, hashedBy |-> 0]

Init ==
  /\ address \in [Ele -> [HF -> Bin]]
  /\ table = [b \in Bin |-> Null]
  /\ pos = [e \in Ele |-> 0]
  /\ next = 0
  /\ evicted = 0
  /\ iter = 0
  /\ reported = {}
  /\ bin = 0
  /\ filled = 0
  /\ perm = [k \in Ele |-> 0]
  /\ binIds = [b \in Bin |-> 0]
  /\ hashedBy = [b \in Bin |-> 0]
  /\ hashInfo = [e \in Ele |-> NoInfo]
  /\ pc = "insert"

-----------------------------------------------------------------------------
(***************************************************************************)
(* insert_element.                                                         *)
(***************************************************************************)

\* insert_element's second argument is neles.
MaxIterations == NumEles

\* Hash functions whose bin is free for the entry in hand.
FreeHF_Unchecked == HF      \* variant: the NULL test is missing
FreeHF == {j \in HF : table[address[evicted][j]] = Null}

\* The for loop of cuckoo_hashing moves on to the next element.
NextElement ==
  /\ next' = next + 1
  /\ iter' = 0
  /\ evicted' = IF next + 1 < NumEles THEN next + 1 ELSE Null
  /\ pc' = IF next + 1 < NumEles THEN "insert" ELSE "copy"

\* Variant: the bin is chosen from the element of the outer loop.
Place_OuterElement ==
  /\ pc = "insert"
  /\ iter < MaxIterations
  /\ \E j \in FreeHF :
       /\ \A k \in FreeHF : j <= k
       /\ table' = [table EXCEPT ![address[next][j]] = evicted]
       /\ pos' = [pos EXCEPT ![evicted] = j]
  /\ NextElement
  /\ UNCHANGED <<address, reported, copying, hashInfo>>

\* The first free bin takes the entry and insert_element returns true.
Place ==
  /\ pc = "insert"
  /\ iter < MaxIterations
  /\ \E j \in FreeHF :
       /\ \A k \in FreeHF : j <= k
       /\ table' = [table EXCEPT ![address[evicted][j]] = evicted]
       /\ pos' = [pos EXCEPT ![evicted] = j]
  /\ NextElement
  /\ UNCHANGED <<address, reported, copying, hashInfo>>

\* The hash function whose bin is emptied.
EvictHF == PosXor(pos[evicted], iter) % 3

\* Variant: the entry that was swapped out is not picked up.
Evict_KeepsHand ==
  /\ pc = "insert"
  /\ iter < MaxIterations
  /\ FreeHF = {}
  /\ table' = [table EXCEPT ![address[evicted][EvictHF]] = evicted]
  /\ iter' = iter + 1
  /\ UNCHANGED <<address, next, pos, evicted, reported, copying, hashInfo, pc>>

\* Variant: iter_cnt is not advanced.
Evict_Forever ==
  /\ pc = "insert"
  /\ iter < MaxIterations
  /\ FreeHF = {}
  /\ LET b == address[evicted][EvictHF]
     IN  /\ table' = [table EXCEPT ![b] = evicted]
         /\ evicted' = table[b]
         /\ pos' = [pos EXCEPT ![table[b]] = (@ + 1) % 3]
  /\ UNCHANGED <<address, next, iter, reported, copying, hashInfo, pc>>

\* All three bins are taken: swap the entry in hand with one of them.
Evict ==
  /\ pc = "insert"
  /\ iter < MaxIterations
  /\ FreeHF = {}
  /\ LET b == address[evicted][EvictHF]
         out == table[b]
     IN  /\ table' = [table EXCEPT ![b] = evicted]
         /\ evicted' = out
         /\ pos' = [pos EXCEPT ![out] = (@ + 1) % 3]
  /\ iter' = iter + 1
  /\ UNCHANGED <<address, next, reported, copying, hashInfo, pc>>

\* max_iterations reached: the entry in hand is dropped, the message names
\* the element of the outer loop, and the loop goes on.
GiveUp ==
  /\ pc = "insert"
  /\ iter = MaxIterations
  /\ reported' = reported \cup {next}
  /\ NextElement
  /\ UNCHANGED <<address, table, pos, copying, hashInfo>>

-----------------------------------------------------------------------------
(***************************************************************************)
(* The copy loop of cuckoo_hashing, one bin per step.                      *)
(***************************************************************************)

\* Variant: the position insert_element recorded in the entry.
LowestHF_Pos(b) == pos[table[b]]

\* The lowest hash function that sends the bin's element to the bin.
LowestHF(b) == CHOOSE j \in HF : /\ address[table[b]][j] = b
                                 /\ \A k \in HF : k < j => address[table[b]][k] # b

\* Variant: perm_ptr advances over empty bins as well, while it can.
CopyBin_PermGaps ==
  /\ pc = "copy"
  /\ bin < NumBins
  /\ IF table[bin] # Null
     THEN /\ hashedBy' = [hashedBy EXCEPT ![bin] = LowestHF(bin)]
          /\ perm' = [perm EXCEPT ![filled] = table[bin]]
          /\ binIds' = [binIds EXCEPT ![bin] = table[bin] + 1]
     ELSE UNCHANGED <<hashedBy, perm, binIds>>
  /\ filled' = IF filled < NumEles THEN filled + 1 ELSE filled
  /\ bin' = bin + 1
  /\ pc' = IF bin + 1 = NumBins THEN "bins" ELSE "copy"
  /\ UNCHANGED <<address, inserting, hashInfo>>

CopyBin ==
  /\ pc = "copy"
  /\ bin < NumBins
  /\ IF table[bin] # Null
     THEN /\ hashedBy' = [hashedBy EXCEPT ![bin] = LowestHF(bin)]
          /\ perm' = [perm EXCEPT ![filled] = table[bin]]
          /\ filled' = filled + 1
          /\ binIds' = [binIds EXCEPT ![bin] = table[bin] + 1]
     ELSE UNCHANGED <<hashedBy, perm, filled, binIds>>
  /\ bin' = bin + 1
  /\ pc' = IF bin + 1 = NumBins THEN "bins" ELSE "copy"
  /\ UNCHANGED <<address, inserting, hashInfo>>

(***************************************************************************)
(* PsiParty::runAsLeader: the loop over bin_ids, then the loop over perm.  *)
(* In each the last writer of an entry wins.                               *)
(***************************************************************************)

Last(S) == CHOOSE m \in S : \A n \in S : n <= m

\* bin_ids holds the element's index plus one.
BinsOf_NotShifted(e) == {b \in Bin : binIds[b] = e}
BinsOf(e) == {b \in Bin : binIds[b] = e + 1}

FillBinIndex ==
  /\ pc = "bins"
  /\ hashInfo' = [e \in Ele |->
       LET mine == BinsOf(e)
       IN  IF mine = {} THEN hashInfo[e]
           ELSE [hashInfo[e] EXCEPT !.binIndex = Last(mine),
                                    !.hashedBy = hashedBy[Last(mine)]]]
  /\ pc' = "perm"
  /\ UNCHANGED <<address, inserting, copying>>

FillTableIndex ==
  /\ pc = "perm"
  /\ hashInfo' = [e \in Ele |->
       LET mine == {k \in Ele : perm[k] = e}
       IN  IF mine = {} THEN hashInfo[e]
           ELSE [hashInfo[e] EXCEPT !.tableIndex = Last(mine)]]
  /\ pc' = "done"
  /\ UNCHANGED <<address, inserting, copying>>

Next == Place \/ Evict \/ GiveUp \/ CopyBin \/ FillBinIndex \/ FillTableIndex

Spec == Init /\ [][Next]_vars

-----------------------------------------------------------------------------
(***************************************************************************)
(* Properties.                                                             *)
(***************************************************************************)

\* Every variable stays in its range; in particular perm is never written
\* past its NumEles entries (cuckoo.cpp:110, perm_ptr has no bound check).
TypeOK ==
  /\ address \in [Ele -> [HF -> Bin]]
  /\ table \in [Bin -> Ele \cup {Null}]
  /\ pos \in [Ele -> HF]
  /\ next \in 0 .. NumEles
  /\ evicted \in Ele \cup {Null}
  /\ iter \in 0 .. NumEles
  /\ reported \subseteq Ele
  /\ bin \in 0 .. NumBins
  /\ filled \in 0 .. NumEles
  /\ perm \in [Ele -> Ele]
  /\ binIds \in [Bin -> 0 .. NumEles]
  /\ hashedBy \in [Bin -> HF]
  /\ hashInfo \in [Ele -> [binIndex : Bin \cup {Null}, tableIndex : Ele \cup {Null},
                            hashedBy : HF]]
  /\ pc \in {"insert", "copy", "bins", "perm", "done"}

\* However long the eviction chain, an entry only ever rests in a bin one of
\* its own hash functions names (insert_element): the follower looks for it
\* nowhere else.
RestsAtAnAddress ==
  \A b \in Occupied : \E j \in HF : address[table[b]][j] = b

\* No entry is in two bins, nor in a bin and in hand (the swap of
\* insert_element never duplicates a pointer).
HeldOnce ==
  /\ \A b, c \in Occupied : table[b] = table[c] => b = c
  /\ pc = "insert" => evicted \notin InTable

\* Elements already offered that are neither in a bin nor in hand.
Lost == {e \in Ele : e < next /\ e \notin InTable /\ e # evicted}

\* Evictions lose nothing on their own: exactly one element disappears for
\* each failed insertion that is reported (insert_element, cuckoo.cpp:82-94).
NoSilentLoss == Cardinality(Lost) = Cardinality(reported)

\* What the leader's check threads rely on (Leader.cpp:17-33): the tableIndex
\* of an inserted element is the rank of its bin among the non-empty bins,
\* which is where oprg_client leaves that bin's output, and binIndex is its bin.
InfoMatchesTable(e) ==
  LET info == hashInfo[e]
  IN  IF e \in InTable
      THEN /\ info.binIndex \in Bin
           /\ table[info.binIndex] = e
           /\ info.tableIndex = Rank(info.binIndex)
      ELSE info.binIndex = Null \/ info.tableIndex = Null

\* When no insertion failed, every element is in a bin and its CuckooHashInfo
\* names that bin and that bin's OPRG output.
CompleteInfo ==
  pc = "done" /\ reported = {} =>
     \A e \in Ele : e \in InTable /\ InfoMatchesTable(e)

\* A failed insertion damages no element but the lost one and element 0: all
\* the others keep a correct entry or are skipped by Leader.cpp:21-29.  Element 0
\* does not: the entries of perm that stay 0 give it their index (PsiParty.cpp:213),
\* and it is then checked against another bin's OPRG output.
FailureIsContained ==
  pc = "done" => \A e \in Ele \ {0} : InfoMatchesTable(e)

\* hashedBy is the lowest hash function leading to the bin: the follower's
\* simple hashing turns every later one into a dummy (simple_hashing.cpp:151),
\* so any other choice would compare against a dummy entry.
HashedByIsNotDummy ==
  pc \in {"perm", "done"} =>
    \A e \in Ele :
      LET info == hashInfo[e]
      IN  info.binIndex # Null =>
            /\ address[e][info.hashedBy] = info.binIndex
            /\ \A k \in HF : k < info.hashedBy => address[e][k] # info.binIndex
=============================================================================
