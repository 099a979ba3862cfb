--------------------------- MODULE SimpleHashing ---------------------------
(***************************************************************************)
(* A follower's hashing (src/PSI/src/hashing/simple_hashing.cpp) and what  *)
(* it makes of the masks: the slots of SimpleHashingNaiveFollower::run or  *)
(* the polynomials of SimpleHashingPolynomialFollower::buildPolynomials.   *)
(*                                                                         *)
(* ntasks threads insert a part of the elements each, into a table of      *)
(* their own; the main thread then copies the hashed elements, merges the  *)
(* tables bin by bin, and, after the OPRG, writes every mask into a slot   *)
(* of its bin.  An entry stands for its value and for the mask of that     *)
(* value; a slot nothing is written to keeps its random bytes.  With the   *)
(* other strategy threads interpolate, for every hash function and bin, a  *)
(* polynomial that stands here for the points it goes through.             *)
(***************************************************************************)
EXTENDS Integers, Sequences, FiniteSets

CONSTANTS NumEles,     (* m_setSize                                        *)
          NumBins,     (* m_numOfBins                                      *)
          NumTasks,    (* m_numCores                                       *)
          Addresses    (* the address functions hashElement may compute    *)

Ele  == 0 .. NumEles - 1
Bin  == 0 .. NumBins - 1
HF   == 0 .. 2
Task == 0 .. NumTasks - 1
Pair == Ele \X HF

ASSUME HashingSizes == /\ NumEles \in Nat \ {0} /\ NumBins \in Nat \ {0}
                       /\ NumTasks \in Nat \ {0}
                       /\ Addresses \subseteq [Ele -> [HF -> Bin]]

CeilDivide(x, y) == IF x > 0 THEN (x - 1) \div y + 1 ELSE 0
(* ceil_log2: the powers of two below n, but 1 of 1.                       *)
CeilLog2(n) == IF n = 1 THEN 1 ELSE Cardinality({i \in 0 .. n : 2 ^ i < n})
Maximum(x, y) == IF x < y THEN y ELSE x
Minimum(x, y) == IF x < y THEN x ELSE y

\* PsiParty::setBinsParameters: the slots of a bin for one hash function.
MaxBinSize == IF CeilDivide(NumEles, NumBins) < 3 THEN Maximum(CeilLog2(NumEles), 3)
              ELSE 6 * Maximum(CeilDivide(NumEles, NumBins), 3)

\* The share of one thread, and the room init_hash_table gives a bin.
PerTask == CeilDivide(NumEles, NumTasks)
InitialRoom == IF CeilDivide(PerTask, NumBins) < 3 THEN 3 * Maximum(CeilLog2(PerTask), 3)
               ELSE 6 * Maximum(CeilDivide(PerTask, NumBins), 3)

StartPos_Floor(t) == t * (NumEles \div NumTasks)   \* variant: rounded down
StartPos(t) == t * PerTask
EndPos(t) == Minimum(StartPos(t) + PerTask, NumEles)

\* The threads of buildPolynomials and the bins of each of them.
PolyTasks == Minimum(NumTasks, NumBins)
PolyTask == 0 .. PolyTasks - 1
StartBin(t) == (t * NumBins) \div PolyTasks
EndBin(t) == ((t + 1) * NumBins) \div PolyTasks

VARIABLES
  address,     (* address[e][j]                                            *)
  bins,        (* bins[t][b]: the entries of bin b in the table of task t  *)
  room,        (* maxbinsize of each task's table                          *)
  cursor,      (* i of gen_entries                                         *)
  hf,          (* i of insert_element                                      *)
  stage,       (* where simple_hashing and run are                         *)
  k,           (* loop variable of the main thread                         *)
  hashed,      (* hashed_elements                                          *)
  merged,      (* res_bins and bin_to_elements_to_hash_table               *)
  nelesinbin,
  indexOf,     (* elements_to_hash_table                                   *)
  slots,       (* slots[h][s]: the entry in slot s, or Random              *)
  pastEnd,     (* entries written past the end of a slot vector            *)
  reported,    (* bins the message of run names                            *)
  built,       (* built[t]: polynomials of thread t                        *)
  polynomials  (* m_polynomials                                            *)

inserting == <<bins, room, cursor, hf>>
merging == <<merged, nelesinbin, indexOf>>
placing == <<slots, pastEnd, reported>>
interpolating == <<built, polynomials>>
shVars == <<address, inserting, stage, k, hashed, merging, placing, interpolating>>

Unset == -1
Slot == 0 .. NumBins * MaxBinSize - 1
Entry(e, j, dummy) == [ele |-> e, hf |-> j, dummy |-> dummy]
Random == Entry(Unset, Unset, FALSE)

Init ==
  /\ address \in Addresses
  /\ bins = [t \in Task |-> [b \in Bin |-> <<>>]]
  /\ room = [t \in Task |-> InitialRoom]
  /\ cursor = [t \in Task |-> StartPos(t)]
  /\ hf = [t \in Task |-> 0]
  /\ stage = "insert"
  /\ k = 0
  /\ hashed = <<>>
  /\ merged = <<>>
  /\ nelesinbin = [b \in Bin |-> 0]
  /\ indexOf = [p \in Pair |-> Unset]
  /\ slots = [h \in HF |-> [s \in Slot |-> Random]]
  /\ pastEnd = {}
  /\ reported = {}
  /\ built = [t \in PolyTask |-> <<>>]
  /\ polynomials = <<>>

-----------------------------------------------------------------------------
(***************************************************************************)
(* The threads: gen_entries and insert_element, one hash function a step.  *)
(***************************************************************************)

\* Variant: the hash functions after it are looked at as well.
IsDummy_AnyOther(e, j) == \E i \in HF : i # j /\ address[e][i] = address[e][j]

\* An earlier hash function of the element leads to the same bin.
IsDummy(e, j) == \E i \in HF : i < j /\ address[e][i] = address[e][j]

\* Variant: the bin is made bigger when it is already too small.
NewRoom_Late(t, n) == IF n > room[t] THEN 2 * room[t] ELSE room[t]

\* increase_max_bin_size, for all the bins of the table.
NewRoom(t, n) == IF n = room[t] THEN 2 * room[t] ELSE room[t]

Insert(t) ==
  /\ stage = "insert"
  /\ cursor[t] < EndPos(t)
  /\ LET e == cursor[t]
         j == hf[t]
         b == address[e][j]
     IN  /\ bins' = [bins EXCEPT ![t][b] = Append(@, Entry(e, j, IsDummy(e, j)))]
         /\ room' = [room EXCEPT ![t] = NewRoom(t, Len(bins[t][b]) + 1)]
         /\ hf' = [hf EXCEPT ![t] = (j + 1) % Cardinality(HF)]
         /\ cursor' = [cursor EXCEPT ![t] = IF hf'[t] = 0 THEN e + 1 ELSE e]
  /\ UNCHANGED <<address, stage, k, hashed, merging, placing, interpolating>>

Join ==
  /\ stage = "insert"
  /\ \A t \in Task : cursor[t] >= EndPos(t)
  /\ stage' = "copy"
  /\ UNCHANGED <<address, inserting, k, hashed, merging, placing, interpolating>>

-----------------------------------------------------------------------------
(***************************************************************************)
(* The main thread: the copy of the hashed elements, one task per step.    *)
(* arr_size is unsigned: a part that starts after its end is a copy of     *)
(* nearly 4 GiB, which no process survives.                                *)
(***************************************************************************)
Copy ==
  /\ stage = "copy"
  /\ IF EndPos(k) < StartPos(k)
     THEN /\ stage' = "dead"
          /\ UNCHANGED <<k, hashed>>
     ELSE /\ hashed' = hashed \o [i \in 1 .. EndPos(k) - StartPos(k) |-> StartPos(k) + i - 1]
          /\ k' = (k + 1) % NumTasks
          /\ stage' = IF k + 1 = NumTasks THEN "merge" ELSE "copy"
  /\ UNCHANGED <<address, inserting, merging, placing, interpolating>>

\* Variant: the last task's entries first.
Gathered_LastFirst(b) ==
  LET upTo[t \in -1 .. NumTasks - 1] == IF t = -1 THEN <<>> ELSE bins[t][b] \o upTo[t - 1]
  IN  upTo[NumTasks - 1]

\* The entries of bin b in the tables of all the tasks, the first task's first.
Gathered(b) ==
  LET upTo[t \in -1 .. NumTasks - 1] == IF t = -1 THEN <<>> ELSE upTo[t - 1] \o bins[t][b]
  IN  upTo[NumTasks - 1]

\* Variant: the index is the one in the task's own bin.
Merge_NoOffset ==
  /\ stage = "merge"
  /\ LET new == Gathered(k)
     IN  /\ merged' = merged \o new
         /\ nelesinbin' = [nelesinbin EXCEPT ![k] = Len(new)]
         /\ indexOf' = [p \in Pair |->
              IF \E l \in DOMAIN new : <<new[l].ele, new[l].hf>> = p
              THEN (CHOOSE l \in DOMAIN new : <<new[l].ele, new[l].hf>> = p) - 1
              ELSE indexOf[p]]
  /\ k' = (k + 1) % NumBins
  /\ stage' \in (IF k + 1 = NumBins THEN {"place", "interpolate"} ELSE {"merge"})
  /\ UNCHANGED <<address, inserting, hashed, placing, interpolating>>

\* One bin of all the tables.
Merge ==
  /\ stage = "merge"
  /\ LET new == Gathered(k)
     IN  /\ merged' = merged \o new
         /\ nelesinbin' = [nelesinbin EXCEPT ![k] = Len(new)]
         /\ indexOf' = [p \in Pair |->
              IF \E l \in DOMAIN new : <<new[l].ele, new[l].hf>> = p
              THEN Len(merged) + (CHOOSE l \in DOMAIN new : <<new[l].ele, new[l].hf>> = p) - 1
              ELSE indexOf[p]]
  /\ k' = (k + 1) % NumBins
  /\ stage' \in (IF k + 1 = NumBins THEN {"place", "interpolate"} ELSE {"merge"})
  /\ UNCHANGED <<address, inserting, hashed, placing, interpolating>>

-----------------------------------------------------------------------------
(***************************************************************************)
(* SimpleHashingNaiveFollower::run, one bin per step.                      *)
(***************************************************************************)

\* progress: the entries of the bins before b.
Progress(b) ==
  LET upTo[c \in 0 .. NumBins] == IF c = 0 THEN 0 ELSE upTo[c - 1] + nelesinbin[c - 1]
  IN  upTo[b]

\* Where the entries of bin b are in merged.
Positions(b) == Progress(b) + 1 .. Progress(b) + nelesinbin[b]

\* Variant: counter is set to 0 before the loop over the bins only.
Counter_NoReset(b, q) ==
  Cardinality({r \in 1 .. q - 1 : merged[r].hf = merged[q].hf})

\* counter[h] starts at 0 in every bin: the entries before q of its hash function.
Counter(b, q) ==
  Cardinality({r \in Positions(b) : r < q /\ merged[r].hf = merged[q].hf})

SlotOf(b, q) == b * MaxBinSize + Counter(b, q)

Place ==
  /\ stage = "place"
  /\ slots' = [h \in HF |-> [s \in Slot |->
       LET mine == {q \in Positions(k) : merged[q].hf = h /\ SlotOf(k, q) = s}
       IN  IF mine = {} THEN slots[h][s] ELSE merged[CHOOSE q \in mine : TRUE]]]
  /\ pastEnd' = pastEnd \cup {merged[q] : q \in {r \in Positions(k) : SlotOf(k, r) \notin Slot}}
  /\ reported' = IF nelesinbin[k] > Cardinality(HF) * MaxBinSize THEN reported \cup {k}
                 ELSE reported
  /\ k' = (k + 1) % NumBins
  /\ stage' = IF k + 1 = NumBins THEN "sent" ELSE "place"
  /\ UNCHANGED <<address, inserting, hashed, merging, interpolating>>

-----------------------------------------------------------------------------
(***************************************************************************)
(* SimpleHashingPolynomialFollower::buildPolynomials: for one hash function*)
(* after the other, k, threads with a range of bins each.                  *)
(***************************************************************************)

\* Variant: a thread starts at its first bin's number.
ElementIndex_Bin(t) == StartBin(t)
\* elementIndex: the entries of the bins of the threads before t.
ElementIndex(t) ==
  LET upTo[u \in 0 .. t] ==
        IF u = 0 THEN 0 ELSE upTo[u - 1] + Progress(EndBin(u - 1)) - Progress(StartBin(u - 1))
  IN  upTo[t]

\* The points of the polynomial of bin b: an element and the place of its mask.
Points(t, b) ==
  LET first == ElementIndex(t) + Progress(b) - Progress(StartBin(t))
  IN  {[ele |-> merged[q].ele, mask |-> q - 1] :
         q \in {r \in first + 1 .. first + nelesinbin[b] : merged[r].hf = k}}

\* maxBinSize less the points is unsigned: the random factor of an overfull bin
\* has nearly 2^32 coefficients, which no process survives.
Build(t) ==
  /\ stage = "interpolate"
  /\ built[t] = <<>>
  /\ LET part == [i \in 1 .. EndBin(t) - StartBin(t) |-> Points(t, StartBin(t) + i - 1)]
         overfull == {i \in DOMAIN part : Cardinality(part[i]) > MaxBinSize}
     IN  IF overfull # {}
         THEN /\ stage' = "overfull"
              /\ reported' = {StartBin(t) + i - 1 : i \in {j \in overfull : \A l \in overfull : j <= l}}
              /\ UNCHANGED built
         ELSE /\ built' = [built EXCEPT ![t] = part]
              /\ UNCHANGED <<stage, reported>>
  /\ UNCHANGED <<address, inserting, k, hashed, merging, slots, pastEnd, polynomials>>

\* The threads' polynomials are appended in the threads' order.
JoinBuilders ==
  /\ stage = "interpolate"
  /\ \A t \in PolyTask : built[t] # <<>>
  /\ LET upTo[t \in -1 .. PolyTasks - 1] == IF t = -1 THEN polynomials ELSE upTo[t - 1] \o built[t]
     IN  polynomials' = upTo[PolyTasks - 1]
  /\ built' = [t \in PolyTask |-> <<>>]
  /\ k' = (k + 1) % Cardinality(HF)
  /\ stage' = IF k + 1 = Cardinality(HF) THEN "interpolated" ELSE "interpolate"
  /\ UNCHANGED <<address, inserting, hashed, merging, placing>>

Next == \/ \E t \in Task : Insert(t)
        \/ Join \/ Copy \/ Merge \/ Place
        \/ \E t \in PolyTask : Build(t)
        \/ JoinBuilders

Spec == Init /\ [][Next]_shVars

-----------------------------------------------------------------------------
(***************************************************************************)
(* Properties.                                                             *)
(***************************************************************************)
Loads(b, h) == Cardinality({e \in Ele : address[e][h] = b})

\* No thread ever writes past the entries its table allocates for a bin: the
\* assertion commented out in insert_element (simple_hashing.cpp:161).
NeverPastBin == \A t \in Task, b \in Bin : Len(bins[t][b]) < room[t]

Before(x, y) == \/ address[x.ele][x.hf] < address[y.ele][y.hf]
                \/ /\ address[x.ele][x.hf] = address[y.ele][y.hf]
                   /\ x.ele < y.ele \/ (x.ele = y.ele /\ x.hf < y.hf)

\* The hash table is sorted by bin, then element, then hash function, however
\* the threads were scheduled: xor_masks (ot-psi.cpp:284-291) and the OPRG
\* walk it with nelesinbin alone.
ThreadsDoNotMatter ==
  stage \in {"place", "interpolate", "sent", "interpolated"} =>
    /\ Len(merged) = NumEles * Cardinality(HF)
    /\ \A q, r \in DOMAIN merged : q < r => Before(merged[q], merged[r])
    /\ \A b \in Bin : \A q \in Positions(b) : address[merged[q].ele][merged[q].hf] = b

\* In every bin it hashes to, an element has its value exactly once, at the
\* lowest hash function: the one cuckoo_hashing records in hashed_by.
OneRealPerBin ==
  stage = "sent" =>
    \A e \in Ele : \A b \in {address[e][j] : j \in HF} :
      \E q \in DOMAIN merged :
        /\ merged[q].ele = e /\ address[e][merged[q].hf] = b /\ ~merged[q].dummy
        /\ \A r \in DOMAIN merged :
             merged[r].ele = e /\ address[e][merged[r].hf] = b /\ ~merged[r].dummy => r = q
        /\ \A j \in HF : j < merged[q].hf => address[e][j] # b

\* The slots the leader searches for bin b (SimpleHashingNaiveLeader.cpp:29-31).
Searched(b, h) == {slots[h][s] : s \in b * MaxBinSize .. (b + 1) * MaxBinSize - 1}

Findable(e, j) ==
  \E x \in Searched(address[e][j], j) : x.ele = e /\ x.hf = j

\* What spills out of an overfull bin never displaces the mask of another bin
\* (SimpleHashingNaiveFollower.cpp:39-45 writes the bins in ascending order).
SpillHarmsNobodyElse ==
  stage = "sent" =>
    \A e \in Ele, j \in HF : Loads(address[e][j], j) <= MaxBinSize => Findable(e, j)

\* The polynomial the leader evaluates for an element, a hash function and a bin
\* (SimpleHashingPolynomialLeader.cpp:46) goes through the element and the very
\* mask NaiveFollower.cpp:17 finds for it by the other index table, and through
\* nothing of another bin; only an overfull bin ends the process.
PolynomialsAnswer ==
  /\ stage = "interpolated" =>
       /\ Len(polynomials) = Cardinality(HF) * NumBins
       /\ \A h \in HF, b \in Bin :
            polynomials[h * NumBins + b + 1] =
              {[ele |-> e, mask |-> indexOf[<<e, h>>]] : e \in {x \in Ele : address[x][h] = b}}
  /\ stage = "overfull" => \E h \in HF : \E b \in reported : Loads(b, h) > MaxBinSize

\* The hashing survives the numbers of elements and cores it is configured with.
NeverDies == stage # "dead"
=============================================================================
