---------------------------- MODULE PsiProtocol ----------------------------
(***************************************************************************)
(* A whole run of PsiParty (OT_MPSI): additive secret sharing between all  *)
(* parties, hashing, one OPRG execution per follower in a leader thread of *)
(* its own, the followers' masks, and the leader's check threads.          *)
(*                                                                         *)
(* Composes AdditiveShare (the shares) and Cuckoo (the leader's table and  *)
(* CuckooHashInfo).  A mask-sized string is the set of the independent     *)
(* random strings it is the XOR of:                                        *)
(*    <<"prg", i, j, b>>   bin b of the expansion of seed <<i, j>>         *)
(*    <<"oprg", p, b, v>>  the OPRG of follower p on value v in bin b      *)
(*    <<"rand", p, h, k>>  a string nobody else knows                      *)
(* so zero is {}.  maskbitlen makes the chance that independent strings    *)
(* cancel 2^-statSecParameter; the model takes it as zero.  The cap of     *)
(* maskbitlen at 512 bits ends that for the systems of equations of more   *)
(* than MaxColumns unknowns; a search of every combination that long would *)
(* not end.  The OPRG is the ideal one: Oprg says when the threads of the  *)
(* two sides get there.                                                    *)
(***************************************************************************)
EXTENDS Integers, Sequences, FiniteSets

CONSTANTS
  N,           (* numofparties                                             *)
  SetSize,     (* m_setSize                                                *)
  NumBins,     (* m_numOfBins                                              *)
  NumCores,    (* m_numCores of the leader                                 *)
  MaxBinSize,  (* m_maxBinSize                                             *)
  MaxColumns,  (* 64*8 bits of a mask less m_statSecParameter              *)
  Key,         (* the universe of elements                                 *)
  Value,       (* Value[k]: the val hashElement gives k                    *)
  Dummy,       (* DUMMY_ENTRY_SERVER                                       *)
  Hashings,    (* the address functions hashElement may compute            *)
  EleIndex,    (* EleIndex[p][k]: where follower p has element k           *)
  Strategies,  (* the strategies the coordinator may choose                *)
  None         (* nothing published                                        *)

Party     == 1 .. N
Leader    == 1             \* "1 is always the leader Id", NaiveLeader.cpp:37
Followers == Party \ {Leader}
Ele       == 0 .. SetSize - 1
Bin       == 0 .. NumBins - 1
HF        == 0 .. 2
Null      == -1

\* How a follower hides its masks and the leader looks for them: in any order,
\* in slots or polynomials of their bins, in one polynomial or filter per hash
\* function, or without any share.  The two GAUSS strategies are followers of
\* the first two kinds with a leader that solves a system of equations.
Exhaustive  == {"NAIVE_METHOD_SMALL_N", "SIMPLE_HASH"}
Gauss       == {"NAIVE_METHOD_LARGE_N", "GAUSS_SIMPLE_HASH"}
Evaluated   == {"POLYNOMIALS", "POLYNOMIALS_SIMPLE_HASH", "BLOOM_FILTER"}
Strategy    == Exhaustive \cup Gauss \cup Evaluated \cup {"TWO_PARTY"}
Slotted     == {"SIMPLE_HASH", "GAUSS_SIMPLE_HASH"}
PerBin      == Slotted \cup {"POLYNOMIALS_SIMPLE_HASH"}

ASSUME SizesAssumption ==
  /\ N \in Nat /\ N >= 2
  /\ SetSize \in Nat \ {0} /\ NumBins \in Nat /\ NumCores \in Nat \ {0}
  /\ SetSize <= NumBins
  /\ MaxBinSize \in Nat \ {0} /\ MaxColumns \in Nat
  /\ Strategies \subseteq Strategy
  /\ "TWO_PARTY" \in Strategies => N = 2     \* TwoPartyLeader looks at party 2 only

\* Elements are strings of m_elementSizeInBits bits.
ASSUME KeyAssumption == IsFiniteSet(Key)

\* A follower has its elements in some order.
ASSUME OrderAssumption ==
  \A p \in Followers : /\ EleIndex[p] \in [Key -> Nat]
                       /\ \A k, m \in Key : EleIndex[p][k] = EleIndex[p][m] => k = m

\* The elements are such that hashElement keeps them apart: a bin, a hash
\* function and a value determine the element, and none has the dummy value.
\* HashElement says for which elements and which numbers of bins that fails.
ASSUME HashingAssumption ==
  /\ Hashings \subseteq [Key -> [HF -> Bin]]
  /\ \A k \in Key : Value[k] # Dummy
  /\ \A addr \in Hashings, k, m \in Key, j \in HF :
       Value[k] = Value[m] /\ addr[k][j] = addr[m][j] => k = m

VARIABLES
  \* configuration of the run
  strategy, set, eleptr, address,
  \* AdditiveShare
  chan, sendTo, recvFrom, acc, share, expanded, crashed,
  \* Cuckoo, at the leader
  table, pos, next, evicted, iter, reported, bin, filled, perm, binIds,
  hashedBy, hashInfo, hashPc,
  \* the leader
  stage,          (* where runAsLeader is                                  *)
  ot,             (* state of the thread runLeaderAgainstFollower          *)
  leaderResults,  (* leaderResults[p][t]: OPRG output t from follower p    *)
  received,       (* m_partiesResults[p]: the messages read so far         *)
  secret,         (* m_secretShare, changed in place by the check threads  *)
  cursor,         (* i of each check thread                                *)
  xored,          (* threads that have XORed the OPRG outputs of i         *)
  found,          (* intersection of each check thread                     *)
  garbled,        (* history: elements whose value the leader read wrong   *)
  result,         (* the size sent to the coordinator                      *)
  \* the followers
  fstage,         (* where runAsFollower is                                *)
  sent,           (* messages sent by Follower::run                        *)
  \* the connections between the leader and each follower
  toFollower, toLeader

config == <<strategy, set, eleptr, address>>
sharing == <<chan, sendTo, recvFrom, acc, share, expanded, crashed>>
hashing == <<table, pos, next, evicted, iter, reported, bin, filled, perm, binIds,
             hashedBy, hashInfo, hashPc>>
checking == <<secret, cursor, xored, found, garbled>>
leading == <<stage, ot, leaderResults, received, checking, result>>
following == <<fstage, sent>>
wires == <<toFollower, toLeader>>
vars == <<config, sharing, hashing, leading, following, wires>>

\* Nobody dies here: MaxCrashes bounds the deaths AdditiveShare adds.
AS == INSTANCE AdditiveShare WITH MaxCrashes <- 0

CK == INSTANCE Cuckoo WITH NumEles <- SetSize,
                           address <- [e \in Ele |-> address[eleptr[e]]],
                           pc <- hashPc

Xor(v, w) == AS!Xor(v, w)

\* XOR of one string per member of S.
XorOver(S, v(_)) ==
  {a \in UNION {v(p) : p \in S} : Cardinality({p \in S : a \in v(p)}) % 2 = 1}

-----------------------------------------------------------------------------
(***************************************************************************)
(* The strings.                                                            *)
(***************************************************************************)

\* getPRGBytes: the part of a share that belongs to bin b.
Expansion(seeds, b) == {<<"prg", s[1], s[2], b>> : s \in seeds}

\* oprg_client: output t belongs to the t-th non-empty bin; the outputs after
\* the last one are evaluate_crf of the zeroed buffer, the same for everyone.
ClientOutput(p) ==
  [t \in Ele |->
     IF \E b \in CK!Occupied : CK!Rank(b) = t
     THEN LET b == CHOOSE c \in CK!Occupied : CK!Rank(c) = t
          IN  {<<"oprg", p, b, Value[eleptr[table[b]]]>>}
     ELSE {<<"rand", 0, 0, 0>>}]

\* Variant: the earlier entry is overwritten.
ServerValue_DummyFirst(k, j) ==
  IF \E i \in HF : i > j /\ address[k][i] = address[k][j] THEN Dummy ELSE Value[k]

\* insert_element of simple hashing: an entry whose bin an earlier hash
\* function of the same element already used holds the dummy.
ServerValue(k, j) ==
  IF \E i \in HF : i < j /\ address[k][i] = address[k][j] THEN Dummy ELSE Value[k]

\* Variant: the share is left out of the mask.
Mask_NoShare(p, k, j) == {<<"oprg", p, address[k][j], ServerValue(k, j)>>}

\* oprg_server and xor_masks: the mask of element k for hash function j.
Mask(p, k, j) ==
  LET b == address[k][j]
  IN  Xor({<<"oprg", p, b, ServerValue(k, j)>>}, Expansion(share[p], b))

\* The entries of the same hash function before k in its bin: counter[hashIndex].
Rank(p, j, k) ==
  Cardinality({m \in set[p] : /\ EleIndex[p][m] < EleIndex[p][k]
                              /\ address[m][j] = address[k][j]})

\* The slot SimpleHashingNaiveFollower::run copies the mask of k to.
Slot(p, j, k) == address[k][j] * MaxBinSize + Rank(p, j, k)
NumSlots == NumBins * MaxBinSize

\* Variant: the bins are written from the last one to the first.
Kept_LastBinFirst(p, j) ==
  {k \in set[p] :
     strategy \in Slotted =>
       /\ Slot(p, j, k) < NumSlots
       /\ \A m \in set[p] : Slot(p, j, m) = Slot(p, j, k) => address[m][j] >= address[k][j]}

\* What is left of a mask in a slot when all the bins are written, one after
\* the other: nothing behind the last slot, and the last mask of a slot.
Kept(p, j) ==
  {k \in set[p] :
     strategy \in Slotted =>
       /\ Slot(p, j, k) < NumSlots
       /\ \A m \in set[p] : Slot(p, j, m) = Slot(p, j, k) => address[m][j] <= address[k][j]}

\* The bin whose slots or whose polynomial has the mask.
BinFor(p, j, k) ==
  IF strategy \in Slotted THEN Slot(p, j, k) \div MaxBinSize ELSE address[k][j]

\* Variant: one block with the masks of all the hash functions.
Block_AllFunctions(p, j) ==
  UNION {{[key |-> k, bin |-> BinFor(p, i, k), mask |-> Mask(p, k, i)] : k \in Kept(p, i)} :
           i \in HF}

\* What the follower sends for hash function j: masks, masks in the slots of
\* their bins among random ones, polynomials through the points <<key, mask>>,
\* or a filter that gives the mask for the key.
Block(p, j) ==
  {[key |-> k, bin |-> BinFor(p, j, k), mask |-> Mask(p, k, j)] : k \in Kept(p, j)}

\* A bin has more elements by a hash function than m_maxBinSize.
Overfull(p) == \E j \in HF : \E k \in set[p] : Rank(p, j, k) >= MaxBinSize

\* The random factor of an overfull bin has nearly 2^32 coefficients.
Exhausts(p) == strategy = "POLYNOMIALS_SIMPLE_HASH" /\ Overfull(p)

\* A mask is copied behind the vector of the slots.  What lies there, if anything
\* does, may be the slots of another hash function.
WritesPastEnd(p) ==
  strategy \in Slotted /\ \E j \in HF : \E k \in set[p] : Slot(p, j, k) >= NumSlots

Overruns(p) == Exhausts(p) \/ WritesPastEnd(p)

\* Variant: the share is XORed into the masks as for more parties.
AllMasks_Shared(p) ==
  UNION {{[key |-> k, hf |-> j, mask |-> Mask(p, k, j)] : k \in set[p]} : j \in HF}

\* TwoPartyFollower::run: all masks as the OPRG made them.
AllMasks(p) ==
  UNION {{[key |-> k, hf |-> j,
           mask |-> {<<"oprg", p, address[k][j], ServerValue(k, j)>>}] : k \in set[p]} : j \in HF}

Message(kind, block) == [kind |-> kind, block |-> block]

\* Follower::run: everything it sends, in order.
Outgoing(p) ==
  LET blocks == [i \in 1 .. Cardinality(HF) |-> Message("block", Block(p, i - 1))]
  IN  CASE strategy = "TWO_PARTY" -> <<Message("block", AllMasks(p))>>
        [] strategy = "BLOOM_FILTER" -> <<Message("keys", {})>> \o blocks
        [] OTHER -> blocks

\* How many of them the leader reads from each follower.
NumMessages == CASE strategy = "TWO_PARTY" -> 1
                 [] strategy = "BLOOM_FILTER" -> 1 + Cardinality(HF)
                 [] OTHER -> Cardinality(HF)

ReceivedBlock(p, h) == received[p][NumMessages - Cardinality(HF) + h + 1].block

\* The masks isZeroXOR tries for a follower: the whole block of the hash
\* function or the slots of the bin.
Candidates(p, h, b) ==
  {pt.mask : pt \in {x \in ReceivedBlock(p, h) : strategy \in PerBin => x.bin = b}}

\* isElementInAllSets of the leaders that evaluate: the polynomial, or the
\* filter, at element k.
Evaluation(p, h, b, k) ==
  LET points == {x \in ReceivedBlock(p, h) : x.key = k /\ (strategy \in PerBin => x.bin = b)}
  IN  IF points = {} THEN {<<"rand", p, h, k>>} ELSE (CHOOSE x \in points : TRUE).mask

\* The masks are too short for that many of them to be independent.
Columns == (N - 1) * (IF strategy = "GAUSS_SIMPLE_HASH" THEN MaxBinSize ELSE SetSize)
TooShort == Columns > MaxColumns

\* Or two masks of a follower among the columns of the system are the same: the
\* dummies of two elements in one bin.
Dependent(h, b) ==
  \/ TooShort
  \/ \E p \in Followers : \E x, y \in ReceivedBlock(p, h) :
       /\ x # y
       /\ x.mask = y.mask
       /\ strategy \in PerBin => x.bin = b /\ y.bin = b

-----------------------------------------------------------------------------
Thread == 0 .. (IF NumCores < SetSize THEN NumCores ELSE SetSize) - 1
StartPos_Zero(t) == 0         \* variant: every thread starts at the first element
StartPos(t) == (t * SetSize) \div Cardinality(Thread)
\* Variant: the remainder of the division is left out.
EndPos_Short(t) == (SetSize \div Cardinality(Thread)) * (t + 1)
EndPos(t) == ((t + 1) * SetSize) \div Cardinality(Thread)

PerFollower(v) == [p \in Followers |-> v]
\* Sets of the same size, the leader's in any order, and a server that sends
\* the same strategy to everyone.
Init ==
  /\ strategy \in Strategies
  /\ set \in [Party -> {S \in SUBSET Key : Cardinality(S) = SetSize}]
  /\ eleptr \in {f \in [Ele -> set[Leader]] : \A d, e \in Ele : f[d] = f[e] => d = e}
  /\ address \in Hashings
  /\ AS!Init
  /\ CK!Init
  /\ stage = "hash"
  /\ ot = PerFollower("start")
  /\ leaderResults = PerFollower([t \in Ele |-> {}])
  /\ received = PerFollower(<<>>)
  /\ secret = [b \in Bin |-> {}]
  /\ cursor = [t \in Thread |-> StartPos(t)]
  /\ xored = {}
  /\ found = [t \in Thread |-> {}]
  /\ garbled = {}
  /\ result = None
  /\ fstage = PerFollower("base")
  /\ sent = PerFollower(0)
  /\ toFollower = PerFollower(<<>>)
  /\ toLeader = PerFollower(<<>>)

-----------------------------------------------------------------------------
(***************************************************************************)
(* All parties: additiveSecretShare.                                       *)
(***************************************************************************)
Share(p) ==
  /\ AS!Step(p)
  /\ secret' = IF Leader \in expanded' \ expanded
               THEN [b \in Bin |-> Expansion(share'[Leader], b)]
               ELSE secret
  /\ UNCHANGED <<config, hashing, stage, ot, leaderResults, received, cursor, xored, found,
                 garbled, result, following, wires>>

-----------------------------------------------------------------------------
(***************************************************************************)
(* runAsFollower.                                                          *)
(***************************************************************************)

\* Naor-Pinkas receiver: read the sender's elements, answer with PK0.
BaseOT(p) ==
  /\ p \in expanded
  /\ fstage[p] = "base"
  /\ toFollower[p] # <<>>
  /\ toFollower' = [toFollower EXCEPT ![p] = Tail(@)]
  /\ toLeader' = [toLeader EXCEPT ![p] = Append(@, Message("PK0", {}))]
  /\ fstage' = [fstage EXCEPT ![p] = "matrix"]
  /\ UNCHANGED <<config, sharing, hashing, leading, sent>>

\* OTSenderRoutine: read the matrix; the OPRG outputs are then known.
Matrix(p) ==
  /\ fstage[p] = "matrix"
  /\ toFollower[p] # <<>>
  /\ toFollower' = [toFollower EXCEPT ![p] = Tail(@)]
  /\ fstage' = [fstage EXCEPT ![p] = "send"]
  /\ UNCHANGED <<config, sharing, hashing, leading, sent, toLeader>>

\* Masks written behind their vector may have overwritten any others.
WhatIsLeft(p, m) ==
  IF WritesPastEnd(p) THEN {Message(m.kind, some) : some \in SUBSET m.block} ELSE {m}

\* Follower::run.
SendMessage(p) ==
  /\ fstage[p] = "send"
  /\ ~Exhausts(p)
  /\ \E m \in WhatIsLeft(p, Outgoing(p)[sent[p] + 1]) :
       toLeader' = [toLeader EXCEPT ![p] = Append(@, m)]
  /\ sent' = [sent EXCEPT ![p] = @ + 1]
  /\ fstage' = [fstage EXCEPT ![p] = IF sent'[p] = NumMessages THEN "done" ELSE "send"]
  /\ UNCHANGED <<config, sharing, hashing, leading, toFollower>>

\* An overfull bin ends the process: there is no memory for the polynomial, or
\* none behind the vector.
GoDown(p) ==
  /\ fstage[p] = "send"
  /\ sent[p] = 0
  /\ Overruns(p)
  /\ fstage' = [fstage EXCEPT ![p] = "down"]
  /\ UNCHANGED <<config, sharing, hashing, leading, sent, wires>>

\* Its end of the connection is closed: a Receive of the leader returns
\* without a byte in place of every message that has not been sent.
Closed(p) ==
  /\ fstage[p] = "down"
  /\ sent[p] < NumMessages
  /\ toLeader' = [toLeader EXCEPT ![p] = Append(@, Message("nothing", {}))]
  /\ sent' = [sent EXCEPT ![p] = @ + 1]
  /\ UNCHANGED <<config, sharing, hashing, leading, fstage, toFollower>>

-----------------------------------------------------------------------------
(***************************************************************************)
(* runAsLeader.                                                            *)
(***************************************************************************)

\* cuckoo_hashing.
Hash ==
  /\ Leader \in expanded
  /\ stage = "hash"
  /\ UNCHANGED <<config, sharing, leading, following, wires>>
  /\ CK!Place \/ CK!Evict \/ CK!GiveUp \/ CK!CopyBin

StartThreads ==
  /\ stage = "hash"
  /\ hashPc = "bins"
  /\ stage' = "oprg"
  /\ UNCHANGED <<config, sharing, hashing, ot, leaderResults, received, checking, result,
                 following, wires>>

\* Naor-Pinkas sender.
OprgStart(p) ==
  /\ stage = "oprg"
  /\ ot[p] = "start"
  /\ toFollower' = [toFollower EXCEPT ![p] = Append(@, Message("C", {}))]
  /\ ot' = [ot EXCEPT ![p] = "base"]
  /\ UNCHANGED <<config, sharing, hashing, stage, leaderResults, received, checking, result,
                 following, toLeader>>

\* Variant: the matrix is not sent.
OprgFinish_NoMatrix(p) ==
  /\ ot[p] = "base"
  /\ toLeader[p] # <<>>
  /\ toLeader' = [toLeader EXCEPT ![p] = Tail(@)]
  /\ leaderResults' = [leaderResults EXCEPT ![p] = ClientOutput(p)]
  /\ ot' = [ot EXCEPT ![p] = "done"]
  /\ UNCHANGED <<config, sharing, hashing, stage, received, checking, result, following,
                 toFollower>>

\* OTReceiverRoutine: send the matrix, write this follower's outputs.
OprgFinish(p) ==
  /\ ot[p] = "base"
  /\ toLeader[p] # <<>>
  /\ toLeader' = [toLeader EXCEPT ![p] = Tail(@)]
  /\ toFollower' = [toFollower EXCEPT ![p] = Append(@, Message("matrix", {}))]
  /\ leaderResults' = [leaderResults EXCEPT ![p] = ClientOutput(p)]
  /\ ot' = [ot EXCEPT ![p] = "done"]
  /\ UNCHANGED <<config, sharing, hashing, stage, received, checking, result, following>>

\* Variant: one finished thread is enough.
JoinThreads_Any ==
  /\ stage = "oprg"
  /\ \E p \in Followers : ot[p] = "done"
  /\ stage' = "info"
  /\ UNCHANGED <<config, sharing, hashing, ot, leaderResults, received, checking, result,
                 following, wires>>

\* threadpool.join_all.
JoinThreads ==
  /\ stage = "oprg"
  /\ \A p \in Followers : ot[p] = "done"
  /\ stage' = "info"
  /\ UNCHANGED <<config, sharing, hashing, ot, leaderResults, received, checking, result,
                 following, wires>>

\* The two loops that fill CuckooHashInfo.
FillInfo ==
  /\ stage = "info"
  /\ UNCHANGED <<config, sharing, leading, following, wires>>
  /\ CK!FillBinIndex \/ CK!FillTableIndex

\* Leader::run starts one receiving thread per follower.
StartReceivers ==
  /\ stage = "info"
  /\ hashPc = "done"
  /\ stage' = "receive"
  /\ UNCHANGED <<config, sharing, hashing, ot, leaderResults, received, checking, result,
                 following, wires>>

\* receiveServerData: the thread that reads from follower p.
ReceiveMessage(p) ==
  /\ stage = "receive"
  /\ Len(received[p]) < NumMessages
  /\ toLeader[p] # <<>>
  /\ received' = [received EXCEPT ![p] = Append(@, Head(toLeader[p]))]
  /\ toLeader' = [toLeader EXCEPT ![p] = Tail(@)]
  /\ UNCHANGED <<config, sharing, hashing, stage, ot, leaderResults, checking, result,
                 following, toFollower>>

\* pthread_join of the receiving threads; Leader::run then starts the check
\* threads, TwoPartyLeader::run goes on alone.
JoinReceivers ==
  /\ stage = "receive"
  /\ \A p \in Followers : Len(received[p]) = NumMessages
  /\ stage' = IF strategy = "TWO_PARTY" THEN "find" ELSE "check"
  /\ UNCHANGED <<config, sharing, hashing, ot, leaderResults, received, checking, result,
                 following, wires>>

\* otpsi_find_intersection.  All keys of its hash table point to the buffer
\* of the lookup, so it compares hashes of the masks only; distinct masks are
\* taken to have distinct ones.  An element that is not in the table has what
\* lies before the results as its key, which is nobody's mask.  Every mask
\* that is found counts, up to the number of elements.
FindIntersection ==
  /\ stage = "find"
  /\ LET keys == {leaderResults[2][hashInfo[e].tableIndex] :
                     e \in {d \in Ele : hashInfo[d].tableIndex # Null}}
         matches == Cardinality({x \in received[2][1].block : x.mask \in keys})
     IN  result' = IF matches < SetSize THEN matches ELSE SetSize
  /\ stage' = "done"
  /\ UNCHANGED <<config, sharing, hashing, ot, leaderResults, received, checking,
                 following, wires>>

-----------------------------------------------------------------------------
(***************************************************************************)
(* checkElementsInThread.                                                  *)
(***************************************************************************)
Running(t) == stage = "check" /\ cursor[t] < EndPos(t)
Skipped(e) == hashInfo[e].binIndex = Null \/ hashInfo[e].tableIndex = Null
Advance(t) == cursor' = [cursor EXCEPT ![t] = @ + 1]

\* The element was not inserted: continue.
CheckSkip(t) ==
  /\ Running(t)
  /\ Skipped(cursor[t])
  /\ Advance(t)
  /\ UNCHANGED <<config, sharing, hashing, stage, ot, leaderResults, received, secret, xored,
                 found, garbled, result, following, wires>>

\* XOR the OPRG outputs of all followers into the share of the bin.
CheckXor(t) ==
  /\ Running(t)
  /\ t \notin xored
  /\ ~Skipped(cursor[t])
  /\ LET info == hashInfo[cursor[t]]
         Output(p) == leaderResults[p][info.tableIndex]
     IN  secret' = [secret EXCEPT ![info.binIndex] = Xor(@, XorOver(Followers, Output))]
  /\ xored' = xored \cup {t}
  /\ UNCHANGED <<config, sharing, hashing, stage, ot, leaderResults, received, cursor, found,
                 garbled, result, following, wires>>

\* End of an iteration: isElementInAllSets returned hit and left rest in place.
CheckEnd(t, hit, rest) ==
  /\ found' = IF hit THEN [found EXCEPT ![t] = @ \cup {cursor[t]}] ELSE found
  /\ secret' = [secret EXCEPT ![hashInfo[cursor[t]].binIndex] = rest]
  /\ xored' = xored \ {t}
  /\ Advance(t)
  /\ UNCHANGED <<config, sharing, hashing, stage, ot, leaderResults, received, result,
                 following, wires>>

\* One candidate of each follower gives the rest.
SomeCombination(info, rest) ==
  LET Tried(p) == Candidates(p, info.hashedBy, info.binIndex)
      Choices == {c \in [Followers -> UNION {Tried(p) : p \in Followers}] :
                    \A p \in Followers : c[p] \in Tried(p)}
  IN  \E c \in Choices : XorOver(Followers, LAMBDA p : c[p]) = rest

\* isZeroXOR: every combination; the XORs of one that fails are taken back.
CheckSearch(t) ==
  /\ Running(t)
  /\ t \in xored
  /\ strategy \in Exhaustive
  /\ LET info == hashInfo[cursor[t]]
         hit == SomeCombination(info, secret[info.binIndex])
     IN  CheckEnd(t, hit, IF hit THEN {} ELSE secret[info.binIndex])
  /\ UNCHANGED garbled

\* isZeroXOR of the inverse leaders, which leaves the share as it is.  It
\* finds what the search finds if the masks are independent, and may answer
\* anything if not (see Elimination).
CheckSolve(t) ==
  /\ Running(t)
  /\ t \in xored
  /\ strategy \in Gauss
  /\ LET e == cursor[t]
         info == hashInfo[e]
         rest == secret[info.binIndex]
     IN  IF Dependent(info.hashedBy, info.binIndex)
         THEN /\ \E hit \in BOOLEAN : CheckEnd(t, hit, rest)
              /\ garbled' = garbled \cup {eleptr[e]}
         ELSE /\ CheckEnd(t, SomeCombination(info, rest), rest)
              /\ UNCHANGED garbled

\* isElementInAllSets of the polynomial leaders and of GBFLeader.  For a
\* follower in wrong the string XORed is not the mask: convertElementToBytes
\* drops leading zero bytes, and XOR reads past the end of the vector; or all
\* slots of the element were taken when it was added to the filter.
CheckEvaluate(t) ==
  /\ Running(t)
  /\ t \in xored
  /\ strategy \in Evaluated
  /\ \E wrong \in SUBSET Followers :
       LET e == cursor[t]
           info == hashInfo[e]
           Read(p) == IF p \in wrong THEN {<<"rand", p, Cardinality(HF), eleptr[e]>>}
                      ELSE Evaluation(p, info.hashedBy, info.binIndex, eleptr[e])
           rest == Xor(secret[info.binIndex], XorOver(Followers, Read))
       IN  /\ CheckEnd(t, rest = {}, rest)
           /\ garbled' = IF wrong = {} THEN garbled ELSE garbled \cup {eleptr[e]}

\* Leader::run joins the check threads and adds up numFound.
Publish ==
  /\ stage = "check"
  /\ \A t \in Thread : ~Running(t)
  /\ result' = Cardinality(UNION {{<<t, e>> : e \in found[t]} : t \in Thread})
  /\ stage' = "done"
  /\ UNCHANGED <<config, sharing, hashing, ot, leaderResults, received, checking,
                 following, wires>>

FollowerStep(p) == BaseOT(p) \/ Matrix(p) \/ SendMessage(p) \/ GoDown(p) \/ Closed(p)
LeaderMain == Hash \/ StartThreads \/ JoinThreads \/ FillInfo \/ StartReceivers
                \/ JoinReceivers \/ FindIntersection \/ Publish
LeaderThread(p) == OprgStart(p) \/ OprgFinish(p) \/ ReceiveMessage(p)
CheckThread(t) == CheckSkip(t) \/ CheckXor(t) \/ CheckSearch(t) \/ CheckSolve(t)
                    \/ CheckEvaluate(t)

Next ==
  \/ \E p \in Party : Share(p)
  \/ LeaderMain
  \/ \E p \in Followers : LeaderThread(p) \/ FollowerStep(p)
  \/ \E t \in Thread : CheckThread(t)

Spec == Init /\ [][Next]_vars

\* Every process and thread runs until it ends: nothing here waits on a lock.
FairSpec ==
  /\ Spec
  /\ \A p \in Party : WF_vars(Share(p))
  /\ WF_vars(LeaderMain)
  /\ \A p \in Followers : WF_vars(LeaderThread(p)) /\ WF_vars(FollowerStep(p))
  /\ \A t \in Thread : WF_vars(CheckThread(t))

-----------------------------------------------------------------------------
(***************************************************************************)
(* Properties.                                                             *)
(***************************************************************************)

Intersection == {k \in Key : \A p \in Party : k \in set[p]}

\* Elements of p whose masks do not reach their bins by hash function j: those
\* beyond the slots of an overfull bin, whatever the masks of the other bins do
\* (SimpleHashingNaiveFollower.cpp:39-45); where an overfull bin leads out of
\* the vector or ends p, those that did not arrive.
Spilt(p, j) ==
  {k \in set[p] :
     IF Overruns(p) THEN \A x \in ReceivedBlock(p, j) : x.key = k => x.bin # address[k][j]
                    ELSE strategy \in Slotted /\ Rank(p, j, k) >= MaxBinSize}

\* Elements of the leader that overfull bins keep it from finding.
Hidden ==
  {eleptr[e] : e \in {d \in Ele : \E p \in Followers :
                         eleptr[d] \in Spilt(p, hashInfo[d].hashedBy)}}

\* The hash function is no part of the value in a bin: another element of the
\* follower with the same value, hashed there by another function, has the
\* mask of the leader's element.  TwoPartyLeader looks at all masks at once.
Mistakable ==
  \E e \in Ele, m \in set[2], j \in HF :
    /\ m # eleptr[e]
    /\ Value[m] = Value[eleptr[e]]
    /\ address[m][j] = hashInfo[e].binIndex

\* When no insertion failed and every value was read right, the size the
\* coordinator compares (runner.py:179-185) is the size of the intersection
\* but for the elements overfull bins hide, and those alone; with TWO_PARTY only
\* if no two elements can be mistaken for each other.
ExactWhenHashed ==
  result # None /\ reported = {} /\ garbled = {} /\ ~(strategy = "TWO_PARTY" /\ Mistakable)
    => result = Cardinality(Intersection \ Hidden)

\* With a complete hash table the published size is the size of the
\* intersection: the coordinator calls everything else an error (runner.py:182).
PublishedIsRight ==
  result # None /\ reported = {} => result = Cardinality(Intersection)

\* A check thread finds in the share of its bin exactly what it put there:
\* the bins of the threads never meet, although m_secretShare is shared and
\* changed without a lock (Leader.cpp:31, NaiveLeader.cpp:33-35).
OnlyOwnXor ==
  \A t \in xored :
    LET info == hashInfo[cursor[t]]
        Output(p) == leaderResults[p][info.tableIndex]
    IN  secret[info.binIndex] = Xor(Expansion(share[Leader], info.binIndex),
                                    XorOver(Followers, Output))

\* Nothing but its place in the stream says what a message is: the leader never
\* takes one for another, and when the size is out it has read everything that
\* the followers have sent, by lengths both sides compute on their own.  Only a
\* follower with an overfull bin has not sent it all.
StreamsAgree ==
  /\ \A p \in Followers :
       toLeader[p] # <<>> => /\ ot[p] = "base" => Head(toLeader[p]).kind = "PK0"
                             /\ stage = "receive" =>
                                  \/ fstage[p] = "down" /\ Head(toLeader[p]).kind = "nothing"
                                  \/ Head(toLeader[p]).kind =
                                       IF strategy = "BLOOM_FILTER" /\ received[p] = <<>>
                                       THEN "keys" ELSE "block"
  /\ result # None =>
       \A p \in Followers : /\ \/ fstage[p] = "done"
                               \/ fstage[p] = "down" /\ Overruns(p)
                            /\ toFollower[p] = <<>> /\ toLeader[p] = <<>>

\* Elements of the leader that its check cannot find.
Lost ==
  garbled \cup (IF stage \in {"receive", "find", "check", "done"}
                THEN {eleptr[e] : e \in {d \in Ele : d \notin CK!InTable
                                                      \/ ~CK!InfoMatchesTable(d)}}
                ELSE {})
          \cup IF stage \in {"check", "done"} THEN Hidden ELSE {}

\* The protocol implements the abstract intersection: it publishes once, and
\* the size of the intersection of the initial sets without the lost elements.
\* It never counts an element that is not in every set, even when an insertion
\* failed and element 0 is checked in another bin (PsiParty.cpp:213-216).
Abstract == INSTANCE Psi WITH lost <- Lost
ImplementsPsi == Abstract!Spec

\* Every run ends with a published size and with all the followers done, but
\* for those an overfull bin has ended.
RunEnds == <>(result # None /\ \A p \in Followers : fstage[p] \in {"done", "down"})
=============================================================================
