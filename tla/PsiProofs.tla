----------------------------- MODULE PsiProofs -----------------------------
(***************************************************************************)
(* Proofs about PsiProtocol for every number of parties, elements, bins    *)
(* and cores, every hashing and every strategy: first that the two sides   *)
(* of a connection understand each other, then that a run counts the       *)
(* intersection and implements Psi.                                        *)
(*                                                                         *)
(* What the leader and a follower say to each other is a script: C and the *)
(* matrix one way; PK0 and then NumMessages messages the other way.  Where *)
(* the two are says how much of it each has said and read; what lies on    *)
(* the connection is the part in between, in the order of the script.      *)
(***************************************************************************)
EXTENDS PsiProtocol, FiniteSetTheorems, SequenceTheorems, TLAPS

-----------------------------------------------------------------------------
(***************************************************************************)
(* What holds of the queues, whatever the messages are.                    *)
(***************************************************************************)

IsSeq(s) == s \in Seq({s[i] : i \in DOMAIN s})

\* Any sequence over some set is a sequence over its own elements.
LEMMA SeqIsSeq ==
  ASSUME NEW S, NEW s \in Seq(S)
  PROVE  IsSeq(s)
<1>. DEFINE R == {s[i] : i \in DOMAIN s}
<1>1. s \in [1 .. Len(s) -> S] /\ Len(s) \in Nat
  BY LenProperties
<1>2. s \in [1 .. Len(s) -> R]
  BY <1>1
<1>. QED BY <1>1, <1>2, SeqDef DEF IsSeq

\* A message put at the end of a queue is its last.
LEMMA AppendSeq ==
  ASSUME NEW s, IsSeq(s), NEW m
  PROVE  /\ IsSeq(Append(s, m))
         /\ Len(s) \in Nat
         /\ Len(Append(s, m)) = Len(s) + 1
         /\ \A i \in 1 .. Len(s) : Append(s, m)[i] = s[i]
         /\ Append(s, m)[Len(s) + 1] = m
<1>. DEFINE R == {s[i] : i \in DOMAIN s}
            Q == R \cup {m}
<1>1. s \in Seq(R) /\ R \subseteq Q /\ m \in Q
  BY DEF IsSeq
<1>2. s \in Seq(Q)
  <2>1. s \in [1 .. Len(s) -> R] /\ Len(s) \in Nat
    BY <1>1, LenProperties
  <2>. HIDE DEF R
  <2>2. s \in [1 .. Len(s) -> Q]
    BY <2>1
  <2>. QED BY <2>1, <2>2, SeqDef
<1>. HIDE DEF R, Q
<1>3. /\ Append(s, m) \in Seq(Q)
      /\ Len(Append(s, m)) = Len(s) + 1
      /\ \A i \in 1 .. Len(s) : Append(s, m)[i] = s[i]
      /\ Append(s, m)[Len(s) + 1] = m
  BY <1>1, <1>2, AppendProperties
<1>4. IsSeq(Append(s, m))
  BY <1>3, SeqIsSeq
<1>5. Len(s) \in Nat
  BY <1>2, LenProperties
<1>. QED BY <1>3, <1>4, <1>5

\* A queue that is not empty has a first message, and the rest moves up.
LEMMA TailSeq ==
  ASSUME NEW s, IsSeq(s), s # <<>>
  PROVE  /\ IsSeq(Tail(s))
         /\ Len(s) \in Nat \ {0}
         /\ Len(Tail(s)) = Len(s) - 1
         /\ Head(s) = s[1]
         /\ \A i \in 1 .. Len(s) - 1 : Tail(s)[i] = s[i + 1]
<1>. DEFINE R == {s[i] : i \in DOMAIN s}
<1>1. s \in Seq(R)
  BY DEF IsSeq
<1>. HIDE DEF R
<1>2. /\ Tail(s) \in Seq(R)
      /\ Len(Tail(s)) = Len(s) - 1
      /\ \A i \in 1 .. Len(Tail(s)) : Tail(s)[i] = s[i + 1]
  BY <1>1, HeadTailProperties
<1>3. IsSeq(Tail(s))
  BY <1>2, SeqIsSeq
<1>4. Len(s) \in Nat \ {0} /\ Head(s) = s[1]
  BY <1>1, EmptySeq
<1>. QED BY <1>2, <1>3, <1>4

\* Only the empty queue has no message.
LEMMA NoMessage == IsSeq(<<>>) /\ Len(<<>>) = 0
<1>1. <<>> \in Seq({}) /\ Len(<<>>) = 0
  BY EmptySeq
<1>. QED BY <1>1, SeqIsSeq

LEMMA EmptyQueue ==
  ASSUME NEW s, IsSeq(s)
  PROVE  Len(s) \in Nat /\ (Len(s) = 0 <=> s = <<>>)
<1>. DEFINE R == {s[i] : i \in DOMAIN s}
<1>1. s \in Seq(R)
  BY DEF IsSeq
<1>. HIDE DEF R
<1>. QED BY <1>1, EmptySeq

-----------------------------------------------------------------------------
(***************************************************************************)
(* The invariant.                                                          *)
(***************************************************************************)

OtState == {"start", "base", "done"}
Stage == {"hash", "oprg", "info", "receive", "find", "check", "done"}
FStage == {"base", "matrix", "send", "done", "down"}

\* What the leader has said to p, and p has read of it.
SaidTo(p) == CASE ot[p] = "start" -> 0 [] ot[p] = "base" -> 1 [] OTHER -> 2
ReadBy(p) == CASE fstage[p] = "base" -> 0 [] fstage[p] = "matrix" -> 1 [] OTHER -> 2

\* What p has said to the leader, and the leader has read of it.
SaidBy(p) == IF fstage[p] = "base" THEN 0 ELSE 1 + sent[p]
ReadOf(p) == IF ot[p] = "done" THEN 1 + Len(received[p]) ELSE 0

\* The k-th message of p to the leader, and its kind.
Script(p, k) == IF k = 1 THEN Message("PK0", {}) ELSE Outgoing(p)[k - 1]
KindOf(k) ==
  IF k = 1 THEN "PK0" ELSE IF k = 2 /\ strategy = "BLOOM_FILTER" THEN "keys" ELSE "block"

\* What the leader reads in the place of that message.
Says(p, k, m) ==
  /\ \/ m.kind = Script(p, k).kind
     \/ k # 1 /\ fstage[p] = "down" /\ m.kind = "nothing"
  /\ m.block \subseteq Script(p, k).block
  /\ ~Overruns(p) => m = Script(p, k)

WireType ==
  /\ strategy \in Strategy
  /\ stage \in Stage
  /\ ot \in [Followers -> OtState]
  /\ fstage \in [Followers -> FStage]
  /\ sent \in [Followers -> Nat]
  /\ DOMAIN share = Party
  /\ DOMAIN received = Followers
  /\ DOMAIN toFollower = Followers
  /\ DOMAIN toLeader = Followers
  /\ \A p \in Followers :
       IsSeq(received[p]) /\ IsSeq(toFollower[p]) /\ IsSeq(toLeader[p])

\* How far each of the two is.
Progress(p) ==
  /\ sent[p] <= NumMessages
  /\ fstage[p] # "base" => p \in expanded
  /\ fstage[p] \in {"base", "matrix"} => sent[p] = 0
  /\ fstage[p] = "send" => sent[p] < NumMessages
  /\ fstage[p] = "done" => sent[p] = NumMessages
  /\ Len(received[p]) <= NumMessages
  /\ ot[p] # "done" => Len(received[p]) = 0 /\ stage \in {"hash", "oprg"}
  /\ received[p] # <<>> => stage \notin {"hash", "oprg", "info"}
  /\ stage \in {"find", "check", "done"} => Len(received[p]) = NumMessages

\* What lies on the connection and what the leader has stored of it.
Wire(p) ==
  /\ ReadBy(p) + Len(toFollower[p]) = SaidTo(p)
  /\ ReadOf(p) + Len(toLeader[p]) = SaidBy(p)
  /\ \A i \in 1 .. Len(toLeader[p]) : Says(p, ReadOf(p) + i, toLeader[p][i])
  /\ \A i \in 1 .. Len(received[p]) : Says(p, i + 1, received[p][i])

WireInv ==
  /\ WireType
  /\ \A p \in Followers : Progress(p) /\ Wire(p)
  /\ result # None => stage = "done"

\* Only an overfull bin ends a follower.
Ended == \A p \in Followers : fstage[p] = "down" => Overruns(p)

-----------------------------------------------------------------------------
(***************************************************************************)
(* Everything a follower sends for its elements has the kind its place in  *)
(* the script says.                                                        *)
(***************************************************************************)
LEMMA ThreeFunctions == Cardinality(HF) = 3
<1>1. 0 \in Int /\ 2 \in Int
  OBVIOUS
<1>2. Cardinality(0 .. 2) = IF 0 > 2 THEN 0 ELSE 2 - 0 + 1
  BY ONLY <1>1, FS_Interval
<1>. QED BY <1>2 DEF HF

LEMMA MessageCount ==
  /\ NumMessages \in Nat \ {0}
  /\ strategy = "TWO_PARTY" => NumMessages = 1
  /\ strategy = "BLOOM_FILTER" => NumMessages = 4
  /\ strategy \notin {"TWO_PARTY", "BLOOM_FILTER"} => NumMessages = 3
BY ThreeFunctions DEF NumMessages

LEMMA OutgoingKinds ==
  ASSUME NEW p, NEW k \in 1 .. NumMessages
  PROVE  Outgoing(p)[k].kind = KindOf(k + 1)
<1>. DEFINE blocks == [i \in 1 .. 3 |-> Message("block", Block(p, i - 1))]
<1>1. \A i \in 1 .. 3 : blocks[i].kind = "block"
  BY DEF Message
<1>2. CASE strategy = "TWO_PARTY"
  <2>1. Outgoing(p) = <<Message("block", AllMasks(p))>> /\ k = 1
    BY <1>2, MessageCount DEF Outgoing
  <2>. QED BY <2>1, <1>2 DEF Message, KindOf
<1>3. CASE strategy = "BLOOM_FILTER"
  <2>1. Outgoing(p) = <<Message("keys", {})>> \o blocks /\ k \in 1 .. 4
    BY <1>3, MessageCount, ThreeFunctions DEF Outgoing
  <2>2. blocks \in Seq({blocks[i] : i \in 1 .. 3}) /\ Len(blocks) = 3
    OBVIOUS
  <2>. DEFINE first == <<Message("keys", {})>>
  <2>3. first \in Seq({Message("keys", {})}) /\ Len(first) = 1 /\ first[1].kind = "keys"
    BY DEF Message
  <2>. DEFINE R == {blocks[i] : i \in 1 .. 3} \cup {Message("keys", {})}
  <2>4. first \in Seq(R) /\ blocks \in Seq(R)
    OBVIOUS
  <2>. HIDE DEF blocks, first, R
  <2>5. CASE k = 1
    BY <2>1, <2>2, <2>3, <2>4, <2>5, <1>3, ConcatProperties DEF KindOf, first
  <2>6. CASE k # 1
    <3>1. k - 1 \in 1 .. 3 /\ k \in 1 .. Len(first) + Len(blocks) /\ ~(k <= Len(first))
      BY <2>1, <2>2, <2>3, <2>6
    <3>2. (first \o blocks)[k] = blocks[k - Len(first)]
      BY <3>1, <2>4, ConcatProperties
    <3>3. Outgoing(p)[k].kind = "block"
      BY <3>1, <3>2, <2>1, <2>3, <1>1 DEF first
    <3>4. KindOf(k + 1) = "block"
      BY <2>1, <2>6 DEF KindOf
    <3>. QED BY <3>3, <3>4
  <2>. QED BY <2>5, <2>6
<1>4. CASE strategy \notin {"TWO_PARTY", "BLOOM_FILTER"}
  <2>1. Outgoing(p) = blocks /\ k \in 1 .. 3
    BY <1>4, MessageCount, ThreeFunctions DEF Outgoing
  <2>. QED BY <2>1, <1>1, <1>4 DEF KindOf
<1>. QED BY <1>2, <1>3, <1>4

-----------------------------------------------------------------------------
(***************************************************************************)
(* Every step keeps the invariant.                                         *)
(***************************************************************************)

\* What becomes of the masks depends on the set and on the hashing only.
LEMMA SlotsSame ==
  ASSUME NEW q, UNCHANGED <<strategy, set, address>>
  PROVE  /\ UNCHANGED Overruns(q)
         /\ \A j : Kept(q, j)' = Kept(q, j)
         /\ \A j, k : BinFor(q, j, k)' = BinFor(q, j, k) /\ Rank(q, j, k)' = Rank(q, j, k)
<1>1. \A j, k : Rank(q, j, k)' = Rank(q, j, k)
  BY DEF Rank
<1>2. \A j, k : Slot(q, j, k)' = Slot(q, j, k)
  BY <1>1 DEF Slot
<1>3. \A j : Kept(q, j)' = Kept(q, j)
  BY <1>2 DEF Kept
<1>4. \A j, k : BinFor(q, j, k)' = BinFor(q, j, k)
  BY <1>2 DEF BinFor
<1>5. Exhausts(q)' = Exhausts(q)
  BY <1>1 DEF Exhausts, Overfull
<1>6. WritesPastEnd(q)' = WritesPastEnd(q)
  BY <1>2 DEF WritesPastEnd
<1>. QED BY <1>1, <1>3, <1>4, <1>5, <1>6 DEF Overruns

\* What a follower says depends on its set, on the hashing and on its share.
LEMMA ScriptSame ==
  ASSUME NEW q, UNCHANGED <<strategy, set, address, share[q]>>
  PROVE  \A k : Script(q, k)' = Script(q, k)
<1>1. \A k, j : Mask(q, k, j)' = Mask(q, k, j)
  BY DEF Mask, ServerValue, Expansion, Xor, AS!Xor
<1>2. \A j : Block(q, j)' = Block(q, j)
  BY <1>1, SlotsSame DEF Block
<1>3. AllMasks(q)' = AllMasks(q)
  BY DEF AllMasks, ServerValue
<1>4. Outgoing(q)' = Outgoing(q)
  BY <1>2, <1>3 DEF Outgoing
<1>. QED BY <1>4 DEF Script

\* So what it has said stays in its place.
LEMMA SaysStays ==
  ASSUME NEW q, UNCHANGED <<strategy, set, address, share[q]>>,
         fstage[q] = "down" => fstage'[q] = "down"
  PROVE  \A k, m : Says(q, k, m) => Says(q, k, m)'
<1>1. (\A k : Script(q, k)' = Script(q, k)) /\ Overruns(q)' = Overruns(q)
  BY ScriptSame, SlotsSame
<1>2. ASSUME NEW k, NEW m, Says(q, k, m) PROVE Says(q, k, m)'
  <2>. DEFINE o == Script(q, k)
  <2>1. /\ m.kind = o.kind \/ (k # 1 /\ fstage[q] = "down" /\ m.kind = "nothing")
        /\ m.block \subseteq o.block
        /\ ~Overruns(q) => m = o
        /\ o' = o /\ Overruns(q)' = Overruns(q)
    BY <1>1, <1>2 DEF Says
  <2>. QED BY <2>1 DEF Says
<1>. QED BY <1>2

\* The queues between the leader and q are as they were if neither has moved.
LEMMA Frame ==
  ASSUME NEW q \in Followers, Progress(q), Wire(q),
         UNCHANGED <<stage, config, share, expanded, ot[q], fstage[q], sent[q], received[q],
                     toFollower[q], toLeader[q]>>
  PROVE  Progress(q)' /\ Wire(q)'
<1>1. UNCHANGED <<SaidTo(q), ReadBy(q), SaidBy(q), ReadOf(q), NumMessages>>
  BY DEF SaidTo, ReadBy, SaidBy, ReadOf, NumMessages, config
<1>2. Progress(q)'
  BY <1>1 DEF Progress
<1>3. \A k, m : Says(q, k, m) => Says(q, k, m)'
  BY SaysStays DEF config
<1>4. /\ \A i \in 1 .. Len(toLeader[q]) : Says(q, ReadOf(q) + i, toLeader[q][i])'
      /\ \A i \in 1 .. Len(received[q]) : Says(q, i + 1, received[q][i])'
  BY <1>1, <1>3 DEF Wire
<1>5. Wire(q)'
  BY <1>1, <1>4 DEF Wire
<1>. QED BY <1>2, <1>5

LEMMA WireInit == Init => WireInv
<1>. SUFFICES ASSUME Init PROVE WireInv
  OBVIOUS
<1>1. WireType
  <2>1. strategy \in Strategy /\ stage \in Stage
    BY SizesAssumption DEF Init, Stage
  <2>2. /\ ot \in [Followers -> OtState] /\ fstage \in [Followers -> FStage]
        /\ sent \in [Followers -> Nat]
    BY DEF Init, PerFollower, OtState, FStage
  <2>3. ASSUME NEW p \in Followers
        PROVE  IsSeq(received[p]) /\ IsSeq(toFollower[p]) /\ IsSeq(toLeader[p])
    BY NoMessage DEF Init, PerFollower
  <2>4. DOMAIN received = Followers /\ DOMAIN toFollower = Followers /\ DOMAIN toLeader = Followers
    BY DEF Init, PerFollower
  <2>5. DOMAIN share = Party
    BY DEF Init, AS!Init, AS!Party, Party
  <2>. QED BY <2>1, <2>2, <2>3, <2>4, <2>5 DEF WireType
<1>2. ASSUME NEW p \in Followers PROVE Progress(p) /\ Wire(p)
  <2>1. /\ ot[p] = "start" /\ fstage[p] = "base" /\ sent[p] = 0 /\ stage = "hash"
        /\ received[p] = <<>> /\ toFollower[p] = <<>> /\ toLeader[p] = <<>>
    BY DEF Init, PerFollower
  <2>2. Progress(p)
    BY <2>1, NoMessage, MessageCount DEF Progress
  <2>3. Wire(p)
    BY <2>1, NoMessage DEF Wire, SaidTo, ReadBy, SaidBy, ReadOf
  <2>. QED BY <2>2, <2>3
<1>3. result = None
  BY DEF Init
<1>. QED BY <1>1, <1>2, <1>3 DEF WireInv

LEMMA WireBaseOT ==
  ASSUME WireInv, NEW p \in Followers, BaseOT(p)
  PROVE  WireInv'
<1>. DEFINE s == toFollower[p]
            t == toLeader[p]
            m == Message("PK0", {})
<1>1. /\ s # <<>> /\ fstage[p] = "base" /\ IsSeq(s) /\ IsSeq(t) /\ Says(p, 1, m)
      /\ p \in expanded
      /\ toFollower' = [toFollower EXCEPT ![p] = Tail(s)]
      /\ toLeader' = [toLeader EXCEPT ![p] = Append(t, m)]
      /\ fstage' = [fstage EXCEPT ![p] = "matrix"]
      /\ UNCHANGED <<config, share, expanded, strategy, stage, ot, received, result, sent>>
  BY DEF BaseOT, WireInv, WireType, config, sharing, leading, Script, Says, Message
<1>. HIDE DEF m
<1>2. toFollower'[p] = Tail(s) /\ toLeader'[p] = Append(t, m) /\ fstage'[p] = "matrix"
  BY <1>1 DEF WireInv, WireType
<1>. HIDE DEF s, t
<1>3. WireType'
  BY <1>1, <1>2, TailSeq, AppendSeq DEF WireInv, WireType, FStage
<1>4. ASSUME NEW q \in Followers PROVE Progress(q)' /\ Wire(q)'
  <2>1. CASE q # p
    BY <2>1, <1>1, Frame DEF WireInv, WireType
  <2>2. CASE q = p
    <3>1. Progress(p) /\ Wire(p)
      BY DEF WireInv
    <3>2. NumMessages' = NumMessages /\ NumMessages \in Nat \ {0}
      BY <1>1, MessageCount DEF NumMessages
    <3>3. Progress(p)'
      BY <3>1, <3>2, <1>1, <1>2 DEF Progress
    <3>4. ReadBy(p) = 0 /\ ReadBy(p)' = 1 /\ SaidTo(p)' = SaidTo(p)
      BY <1>1, <1>2 DEF ReadBy, SaidTo
    <3>5. ReadBy(p)' + Len(toFollower'[p]) = SaidTo(p)'
      <4>1. 0 + Len(s) = SaidTo(p)
        BY <3>1, <3>4 DEF Wire, s
      <4>2. Len(toFollower'[p]) = Len(s) - 1 /\ Len(s) \in Nat
        BY <1>1, <1>2, TailSeq
      <4>. QED BY <4>1, <4>2, <3>4
    <3>6. SaidBy(p) = 0 /\ SaidBy(p)' = 1 /\ ReadOf(p)' = ReadOf(p) /\ ReadOf(p) \in Nat
      BY <3>1, <1>1, <1>2, EmptyQueue DEF SaidBy, ReadOf, Progress, WireInv, WireType
    <3>7. ReadOf(p) = 0 /\ Len(t) = 0
      BY <3>1, <3>6, <1>1, EmptyQueue DEF Wire, t
    <3>8. Len(toLeader'[p]) = 1 /\ toLeader'[p][1] = m
      BY <3>7, <1>1, <1>2, AppendSeq
    <3>9. \A k, w : Says(p, k, w) => Says(p, k, w)'
      BY <1>1, SaysStays DEF config
    <3>10. /\ ReadOf(p)' + Len(toLeader'[p]) = SaidBy(p)'
           /\ \A i \in 1 .. Len(toLeader'[p]) : Says(p, ReadOf(p) + i, toLeader[p][i])'
      <4>1. Says(p, 1, m)' /\ toLeader'[p][1] = m
        BY <3>8, <3>9, <1>1
      <4>2. Says(p, 1, toLeader[p][1])'
        BY <4>1
      <4>3. \A i \in 1 .. Len(toLeader'[p]) : i = 1 /\ ReadOf(p)' + i = 1
        BY <3>6, <3>7, <3>8
      <4>. QED BY <4>2, <4>3, <3>6, <3>7, <3>8
    <3>11. \A i \in 1 .. Len(received'[p]) : Says(p, i + 1, received[p][i])'
      BY <3>1, <3>9, <1>1 DEF Wire
    <3>. QED BY <2>2, <3>3, <3>5, <3>10, <3>11 DEF Wire
  <2>. QED BY <2>1, <2>2
<1>. QED BY <1>1, <1>3, <1>4 DEF WireInv

LEMMA WireMatrix ==
  ASSUME WireInv, NEW p \in Followers, Matrix(p)
  PROVE  WireInv'
<1>. DEFINE s == toFollower[p]
<1>1. /\ s # <<>> /\ fstage[p] = "matrix" /\ IsSeq(s)
      /\ toFollower' = [toFollower EXCEPT ![p] = Tail(s)]
      /\ fstage' = [fstage EXCEPT ![p] = "send"]
      /\ UNCHANGED <<config, share, expanded, strategy, stage, ot, received, result, sent, toLeader>>
  BY DEF Matrix, WireInv, WireType, config, sharing, leading
<1>2. toFollower'[p] = Tail(s) /\ fstage'[p] = "send"
  BY <1>1 DEF WireInv, WireType
<1>. HIDE DEF s
<1>3. WireType'
  BY <1>1, <1>2, TailSeq DEF WireInv, WireType, FStage
<1>4. ASSUME NEW q \in Followers PROVE Progress(q)' /\ Wire(q)'
  <2>1. CASE q # p
    BY <2>1, <1>1, Frame DEF WireInv, WireType
  <2>2. CASE q = p
    <3>1. Progress(p) /\ Wire(p)
      BY DEF WireInv
    <3>2. NumMessages' = NumMessages /\ NumMessages \in Nat \ {0}
      BY <1>1, MessageCount DEF NumMessages
    <3>3. Progress(p)'
      BY <3>1, <3>2, <1>1, <1>2 DEF Progress
    <3>4. ReadBy(p) = 1 /\ ReadBy(p)' = 2 /\ SaidTo(p)' = SaidTo(p)
      BY <1>1, <1>2 DEF ReadBy, SaidTo
    <3>5. ReadBy(p)' + Len(toFollower'[p]) = SaidTo(p)'
      <4>1. 1 + Len(s) = SaidTo(p)
        BY <3>1, <3>4 DEF Wire, s
      <4>2. Len(toFollower'[p]) = Len(s) - 1 /\ Len(s) \in Nat
        BY <1>1, <1>2, TailSeq
      <4>. QED BY <4>1, <4>2, <3>4
    <3>6. SaidBy(p)' = SaidBy(p) /\ ReadOf(p)' = ReadOf(p)
      BY <1>1, <1>2 DEF SaidBy, ReadOf
    <3>7. \A k, w : Says(p, k, w) => Says(p, k, w)'
      BY <1>1, <1>2, SaysStays DEF config
    <3>8. /\ \A i \in 1 .. Len(toLeader'[p]) : Says(p, ReadOf(p) + i, toLeader[p][i])'
          /\ \A i \in 1 .. Len(received'[p]) : Says(p, i + 1, received[p][i])'
      BY <3>1, <3>6, <3>7, <1>1 DEF Wire
    <3>9. ReadOf(p)' + Len(toLeader'[p]) = SaidBy(p)'
      BY <3>1, <3>6, <1>1 DEF Wire
    <3>. QED BY <2>2, <3>3, <3>5, <3>8, <3>9 DEF Wire
  <2>. QED BY <2>1, <2>2
<1>. QED BY <1>1, <1>3, <1>4 DEF WireInv

\* The next message, or what the leader reads in its place, joins the queue.
LEMMA WireSay ==
  ASSUME WireInv, NEW p \in Followers, NEW m, Says(p, sent[p] + 2, m),
         fstage[p] = "send" \/ (fstage[p] = "down" /\ sent[p] < NumMessages),
         toLeader' = [toLeader EXCEPT ![p] = Append(toLeader[p], m)],
         sent' = [sent EXCEPT ![p] = sent[p] + 1],
         fstage' = IF fstage[p] = "down" THEN fstage
                   ELSE [fstage EXCEPT ![p] = IF sent[p] + 1 = NumMessages THEN "done" ELSE "send"],
         UNCHANGED <<config, sharing, leading, toFollower>>
  PROVE  WireInv'
<1>. DEFINE t == toLeader[p]
<1>1. /\ IsSeq(t) /\ sent[p] \in Nat
      /\ toLeader' = [toLeader EXCEPT ![p] = Append(t, m)]
      /\ UNCHANGED <<config, share, expanded, strategy, stage, ot, received, result, toFollower>>
  BY DEF WireInv, WireType, config, sharing, leading
<1>2. Progress(p) /\ Wire(p)
  BY DEF WireInv
<1>3. NumMessages' = NumMessages /\ NumMessages \in Nat \ {0}
  BY <1>1, MessageCount DEF NumMessages
<1>4. sent[p] < NumMessages
  BY <1>1, <1>2 DEF Progress
<1>5. (fstage[p] = "down" => fstage'[p] = "down") /\ \A q \in Followers \ {p} : fstage'[q] = fstage[q]
  BY DEF WireInv, WireType
<1>6. /\ toLeader'[p] = Append(t, m) /\ sent'[p] = sent[p] + 1
      /\ fstage[p] # "down" =>
           fstage'[p] = IF sent[p] + 1 = NumMessages THEN "done" ELSE "send"
  BY <1>1 DEF WireInv, WireType
<1>. HIDE DEF t
<1>7. WireType'
  <2>1. sent' \in [Followers -> Nat] /\ fstage' \in [Followers -> FStage]
    BY <1>1 DEF WireInv, WireType, FStage
  <2>2. DOMAIN toLeader' = Followers /\ \A q \in Followers : IsSeq(toLeader'[q])
    BY <1>1, <1>6, AppendSeq DEF WireInv, WireType
  <2>. QED BY <1>1, <2>1, <2>2 DEF WireInv, WireType
<1>8. ASSUME NEW q \in Followers PROVE Progress(q)' /\ Wire(q)'
  <2>1. CASE q # p
    BY <2>1, <1>1, <1>5, Frame DEF WireInv, WireType
  <2>2. CASE q = p
    <3>1. Progress(p)'
      BY <1>1, <1>2, <1>3, <1>4, <1>5, <1>6 DEF Progress
    <3>2. ReadBy(p) = 2 /\ ReadBy(p)' = 2 /\ SaidTo(p)' = SaidTo(p)
      BY <1>1, <1>5, <1>6 DEF ReadBy, SaidTo
    <3>3. SaidBy(p) = 1 + sent[p] /\ SaidBy(p)' = 1 + (sent[p] + 1)
      BY <1>1, <1>5, <1>6 DEF SaidBy
    <3>4. ReadOf(p)' = ReadOf(p) /\ ReadOf(p) \in Nat
      BY <1>1, EmptyQueue DEF ReadOf, WireInv, WireType
    <3>5. ReadOf(p) + Len(t) = 1 + sent[p]
      BY <1>2, <3>3 DEF Wire, t
    <3>6. /\ Len(toLeader'[p]) = Len(t) + 1 /\ Len(t) \in Nat
          /\ \A i \in 1 .. Len(t) : toLeader'[p][i] = t[i]
          /\ toLeader'[p][Len(t) + 1] = m
      BY <1>1, <1>6, AppendSeq
    <3>7. ReadOf(p) + (Len(t) + 1) = sent[p] + 2
      BY <1>1, <3>4, <3>5, <3>6
    <3>8. ASSUME NEW i \in 1 .. Len(toLeader'[p])
          PROVE  Says(p, ReadOf(p) + i, toLeader'[p][i])
      <4>1. CASE i = Len(t) + 1
        BY <4>1, <3>6, <3>7
      <4>2. CASE i # Len(t) + 1
        <5>1. i \in 1 .. Len(t)
          BY <4>2, <3>6
        <5>. QED BY <5>1, <3>6, <1>2 DEF Wire, t
      <4>. QED BY <4>1, <4>2
    <3>11. \A k, w : Says(p, k, w) => Says(p, k, w)'
      BY <1>1, <1>5, SaysStays DEF config
    <3>9. /\ \A i \in 1 .. Len(toLeader'[p]) : Says(p, ReadOf(p) + i, toLeader[p][i])'
          /\ \A i \in 1 .. Len(received'[p]) : Says(p, i + 1, received[p][i])'
      BY <3>8, <3>4, <3>11, <1>1, <1>2 DEF Wire
    <3>10. ReadOf(p)' + Len(toLeader'[p]) = SaidBy(p)'
      BY <1>1, <3>3, <3>4, <3>5, <3>6
    <3>12. ReadBy(p)' + Len(toFollower'[p]) = SaidTo(p)'
      BY <3>2, <1>1, <1>2 DEF Wire
    <3>. QED BY <2>2, <3>1, <3>9, <3>10, <3>12 DEF Wire
  <2>. QED BY <2>1, <2>2
<1>. QED BY <1>1, <1>7, <1>8 DEF WireInv

LEMMA WireSendMessage ==
  ASSUME WireInv, NEW p \in Followers, SendMessage(p)
  PROVE  WireInv'
<1>. DEFINE o == Outgoing(p)[sent[p] + 1]
<1>1. /\ fstage[p] = "send" /\ sent[p] \in Nat
      /\ sent' = [sent EXCEPT ![p] = sent[p] + 1]
      /\ UNCHANGED <<config, sharing, leading, toFollower>>
  BY DEF SendMessage, WireInv, WireType
<1>2. PICK m \in WhatIsLeft(p, o) :
        toLeader' = [toLeader EXCEPT ![p] = Append(toLeader[p], m)]
  BY DEF SendMessage
<1>3. Script(p, sent[p] + 2) = o
  <2>1. sent[p] + 2 # 1 /\ (sent[p] + 2) - 1 = sent[p] + 1
    BY <1>1
  <2>. QED BY <2>1 DEF Script
<1>4. Says(p, sent[p] + 2, m)
  <2>. HIDE DEF o
  <2>1. CASE WritesPastEnd(p)
    <3>1. PICK some \in SUBSET o.block : m = Message(o.kind, some)
      BY <2>1 DEF WhatIsLeft
    <3>. QED BY <3>1, <2>1, <1>3 DEF Says, Message, Overruns
  <2>2. CASE ~WritesPastEnd(p)
    <3>1. m = o
      BY <2>2 DEF WhatIsLeft
    <3>. QED BY <3>1, <1>3 DEF Says
  <2>. QED BY <2>1, <2>2
<1>5. fstage' = [fstage EXCEPT ![p] = IF sent[p] + 1 = NumMessages THEN "done" ELSE "send"]
  <2>1. sent'[p] = sent[p] + 1
    BY <1>1 DEF WireInv, WireType
  <2>. QED BY <2>1 DEF SendMessage
<1>. HIDE DEF o
<1>6. fstage[p] # "down"
  BY <1>1
<1>. QED BY <1>1, <1>2, <1>4, <1>5, <1>6, WireSay

\* Nothing, in the place of the next message.
LEMMA WireClosed ==
  ASSUME WireInv, Ended, NEW p \in Followers, Closed(p)
  PROVE  WireInv'
<1>. DEFINE m == Message("nothing", {})
<1>1. /\ fstage[p] = "down" /\ sent[p] < NumMessages /\ sent[p] \in Nat /\ Overruns(p)
      /\ toLeader' = [toLeader EXCEPT ![p] = Append(toLeader[p], m)]
      /\ sent' = [sent EXCEPT ![p] = sent[p] + 1]
      /\ fstage' = fstage
      /\ UNCHANGED <<config, sharing, leading, toFollower>>
  BY DEF Closed, Ended, WireInv, WireType
<1>2. Says(p, sent[p] + 2, m)
  <2>1. m.kind = "nothing" /\ m.block = {} /\ sent[p] + 2 # 1
    BY <1>1 DEF Message
  <2>. QED BY <2>1, <1>1 DEF Says
<1>. HIDE DEF m
<1>. QED BY <1>1, <1>2, WireSay

LEMMA WireGoDown ==
  ASSUME WireInv, NEW p \in Followers, GoDown(p)
  PROVE  WireInv'
<1>1. /\ fstage[p] = "send" /\ fstage' = [fstage EXCEPT ![p] = "down"]
      /\ UNCHANGED <<config, share, expanded, strategy, stage, ot, received, result, sent,
                     toFollower, toLeader>>
  BY DEF GoDown, config, sharing, leading, wires
<1>2. fstage'[p] = "down"
  BY <1>1 DEF WireInv, WireType
<1>3. WireType'
  BY <1>1 DEF WireInv, WireType, FStage
<1>4. ASSUME NEW q \in Followers PROVE Progress(q)' /\ Wire(q)'
  <2>1. CASE q # p
    BY <2>1, <1>1, Frame DEF WireInv, WireType
  <2>2. CASE q = p
    <3>1. Progress(p) /\ Wire(p) /\ NumMessages' = NumMessages
      BY <1>1 DEF WireInv, NumMessages
    <3>2. Progress(p)'
      BY <3>1, <1>1, <1>2 DEF Progress
    <3>3. UNCHANGED <<SaidTo(p), ReadBy(p), SaidBy(p), ReadOf(p)>>
      BY <1>1, <1>2 DEF SaidTo, ReadBy, SaidBy, ReadOf
    <3>4. \A k, w : Says(p, k, w) => Says(p, k, w)'
      BY <1>1, SaysStays DEF config
    <3>5. /\ \A i \in 1 .. Len(toLeader'[p]) : Says(p, ReadOf(p) + i, toLeader[p][i])'
          /\ \A i \in 1 .. Len(received'[p]) : Says(p, i + 1, received[p][i])'
      BY <3>1, <3>3, <3>4, <1>1 DEF Wire
    <3>6. /\ ReadBy(p)' + Len(toFollower'[p]) = SaidTo(p)'
          /\ ReadOf(p)' + Len(toLeader'[p]) = SaidBy(p)'
      BY <3>1, <3>3, <1>1 DEF Wire
    <3>. QED BY <2>2, <3>2, <3>5, <3>6 DEF Wire
  <2>. QED BY <2>1, <2>2
<1>. QED BY <1>1, <1>3, <1>4 DEF WireInv

LEMMA WireOprgStart ==
  ASSUME WireInv, NEW p \in Followers, OprgStart(p)
  PROVE  WireInv'
<1>. DEFINE s == toFollower[p]
            m == Message("C", {})
<1>1. /\ stage = "oprg" /\ ot[p] = "start" /\ IsSeq(s)
      /\ toFollower' = [toFollower EXCEPT ![p] = Append(s, m)]
      /\ ot' = [ot EXCEPT ![p] = "base"]
      /\ UNCHANGED <<config, share, expanded, strategy, stage, fstage, received, result, sent, toLeader>>
  BY DEF OprgStart, WireInv, WireType, config, sharing, following
<1>. HIDE DEF m
<1>2. toFollower'[p] = Append(s, m) /\ ot'[p] = "base"
  BY <1>1 DEF WireInv, WireType
<1>. HIDE DEF s
<1>3. WireType'
  BY <1>1, <1>2, AppendSeq DEF WireInv, WireType, OtState
<1>4. ASSUME NEW q \in Followers PROVE Progress(q)' /\ Wire(q)'
  <2>1. CASE q # p
    BY <2>1, <1>1, Frame DEF WireInv, WireType
  <2>2. CASE q = p
    <3>1. Progress(p) /\ Wire(p)
      BY DEF WireInv
    <3>2. NumMessages' = NumMessages /\ NumMessages \in Nat \ {0}
      BY <1>1, MessageCount DEF NumMessages
    <3>3. Progress(p)'
      BY <3>1, <3>2, <1>1, <1>2 DEF Progress
    <3>4. SaidTo(p) = 0 /\ SaidTo(p)' = 1 /\ ReadBy(p)' = ReadBy(p) /\ ReadBy(p) \in Nat
      BY <1>1, <1>2 DEF ReadBy, SaidTo
    <3>5. ReadBy(p)' + Len(toFollower'[p]) = SaidTo(p)'
      <4>1. ReadBy(p) + Len(s) = 0
        BY <3>1, <3>4 DEF Wire, s
      <4>2. Len(toFollower'[p]) = Len(s) + 1 /\ Len(s) \in Nat
        BY <1>1, <1>2, AppendSeq
      <4>. QED BY <4>1, <4>2, <3>4
    <3>6. SaidBy(p)' = SaidBy(p) /\ ReadOf(p)' = ReadOf(p)
      BY <1>1, <1>2 DEF SaidBy, ReadOf
    <3>7. \A k, w : Says(p, k, w) => Says(p, k, w)'
      BY <1>1, <1>2, SaysStays DEF config
    <3>8. /\ \A i \in 1 .. Len(toLeader'[p]) : Says(p, ReadOf(p) + i, toLeader[p][i])'
          /\ \A i \in 1 .. Len(received'[p]) : Says(p, i + 1, received[p][i])'
      BY <3>1, <3>6, <3>7, <1>1 DEF Wire
    <3>9. ReadOf(p)' + Len(toLeader'[p]) = SaidBy(p)'
      BY <3>1, <3>6, <1>1 DEF Wire
    <3>. QED BY <2>2, <3>3, <3>5, <3>8, <3>9 DEF Wire
  <2>. QED BY <2>1, <2>2
<1>. QED BY <1>1, <1>3, <1>4 DEF WireInv

\* A message leaves the queue to the leader and counts as read.
LEMMA WireRead ==
  ASSUME NEW p, IsSeq(toLeader[p]), toLeader[p] # <<>>, Wire(p),
         toLeader'[p] = Tail(toLeader[p]),
         UNCHANGED SaidBy(p),
         ReadOf(p) \in Nat, SaidBy(p) \in Nat,
         ReadOf(p)' = ReadOf(p) + 1
  PROVE  /\ ReadOf(p)' + Len(toLeader'[p]) = SaidBy(p)'
         /\ \A i \in 1 .. Len(toLeader'[p]) : Says(p, ReadOf(p) + 1 + i, toLeader'[p][i])
<1>. DEFINE t == toLeader[p]
<1>1. /\ Len(t) \in Nat \ {0} /\ Len(Tail(t)) = Len(t) - 1
      /\ \A i \in 1 .. Len(t) - 1 : Tail(t)[i] = t[i + 1]
  BY TailSeq
<1>2. /\ ReadOf(p) + Len(t) = SaidBy(p)
      /\ \A i \in 1 .. Len(t) : Says(p, ReadOf(p) + i, t[i])
  BY DEF Wire
<1>. DEFINE u == toLeader'[p]
<1>3. /\ Len(u) = Len(t) - 1 /\ \A i \in 1 .. Len(t) - 1 : u[i] = t[i + 1]
      /\ SaidBy(p)' = SaidBy(p)
  BY <1>1
<1>. HIDE DEF t, u
<1>4. ReadOf(p)' + Len(u) = SaidBy(p)'
  BY <1>1, <1>2, <1>3
<1>5. ASSUME NEW i \in 1 .. Len(u)
      PROVE  Says(p, ReadOf(p) + 1 + i, u[i])
  <2>1. i \in 1 .. Len(t) - 1 /\ i + 1 \in 1 .. Len(t) /\ i \in Nat
    BY <1>1, <1>3
  <2>2. u[i] = t[i + 1]
    BY <2>1, <1>3
  <2>3. Says(p, ReadOf(p) + (i + 1), t[i + 1])
    BY <2>1, <1>2
  <2>4. ReadOf(p) + (i + 1) = ReadOf(p) + 1 + i
    BY <2>1
  <2>. QED BY <2>2, <2>3, <2>4
<1>. QED BY <1>4, <1>5 DEF u

LEMMA WireOprgFinish ==
  ASSUME WireInv, NEW p \in Followers, OprgFinish(p)
  PROVE  WireInv'
<1>. DEFINE s == toFollower[p]
            t == toLeader[p]
            m == Message("matrix", {})
<1>1. /\ ot[p] = "base" /\ t # <<>> /\ IsSeq(s) /\ IsSeq(t)
      /\ toLeader' = [toLeader EXCEPT ![p] = Tail(t)]
      /\ toFollower' = [toFollower EXCEPT ![p] = Append(s, m)]
      /\ ot' = [ot EXCEPT ![p] = "done"]
      /\ UNCHANGED <<config, share, expanded, strategy, stage, fstage, received, result, sent>>
  BY DEF OprgFinish, WireInv, WireType, config, sharing, following
<1>. HIDE DEF m
<1>2. toFollower'[p] = Append(s, m) /\ toLeader'[p] = Tail(t) /\ ot'[p] = "done"
  BY <1>1 DEF WireInv, WireType
<1>3. WireType'
  <2>. HIDE DEF s, t
  <2>1. ot' \in [Followers -> OtState]
    BY <1>1 DEF WireInv, WireType, OtState
  <2>2. IsSeq(Append(s, m)) /\ IsSeq(Tail(t))
    BY <1>1, AppendSeq, TailSeq
  <2>. QED BY <1>1, <2>1, <2>2 DEF WireInv, WireType
<1>4. ASSUME NEW q \in Followers PROVE Progress(q)' /\ Wire(q)'
  <2>1. CASE q # p
    BY <2>1, <1>1, Frame DEF WireInv, WireType
  <2>2. CASE q = p
    <3>1. Progress(p) /\ Wire(p) /\ sent[p] \in Nat
      BY DEF WireInv, WireType
    <3>2. NumMessages' = NumMessages /\ NumMessages \in Nat \ {0}
      BY <1>1, MessageCount DEF NumMessages
    <3>3. Progress(p)'
      BY <3>1, <3>2, <1>1, <1>2 DEF Progress
    <3>4. SaidTo(p) = 1 /\ SaidTo(p)' = 2 /\ ReadBy(p)' = ReadBy(p) /\ ReadBy(p) \in Nat
      BY <1>1, <1>2 DEF ReadBy, SaidTo
    <3>5. ReadBy(p)' + Len(toFollower'[p]) = SaidTo(p)'
      <4>1. ReadBy(p) + Len(s) = 1
        BY <3>1, <3>4 DEF Wire
      <4>. HIDE DEF s
      <4>2. Len(toFollower'[p]) = Len(s) + 1 /\ Len(s) \in Nat
        BY <1>1, <1>2, AppendSeq
      <4>. QED BY <4>1, <4>2, <3>4
    <3>6. SaidBy(p)' = SaidBy(p) /\ SaidBy(p) \in Nat
      BY <3>1, <1>1 DEF SaidBy
    <3>7. ReadOf(p) = 0 /\ ReadOf(p)' = ReadOf(p) + 1 /\ ReadOf(p) \in Nat
      BY <3>1, <1>1, <1>2 DEF ReadOf, Progress
    <3>8. /\ ReadOf(p)' + Len(toLeader'[p]) = SaidBy(p)'
          /\ \A i \in 1 .. Len(toLeader'[p]) :
               Says(p, ReadOf(p) + 1 + i, toLeader'[p][i])
      BY <3>1, <3>6, <3>7, <1>1, <1>2, WireRead
    <3>9. \A k, w : Says(p, k, w) => Says(p, k, w)'
      BY <1>1, SaysStays DEF config
    <3>10. \A i \in 1 .. Len(toLeader'[p]) : Says(p, ReadOf(p) + i, toLeader[p][i])'
      BY <3>8, <3>7, <3>9
    <3>11. \A i \in 1 .. Len(received'[p]) : Says(p, i + 1, received[p][i])'
      BY <3>1, <3>9, <1>1 DEF Wire
    <3>. QED BY <2>2, <3>3, <3>5, <3>8, <3>10, <3>11 DEF Wire
  <2>. QED BY <2>1, <2>2
<1>. QED BY <1>1, <1>3, <1>4 DEF WireInv

LEMMA WireReceive ==
  ASSUME WireInv, NEW p \in Followers, ReceiveMessage(p)
  PROVE  WireInv'
<1>. DEFINE r == received[p]
            t == toLeader[p]
            m == Head(toLeader[p])
<1>1. /\ stage = "receive" /\ Len(r) < NumMessages /\ t # <<>> /\ IsSeq(r) /\ IsSeq(t)
      /\ toLeader' = [toLeader EXCEPT ![p] = Tail(t)]
      /\ received' = [received EXCEPT ![p] = Append(r, m)]
      /\ UNCHANGED <<config, share, expanded, strategy, stage, ot, fstage, result, sent, toFollower>>
  BY DEF ReceiveMessage, WireInv, WireType, config, sharing, following
<1>. HIDE DEF m
<1>2. received'[p] = Append(r, m) /\ toLeader'[p] = Tail(t)
  BY <1>1 DEF WireInv, WireType
<1>3. WireType'
  <2>. HIDE DEF r, t
  <2>1. IsSeq(Append(r, m)) /\ IsSeq(Tail(t))
    BY <1>1, AppendSeq, TailSeq
  <2>. QED BY <1>1, <2>1 DEF WireInv, WireType
<1>4. ASSUME NEW q \in Followers PROVE Progress(q)' /\ Wire(q)'
  <2>1. CASE q # p
    BY <2>1, <1>1, Frame DEF WireInv, WireType
  <2>2. CASE q = p
    <3>1. Progress(p) /\ Wire(p) /\ sent[p] \in Nat
      BY DEF WireInv, WireType
    <3>2. NumMessages' = NumMessages /\ NumMessages \in Nat \ {0}
      BY <1>1, MessageCount DEF NumMessages
    <3>3. Len(received'[p]) = Len(r) + 1 /\ Len(r) \in Nat
      <4>. HIDE DEF r
      <4>. QED BY <1>1, <1>2, AppendSeq
    <3>4. ot[p] = "done"
      BY <3>1, <1>1 DEF Progress
    <3>5. Progress(p)'
      BY <3>1, <3>2, <3>3, <3>4, <1>1 DEF Progress
    <3>6. /\ ReadOf(p) \in Nat /\ ReadOf(p)' = ReadOf(p) + 1 /\ strategy' = strategy
          /\ SaidBy(p)' = SaidBy(p) /\ SaidBy(p) \in Nat
          /\ ReadBy(p)' = ReadBy(p) /\ SaidTo(p)' = SaidTo(p)
      <4>1. ReadOf(p) = 1 + Len(r) /\ ReadOf(p)' = 1 + (Len(r) + 1)
        BY <3>3, <3>4, <1>1 DEF ReadOf
      <4>. HIDE DEF r
      <4>2. ReadOf(p) \in Nat /\ ReadOf(p)' = ReadOf(p) + 1
        BY <4>1, <3>3
      <4>. QED BY <4>2, <3>1, <1>1 DEF SaidBy, ReadBy, SaidTo
    <3>7. /\ ReadOf(p)' + Len(toLeader'[p]) = SaidBy(p)'
          /\ \A i \in 1 .. Len(toLeader'[p]) :
               Says(p, ReadOf(p) + 1 + i, toLeader'[p][i])
      BY <3>1, <3>6, <1>1, <1>2, WireRead
    <3>8. \A k, w : Says(p, k, w) => Says(p, k, w)'
      BY <1>1, SaysStays DEF config
    <3>9. \A i \in 1 .. Len(toLeader'[p]) : Says(p, ReadOf(p) + i, toLeader[p][i])'
      BY <3>6, <3>7, <3>8
    <3>10. /\ Says(p, Len(r) + 2, m)
           /\ \A i \in 1 .. Len(r) : received'[p][i] = r[i]
           /\ received'[p][Len(r) + 1] = m
      <4>1. m = t[1] /\ Len(t) \in Nat \ {0}
        BY <1>1, TailSeq DEF m
      <4>2. Says(p, ReadOf(p) + 1, t[1])
        BY <3>1, <4>1 DEF Wire
      <4>3. ReadOf(p) + 1 = Len(r) + 2
        BY <3>3, <3>4 DEF ReadOf
      <4>4. /\ \A i \in 1 .. Len(r) : Append(r, m)[i] = r[i]
            /\ Append(r, m)[Len(r) + 1] = m
        <5>. HIDE DEF r
        <5>. QED BY <1>1, AppendSeq
      <4>. QED BY <4>1, <4>2, <4>3, <4>4, <1>2
    <3>11. ASSUME NEW i \in 1 .. Len(received'[p])
           PROVE  Says(p, i + 1, received'[p][i])
      <4>1. CASE i = Len(r) + 1
        <5>1. i + 1 = Len(r) + 2
          BY <4>1, <3>3
        <5>. QED BY <5>1, <4>1, <3>10
      <4>2. CASE i # Len(r) + 1
        <5>1. i \in 1 .. Len(r)
          BY <4>2, <3>3
        <5>. QED BY <5>1, <3>10, <3>1 DEF Wire
      <4>. QED BY <4>1, <4>2
    <3>12. \A i \in 1 .. Len(received'[p]) : Says(p, i + 1, received[p][i])'
      BY <3>8, <3>11
    <3>13. ReadBy(p)' + Len(toFollower'[p]) = SaidTo(p)'
      BY <3>1, <3>6, <1>1 DEF Wire
    <3>. QED BY <2>2, <3>5, <3>7, <3>9, <3>12, <3>13 DEF Wire
  <2>. QED BY <2>1, <2>2
<1>. QED BY <1>1, <1>3, <1>4 DEF WireInv

\* A step of the leader that leaves every connection alone, whatever it does
\* to the strings, may go from one stage to another as runAsLeader does.
LEMMA WireStage ==
  ASSUME WireInv, stage' \in Stage,
         UNCHANGED <<config, sharing, ot, fstage, sent, received, wires>>,
         result' # None => stage' = "done",
         stage' \notin {"hash", "oprg"} => \A p \in Followers : ot[p] = "done",
         stage' \in {"hash", "oprg", "info"} => \A p \in Followers : received[p] = <<>>,
         stage' \in {"find", "check", "done"} =>
           \A p \in Followers : Len(received[p]) = NumMessages
  PROVE  WireInv'
<1>1. UNCHANGED <<toFollower, toLeader, strategy, share, expanded, NumMessages>>
  BY DEF wires, config, sharing, NumMessages
<1>2. WireType'
  BY <1>1 DEF WireInv, WireType
<1>3. ASSUME NEW q \in Followers PROVE Progress(q)' /\ Wire(q)'
  <2>1. Progress(q) /\ Wire(q)
    BY DEF WireInv
  <2>2. Progress(q)'
    BY <2>1, <1>1 DEF Progress
  <2>3. \A k, w : Says(q, k, w) => Says(q, k, w)'
    BY <1>1, SaysStays DEF config
  <2>4. UNCHANGED <<SaidTo(q), SaidBy(q), ReadBy(q), ReadOf(q)>>
    BY DEF SaidTo, SaidBy, ReadBy, ReadOf
  <2>5. /\ \A i \in 1 .. Len(toLeader'[q]) : Says(q, ReadOf(q) + i, toLeader[q][i])'
        /\ \A i \in 1 .. Len(received'[q]) : Says(q, i + 1, received[q][i])'
    BY <2>1, <2>3, <2>4, <1>1 DEF Wire
  <2>6. /\ ReadBy(q)' + Len(toFollower'[q]) = SaidTo(q)'
        /\ ReadOf(q)' + Len(toLeader'[q]) = SaidBy(q)'
    BY <2>1, <2>4, <1>1 DEF Wire
  <2>7. Wire(q)'
    BY <2>5, <2>6 DEF Wire
  <2>. QED BY <2>2, <2>7
<1>. QED BY <1>2, <1>3 DEF WireInv

\* A step that changes nothing the invariant is about.
LEMMA WireSame ==
  ASSUME WireInv,
         UNCHANGED <<config, sharing, stage, ot, fstage, sent, received, result, wires>>
  PROVE  WireInv'
<1>1. UNCHANGED <<strategy, share, expanded, toFollower, toLeader>>
  BY DEF config, sharing, wires
<1>2. WireType'
  BY <1>1 DEF WireInv, WireType
<1>3. ASSUME NEW q \in Followers PROVE Progress(q)' /\ Wire(q)'
  BY <1>1, Frame DEF WireInv
<1>. QED BY <1>2, <1>3 DEF WireInv

\* A share is complete before its party says anything, and stays as it is.
LEMMA WireShare ==
  ASSUME WireInv, NEW p \in Party, Share(p)
  PROVE  WireInv'
<1>1. /\ UNCHANGED <<config, strategy, stage, ot, fstage, sent, received, result,
                      toFollower, toLeader>>
      /\ AS!Step(p)
  BY DEF Share, config, following, wires
<1>2. /\ DOMAIN share' = Party
      /\ expanded \subseteq expanded'
      /\ \A q \in expanded \cap Party : share'[q] = share[q]
  BY <1>1 DEF AS!Step, AS!SendSeed, AS!ReceiveSeed, AS!Expand, WireInv, WireType
<1>3. WireType'
  BY <1>1, <1>2 DEF WireInv, WireType
<1>4. ASSUME NEW q \in Followers PROVE Progress(q)' /\ Wire(q)'
  <2>1. Progress(q) /\ Wire(q) /\ NumMessages' = NumMessages
    BY <1>1 DEF WireInv, NumMessages
  <2>2. Progress(q)'
    BY <2>1, <1>1, <1>2 DEF Progress
  <2>3. UNCHANGED <<SaidTo(q), SaidBy(q), ReadBy(q), ReadOf(q)>>
    BY <1>1 DEF SaidTo, SaidBy, ReadBy, ReadOf
  <2>4. CASE fstage[q] = "base"
    <3>1. Len(toLeader[q]) \in Nat /\ Len(received[q]) \in Nat
      BY EmptyQueue DEF WireInv, WireType
    <3>2. ReadOf(q) + Len(toLeader[q]) = 0
      BY <2>1, <2>4 DEF Wire, SaidBy
    <3>3. Len(toLeader[q]) = 0 /\ ot[q] # "done"
      <4>1. PICK l \in Nat, r \in Nat : l = Len(toLeader[q]) /\ r = Len(received[q])
        BY <3>1
      <4>2. (IF ot[q] = "done" THEN 1 + r ELSE 0) + l = 0
        BY <4>1, <3>2 DEF ReadOf
      <4>3. (1 + r) + l # 0
        OBVIOUS
      <4>4. ot[q] # "done" /\ l = 0
        BY <4>2, <4>3
      <4>. QED BY <4>1, <4>4
    <3>4. Len(received[q]) = 0
      BY <2>1, <3>3 DEF Progress
    <3>5. Wire(q)'
      BY <2>1, <2>3, <3>3, <3>4, <1>1 DEF Wire
    <3>. QED BY <2>2, <3>5
  <2>5. CASE fstage[q] # "base"
    <3>1. q \in expanded \cap Party
      BY <2>1, <2>5 DEF Progress, Followers
    <3>2. \A k, w : Says(q, k, w) => Says(q, k, w)'
      BY <3>1, <1>1, <1>2, SaysStays DEF config
    <3>3. /\ \A i \in 1 .. Len(toLeader'[q]) : Says(q, ReadOf(q) + i, toLeader[q][i])'
          /\ \A i \in 1 .. Len(received'[q]) : Says(q, i + 1, received[q][i])'
      BY <2>1, <2>3, <3>2, <1>1 DEF Wire
    <3>4. /\ ReadBy(q)' + Len(toFollower'[q]) = SaidTo(q)'
          /\ ReadOf(q)' + Len(toLeader'[q]) = SaidBy(q)'
      BY <2>1, <2>3, <1>1 DEF Wire
    <3>. QED BY <2>2, <3>3, <3>4 DEF Wire
  <2>. QED BY <2>4, <2>5
<1>. QED BY <1>1, <1>3, <1>4 DEF WireInv

\* A check thread reads what the others have left it.
LEMMA CheckThreadFrame ==
  ASSUME NEW t \in Thread, CheckThread(t)
  PROVE  UNCHANGED <<config, sharing, stage, ot, received, result, following, wires>>
<1>1. CASE CheckSkip(t)
  BY <1>1 DEF CheckSkip
<1>2. CASE CheckXor(t)
  BY <1>2 DEF CheckXor
<1>3. ASSUME NEW hit, NEW rest, CheckEnd(t, hit, rest)
      PROVE  UNCHANGED <<config, sharing, stage, ot, received, result, following, wires>>
  BY <1>3 DEF CheckEnd
<1>4. CASE CheckSearch(t)
  BY <1>3, <1>4 DEF CheckSearch
<1>5. CASE CheckSolve(t)
  BY <1>3, <1>5 DEF CheckSolve
<1>6. CASE CheckEvaluate(t)
  <2>1. \E hit, rest : CheckEnd(t, hit, rest)
    BY <1>6 DEF CheckEvaluate
  <2>. QED BY <2>1, <1>3
<1>. QED BY <1>1, <1>2, <1>4, <1>5, <1>6 DEF CheckThread

LEMMA WireStep == WireInv /\ Ended /\ [Next]_vars => WireInv'
<1>. SUFFICES ASSUME WireInv, Ended, [Next]_vars PROVE WireInv'
  OBVIOUS
<1>1. ASSUME NEW p \in Party, Share(p) PROVE WireInv'
  BY <1>1, WireShare
<1>2. ASSUME LeaderMain PROVE WireInv'
  <2>1. CASE Hash
    BY <2>1, WireSame DEF Hash, config, leading, following
  <2>2. CASE StartThreads
    <3>1. \A p \in Followers : received[p] = <<>>
      BY <2>2 DEF StartThreads, WireInv, Progress
    <3>2. result = None
      BY <2>2 DEF StartThreads, WireInv
    <3>. QED BY <2>2, <3>1, <3>2, WireStage DEF StartThreads, config, following, Stage
  <2>3. CASE JoinThreads
    <3>1. \A p \in Followers : received[p] = <<>>
      BY <2>3 DEF JoinThreads, WireInv, Progress
    <3>2. result = None
      BY <2>3 DEF JoinThreads, WireInv
    <3>. QED BY <2>3, <3>1, <3>2, WireStage DEF JoinThreads, config, following, Stage
  <2>4. CASE FillInfo
    BY <2>4, WireSame DEF FillInfo, config, leading, following
  <2>5. CASE StartReceivers
    <3>1. \A p \in Followers : ot[p] = "done"
      BY <2>5 DEF StartReceivers, WireInv, Progress
    <3>2. result = None
      BY <2>5 DEF StartReceivers, WireInv
    <3>. QED BY <2>5, <3>1, <3>2, WireStage DEF StartReceivers, config, following, Stage
  <2>6. CASE JoinReceivers
    <3>1. \A p \in Followers : ot[p] = "done"
      BY <2>6 DEF JoinReceivers, WireInv, Progress
    <3>2. result = None
      BY <2>6 DEF JoinReceivers, WireInv
    <3>. QED BY <2>6, <3>1, <3>2, WireStage DEF JoinReceivers, config, following, Stage
  <2>7. CASE FindIntersection
    <3>1. \A p \in Followers : ot[p] = "done" /\ Len(received[p]) = NumMessages
      BY <2>7 DEF FindIntersection, WireInv, Progress
    <3>. QED BY <2>7, <3>1, WireStage DEF FindIntersection, config, following, Stage
  <2>8. CASE Publish
    <3>1. \A p \in Followers : ot[p] = "done" /\ Len(received[p]) = NumMessages
      BY <2>8 DEF Publish, WireInv, Progress
    <3>. QED BY <2>8, <3>1, WireStage DEF Publish, config, following, Stage
  <2>. QED BY <1>2, <2>1, <2>2, <2>3, <2>4, <2>5, <2>6, <2>7, <2>8 DEF LeaderMain
<1>3. ASSUME NEW p \in Followers, LeaderThread(p) PROVE WireInv'
  BY <1>3, WireOprgStart, WireOprgFinish, WireReceive DEF LeaderThread
<1>4. ASSUME NEW p \in Followers, FollowerStep(p) PROVE WireInv'
  BY <1>4, WireBaseOT, WireMatrix, WireSendMessage, WireGoDown, WireClosed DEF FollowerStep
<1>5. ASSUME NEW t \in Thread, CheckThread(t) PROVE WireInv'
  <2>1. UNCHANGED <<config, sharing, stage, ot, received, result, following, wires>>
    BY <1>5, CheckThreadFrame
  <2>. QED BY <2>1, WireSame DEF following
<1>6. CASE UNCHANGED vars
  BY <1>6, WireSame DEF vars, config, leading, following
<1>. QED BY <1>1, <1>2, <1>3, <1>4, <1>5, <1>6 DEF Next

LEMMA EndedStep == WireType /\ Ended /\ [Next]_vars => Ended'
<1>. SUFFICES ASSUME WireType, Ended, [Next]_vars PROVE Ended'
  OBVIOUS
<1>1. UNCHANGED config /\ (fstage' = fstage \/ \E p \in Followers : FollowerStep(p))
  <2>1. ASSUME NEW p \in Party, Share(p) PROVE UNCHANGED <<config, following>>
    BY <2>1 DEF Share
  <2>2. ASSUME LeaderMain PROVE UNCHANGED <<config, following>>
    <3>1. CASE Hash \/ StartThreads \/ JoinThreads \/ FillInfo
      BY <3>1 DEF Hash, StartThreads, JoinThreads, FillInfo
    <3>2. CASE StartReceivers \/ JoinReceivers \/ FindIntersection \/ Publish
      BY <3>2 DEF StartReceivers, JoinReceivers, FindIntersection, Publish
    <3>. QED BY <2>2, <3>1, <3>2 DEF LeaderMain
  <2>3. ASSUME NEW p \in Followers, LeaderThread(p) PROVE UNCHANGED <<config, following>>
    BY <2>3 DEF LeaderThread, OprgStart, OprgFinish, ReceiveMessage
  <2>4. ASSUME NEW p \in Followers, FollowerStep(p) PROVE UNCHANGED config
    BY <2>4 DEF FollowerStep, BaseOT, Matrix, SendMessage, GoDown, Closed
  <2>5. ASSUME NEW t \in Thread, CheckThread(t) PROVE UNCHANGED <<config, following>>
    BY <2>5, CheckThreadFrame
  <2>6. ASSUME UNCHANGED vars PROVE UNCHANGED <<config, following>>
    BY <2>6 DEF vars
  <2>. QED BY <2>1, <2>2, <2>3, <2>4, <2>5, <2>6 DEF Next, following
<1>2. \A p : Overruns(p)' = Overruns(p)
  BY <1>1, SlotsSame DEF config
<1>3. ASSUME NEW p \in Followers, fstage'[p] = "down"
      PROVE  fstage[p] = "down" \/ Overruns(p)
  <2>1. CASE fstage' = fstage
    BY <2>1, <1>3
  <2>2. CASE \E q \in Followers : FollowerStep(q)
    <3>1. PICK q \in Followers : FollowerStep(q)
      BY <2>2
    <3>2. CASE Closed(q)
      BY <3>2, <1>3 DEF Closed
    <3>3. CASE GoDown(q)
      BY <3>3, <1>3 DEF GoDown, WireType
    <3>4. CASE BaseOT(q) \/ Matrix(q) \/ SendMessage(q)
      BY <3>4, <1>3 DEF BaseOT, Matrix, SendMessage, WireType
    <3>. QED BY <3>1, <3>2, <3>3, <3>4 DEF FollowerStep
  <2>. QED BY <2>1, <2>2, <1>1
<1>. QED BY <1>2, <1>3 DEF Ended

-----------------------------------------------------------------------------
(***************************************************************************)
(* The theorems.                                                           *)
(***************************************************************************)

\* At every moment what lies on a connection is the part of the script that
\* one end has said and the other has not read yet, with nothing, or less of
\* the masks, where a bin is overfull (PsiParty.cpp:126-142,
\* 229-271, Follower::run and receiveServerData of the strategies).
THEOREM WireInvariant == Spec => [](WireInv /\ Ended)
<1>1. Init => WireInv /\ Ended
  BY WireInit DEF Init, Ended, PerFollower
<1>2. WireInv /\ Ended /\ [Next]_vars => (WireInv /\ Ended)'
  BY WireStep, EndedStep DEF WireInv
<1>. QED BY <1>1, <1>2, PTL DEF Spec

LEMMA WireMeansAgreement == WireInv /\ Ended => StreamsAgree
<1>. SUFFICES ASSUME WireInv, Ended PROVE StreamsAgree
  OBVIOUS
<1>1. ASSUME NEW p \in Followers, toLeader[p] # <<>>
      PROVE  /\ ot[p] = "base" => Head(toLeader[p]).kind = "PK0"
             /\ stage = "receive" =>
                  \/ fstage[p] = "down" /\ Head(toLeader[p]).kind = "nothing"
                  \/ Head(toLeader[p]).kind =
                       IF strategy = "BLOOM_FILTER" /\ received[p] = <<>> THEN "keys" ELSE "block"
  <2>1. /\ Head(toLeader[p]) = toLeader[p][1] /\ Len(toLeader[p]) \in Nat \ {0}
        /\ Progress(p) /\ Wire(p)
    BY <1>1, TailSeq DEF WireInv, WireType
  <2>. DEFINE h == Head(toLeader[p])
  <2>2. Says(p, ReadOf(p) + 1, h)
    BY <2>1 DEF Wire
  <2>. HIDE DEF h
  <2>3. ASSUME ot[p] = "base" PROVE h.kind = "PK0"
    <3>1. ReadOf(p) + 1 = 1
      BY <2>3 DEF ReadOf
    <3>. QED BY <2>2, <3>1 DEF Says, Script, Message
  <2>4. ASSUME stage = "receive"
        PROVE  \/ fstage[p] = "down" /\ h.kind = "nothing"
               \/ h.kind = IF strategy = "BLOOM_FILTER" /\ received[p] = <<>>
                           THEN "keys" ELSE "block"
    <3>1. PICK r \in Nat : r = Len(received[p])
      BY EmptyQueue DEF WireInv, WireType
    <3>2. ReadOf(p) = 1 + r
      BY <2>1, <2>4, <3>1 DEF ReadOf, Progress
    <3>3. r < NumMessages
      <4>1. (1 + r) + Len(toLeader[p]) = SaidBy(p)
        BY <2>1, <3>2 DEF Wire
      <4>2. PICK l \in Nat \ {0} : l = Len(toLeader[p])
        BY <2>1
      <4>3. SaidBy(p) = (1 + r) + l
        BY <4>1, <4>2
      <4>4. (1 + r) + l # 0
        OBVIOUS
      <4>5. SaidBy(p) = 1 + sent[p]
        BY <4>3, <4>4 DEF SaidBy
      <4>6. sent[p] \in Nat /\ sent[p] <= NumMessages
        BY <2>1 DEF WireInv, WireType, Progress
      <4>7. PICK n \in Nat, m \in Nat : n = NumMessages /\ m = sent[p]
        BY <4>6, MessageCount
      <4>8. (1 + r) + l = 1 + m /\ m <= n
        BY <4>3, <4>5, <4>6, <4>7
      <4>9. r < n
        BY <4>8
      <4>. QED BY <4>7, <4>9
    <3>4. h.kind = Outgoing(p)[r + 1].kind \/ (fstage[p] = "down" /\ h.kind = "nothing")
      <4>1. (1 + r) + 1 # 1 /\ ((1 + r) + 1) - 1 = r + 1
        BY <3>1
      <4>. QED BY <2>2, <3>2, <4>1 DEF Script, Says
    <3>5. h.kind = KindOf((r + 1) + 1) \/ (fstage[p] = "down" /\ h.kind = "nothing")
      <4>1. r + 1 \in 1 .. NumMessages
        BY <3>1, <3>3, MessageCount
      <4>. QED BY <3>4, <4>1, OutgoingKinds
    <3>6. r = 0 <=> received[p] = <<>>
      BY <3>1, EmptyQueue DEF WireInv, WireType
    <3>. QED BY <3>1, <3>5, <3>6 DEF KindOf
  <2>. QED BY <2>3, <2>4 DEF h
<1>2. ASSUME result # None, NEW p \in Followers
      PROVE  /\ fstage[p] = "done" \/ (fstage[p] = "down" /\ Overruns(p))
             /\ toFollower[p] = <<>> /\ toLeader[p] = <<>>
  <2>1. Progress(p) /\ Wire(p) /\ stage = "done" /\ NumMessages \in Nat \ {0}
    BY <1>2, MessageCount DEF WireInv
  <2>2. ot[p] = "done" /\ Len(received[p]) = NumMessages
    BY <2>1 DEF Progress
  <2>3. Len(toLeader[p]) \in Nat /\ Len(toFollower[p]) \in Nat /\ sent[p] \in Nat
    BY EmptyQueue DEF WireInv, WireType
  <2>4. 1 + NumMessages + Len(toLeader[p]) = SaidBy(p)
    BY <2>1, <2>2 DEF Wire, ReadOf
  <2>5. fstage[p] # "base" /\ SaidBy(p) = 1 + sent[p]
    <3>1. PICK n \in Nat, l \in Nat : n = NumMessages /\ l = Len(toLeader[p])
      BY <2>1, <2>3
    <3>2. SaidBy(p) = 1 + n + l
      BY <2>4, <3>1
    <3>3. SaidBy(p) # 0
      BY <3>2
    <3>. QED BY <3>3 DEF SaidBy
  <2>6. sent[p] = NumMessages /\ Len(toLeader[p]) = 0
    <3>1. sent[p] <= NumMessages
      BY <2>1 DEF Progress
    <3>2. PICK n \in Nat, l \in Nat, m \in Nat :
            n = NumMessages /\ l = Len(toLeader[p]) /\ m = sent[p]
      BY <2>1, <2>3
    <3>3. 1 + n + l = 1 + m /\ m <= n
      BY <2>4, <2>5, <3>1, <3>2
    <3>4. l = 0 /\ m = n
      BY <3>3
    <3>. QED BY <3>2, <3>4
  <2>7. fstage[p] \in {"done", "down"}
    BY <2>1, <2>3, <2>5, <2>6 DEF Progress, WireInv, WireType, FStage
  <2>8. Len(toFollower[p]) = 0
    <3>1. ReadBy(p) = 2 /\ SaidTo(p) = 2
      BY <2>2, <2>7 DEF ReadBy, SaidTo
    <3>2. 2 + Len(toFollower[p]) = 2
      BY <2>1, <3>1 DEF Wire
    <3>. QED BY <3>2, <2>3
  <2>. QED BY <2>6, <2>7, <2>8, EmptyQueue DEF WireInv, WireType, Ended
<1>. QED BY <1>1, <1>2 DEF StreamsAgree

\* The leader never takes a message for another one, and when it publishes the
\* size nothing is left unread; only a follower with an overfull bin has not sent
\* all (Leader.cpp:43-92, send_masks of ot-psi.cpp against receiveServerData).
THEOREM StreamsAlwaysAgree == Spec => []StreamsAgree
BY WireInvariant, WireMeansAgreement, PTL

-----------------------------------------------------------------------------
(***************************************************************************)
(* The count.  The argument composes what is proved of the parts: the      *)
(* shares of all parties cancel (AdditiveShareProofs), CuckooHashInfo      *)
(* names for every element its bin and its OPRG output (CuckooProofs), and *)
(* the leader holds the messages the followers meant (above).  Then the    *)
(* strings decide: the OPRG string of follower p that the leader has put   *)
(* into the share of a bin only comes out again with a mask of p for the   *)
(* same bin and the same value, that is, for the same element.             *)
(***************************************************************************)

\* The proofs about the two components, at the values PsiProtocol gives them.
ASP == INSTANCE AdditiveShareProofs WITH MaxCrashes <- 0
CKP == INSTANCE CuckooProofs WITH NumEles <- SetSize,
                                  address <- [e \in Ele |-> address[eleptr[e]]],
                                  pc <- hashPc

Chosen ==
  /\ strategy \in Strategies
  /\ set \in [Party -> SUBSET Key]
  /\ \A p \in Party : Cardinality(set[p]) = SetSize
  /\ eleptr \in [Ele -> set[Leader]]
  /\ \A d, e \in Ele : eleptr[d] = eleptr[e] => d = e
  /\ address \in Hashings

\* What runAsLeader has done when it is in one of its stages.
Phase ==
  /\ stage # "hash" \/ hashPc # "insert" => Leader \in expanded
  /\ stage = "hash" => hashPc \in {"insert", "copy", "bins"}
  /\ stage = "oprg" => hashPc = "bins"
  /\ stage = "info" => hashPc \in {"bins", "perm", "done"}
  /\ stage \in {"receive", "find", "check", "done"} => hashPc = "done"
  /\ stage = "find" => strategy = "TWO_PARTY"
  /\ stage = "check" => strategy # "TWO_PARTY"

Outputs ==
  /\ DOMAIN leaderResults = Followers
  /\ \A p \in Followers : /\ stage = "hash" => ot[p] = "start"
                          /\ ot[p] = "done" => leaderResults[p] = ClientOutput(p)

Cursors ==
  /\ cursor \in [Thread -> Nat]
  /\ \A t \in Thread : StartPos(t) <= cursor[t] /\ cursor[t] <= EndPos(t)
  /\ stage \notin {"check", "done"} => \A t \in Thread : cursor[t] = StartPos(t)
  /\ xored \subseteq Thread
  /\ \A t \in xored : Running(t) /\ ~Skipped(cursor[t])

\* The elements whose bins thread t has changed.
Past(t) == {e \in Ele : StartPos(t) <= e /\ e < cursor[t]}
Touched(t) == Past(t) \cup IF t \in xored THEN {cursor[t]} ELSE {}

Secrets ==
  /\ DOMAIN secret = Bin
  /\ Leader \in expanded =>
       \A b \in Bin :
         (\A t \in Thread : \A e \in Touched(t) : hashInfo[e].binIndex # b)
           => secret[b] = Expansion(share[Leader], b)

\* XorOver over the followers, for a function.
XorAll(c) ==
  {a \in UNION {c[p] : p \in Followers} :
     Cardinality({p \in Followers : a \in c[p]}) % 2 = 1}

\* The outputs of all followers for one entry of CuckooHashInfo.
OutputsAt(i) == XorAll([p \in Followers |-> leaderResults[p][i]])

\* OnlyOwnXor, in these terms.
OwnXor ==
  \A t \in xored :
    LET info == hashInfo[cursor[t]]
    IN  secret[info.binIndex] = Xor(Expansion(share[Leader], info.binIndex),
                                    OutputsAt(info.tableIndex))

\* Every follower's mask of an element is where its bin is looked for.
Arrives(e) == \A p \in Followers : eleptr[e] \notin Spilt(p, hashInfo[e].hashedBy)

\* The elements the leader should find.
Countable(e) ==
  /\ e \in CK!InTable /\ CK!InfoMatchesTable(e)
  /\ eleptr[e] \in Intersection /\ Arrives(e)

FoundSoFar ==
  /\ DOMAIN found = Thread
  /\ \A t \in Thread :
       /\ found[t] \subseteq Past(t)
       /\ \A e \in Past(t) : eleptr[e] \notin garbled => (e \in found[t] <=> Countable(e))
       /\ strategy \notin Gauss => \A e \in found[t] : eleptr[e] \notin garbled
       /\ \A e \in Ele : cursor[t] <= e /\ e < EndPos(t) => eleptr[e] \notin garbled

SharingInv == ASP!IInv /\ crashed = {}
HashInv == CKP!InfoInv

\* What the leader and the parts it is built from keep to, whatever it counts.
LeaderInv ==
  /\ WireInv
  /\ Ended
  /\ SharingInv
  /\ HashInv
  /\ Chosen
  /\ Phase
  /\ Outputs
  /\ Cursors
  /\ Secrets
  /\ OwnXor

\* The whole invariant: what is found, and what is published.
ExactInv == LeaderInv /\ FoundSoFar /\ ExactWhenHashed

-----------------------------------------------------------------------------
(***************************************************************************)
(* The check threads share out the elements: none is left out and none is  *)
(* given to two threads, also when they cannot have equal parts.           *)
(***************************************************************************)
LEMMA Sizes ==
  /\ N \in Nat /\ N >= 2 /\ Leader \in Party /\ Followers # {}
  /\ \A p \in Followers : p \in Party /\ p \in Nat /\ p # 0 /\ p # Leader
  /\ Party = Followers \cup {Leader} /\ Leader \notin Followers
  /\ IsFiniteSet(Party) /\ IsFiniteSet(Followers)
  /\ SetSize \in Nat \ {0} /\ NumBins \in Nat \ {0} /\ SetSize <= NumBins
  /\ MaxBinSize \in Nat \ {0}
<1>1. /\ N \in Nat /\ N >= 2 /\ 1 \in Int /\ N \in Int
      /\ SetSize \in Nat \ {0} /\ NumBins \in Nat \ {0} /\ SetSize <= NumBins
  BY SizesAssumption
<1>2. Leader \in Party /\ 2 \in Followers
  BY <1>1 DEF Party, Leader, Followers
<1>3. IsFiniteSet(Party)
  BY <1>1, FS_Interval DEF Party
<1>4. IsFiniteSet(Followers)
  BY <1>3, FS_Subset, Followers \subseteq Party DEF Followers
<1>. QED BY <1>1, <1>2, <1>3, <1>4, SizesAssumption DEF Followers, Party, Leader

LEMMA DivMonotone ==
  ASSUME NEW a \in Nat, NEW b \in Nat, a <= b, NEW c \in Nat \ {0}
  PROVE  a \div c \in Nat /\ a \div c <= b \div c
OBVIOUS

LEMMA DivMultiple ==
  ASSUME NEW a \in Nat, NEW c \in Nat \ {0}
  PROVE  (c * a) \div c = a
OBVIOUS

LEMMA TimesMonotone ==
  ASSUME NEW a \in Nat, NEW b \in Nat, a <= b, NEW c \in Nat
  PROVE  a * c \in Nat /\ a * c <= b * c
OBVIOUS

LEMMA ThreadCount ==
  /\ Cardinality(Thread) \in Nat \ {0}
  /\ Thread = 0 .. Cardinality(Thread) - 1
<1>. DEFINE n == IF NumCores < SetSize THEN NumCores ELSE SetSize
<1>1. n \in Nat \ {0} /\ 0 \in Int /\ n - 1 \in Int
  BY SizesAssumption
<1>. HIDE DEF n
<1>2. Cardinality(0 .. n - 1) = IF 0 > n - 1 THEN 0 ELSE (n - 1) - 0 + 1
  BY ONLY <1>1, FS_Interval
<1>3. Cardinality(0 .. n - 1) = n
  BY <1>1, <1>2
<1>. QED BY <1>1, <1>3 DEF Thread, n

LEMMA ThreadRanges ==
  /\ \A t \in Thread : /\ StartPos(t) \in Nat /\ EndPos(t) \in Nat
                        /\ StartPos(t) <= EndPos(t) /\ EndPos(t) <= SetSize
  /\ \A t, u \in Thread : t < u => EndPos(t) <= StartPos(u)
<1>. DEFINE n == Cardinality(Thread)
<1>1. n \in Nat \ {0} /\ Thread = 0 .. n - 1 /\ SetSize \in Nat
  BY ThreadCount, Sizes
<1>2. \A t : StartPos(t) = (t * SetSize) \div n /\ EndPos(t) = ((t + 1) * SetSize) \div n
  BY DEF StartPos, EndPos
<1>. HIDE DEF n
<1>3. ASSUME NEW a \in Nat, NEW b \in Nat, a <= b
      PROVE  (a * SetSize) \div n \in Nat /\ (a * SetSize) \div n <= (b * SetSize) \div n
  <2>1. a * SetSize \in Nat /\ b * SetSize \in Nat /\ a * SetSize <= b * SetSize
    BY <1>1, <1>3, TimesMonotone
  <2>. QED BY <2>1, <1>1, DivMonotone
<1>4. (n * SetSize) \div n = SetSize
  BY <1>1, DivMultiple
<1>5. ASSUME NEW t \in Thread
      PROVE  /\ StartPos(t) \in Nat /\ EndPos(t) \in Nat
             /\ StartPos(t) <= EndPos(t) /\ EndPos(t) <= SetSize
  <2>1. t \in Nat /\ t + 1 \in Nat /\ t <= t + 1 /\ t + 1 <= n /\ n \in Nat
    BY <1>1
  <2>. QED BY <2>1, <1>2, <1>3, <1>4
<1>6. ASSUME NEW t \in Thread, NEW u \in Thread, t < u
      PROVE  EndPos(t) <= StartPos(u)
  <2>1. t + 1 \in Nat /\ u \in Nat /\ t + 1 <= u
    BY <1>1, <1>6
  <2>. QED BY <2>1, <1>2, <1>3
<1>. QED BY <1>5, <1>6

LEMMA EveryElementChecked ==
  ASSUME NEW e \in Ele
  PROVE  \E t \in Thread : StartPos(t) <= e /\ e < EndPos(t)
<1>. DEFINE n == Cardinality(Thread)
            S == {t \in Thread : StartPos(t) <= e}
            m == CKP!Last(S)
<1>1. n \in Nat \ {0} /\ Thread = 0 .. n - 1 /\ SetSize \in Nat /\ e \in Nat /\ e < SetSize
  BY ThreadCount, Sizes DEF Ele
<1>2. \A t : StartPos(t) = (t * SetSize) \div n /\ EndPos(t) = ((t + 1) * SetSize) \div n
  BY DEF StartPos, EndPos
<1>. HIDE DEF n
<1>3. StartPos(0) = 0
  <2>1. 0 * SetSize = n * 0 /\ (n * 0) \div n = 0
    BY <1>1, DivMultiple
  <2>. QED BY <2>1, <1>2
<1>4. S \in SUBSET (0 .. n - 1) /\ S # {} /\ n - 1 \in Nat
  BY <1>1, <1>3
<1>. HIDE DEF S
<1>5. m \in S /\ \A k \in S : k <= m
  BY <1>4, CKP!LastExists, Sizes
<1>. HIDE DEF m
<1>6. m \in Thread /\ StartPos(m) <= e
  BY <1>5 DEF S
<1>7. CASE m = n - 1
  <2>1. (m + 1) * SetSize = n * SetSize
    BY <1>1, <1>7
  <2>2. EndPos(m) = SetSize
    BY <2>1, <1>1, <1>2, DivMultiple
  <2>. QED BY <2>2, <1>1, <1>6
<1>8. CASE m # n - 1
  <2>1. m + 1 \in Thread /\ ~(m + 1 <= m)
    BY <1>1, <1>6, <1>8
  <2>2. m + 1 \notin S
    BY <2>1, <1>5
  <2>3. StartPos(m + 1) = EndPos(m) /\ StartPos(m + 1) \in Nat
    BY <2>1, <1>2, ThreadRanges
  <2>. QED BY <2>1, <2>2, <2>3, <1>1, <1>6 DEF S
<1>. QED BY <1>7, <1>8

-----------------------------------------------------------------------------
(***************************************************************************)
(* Strings.  What a follower sends for an element is a string of its own,  *)
(* an OPRG output or garbage nobody else has, and its part of the shares.  *)
(***************************************************************************)

OwnTo(p, x) == x[1] \in {"oprg", "rand"} /\ x[2] = p

\* c[p] is the own string x[p] of p and the strings E[p] of the shares.
Parts(c, x, E) ==
  \A p \in Followers : /\ c[p] = {x[p]} \cup E[p]
                       /\ OwnTo(p, x[p])
                       /\ \A a \in E[p] : a[1] = "prg"

\* A string only one follower has does not cancel.
LEMMA OneHolder ==
  ASSUME NEW c, NEW p \in Followers, NEW a \in c[p], \A q \in Followers : a \in c[q] => q = p
  PROVE  a \in XorAll(c)
<1>1. {q \in Followers : a \in c[q]} = {p}
  OBVIOUS
<1>2. Cardinality({p}) = 1
  BY FS_Singleton
<1>3. Cardinality({q \in Followers : a \in c[q]}) % 2 = 1
  BY <1>1, <1>2
<1>. QED BY <1>3 DEF XorAll

LEMMA OwnStrings ==
  ASSUME NEW c, NEW x, NEW E, Parts(c, x, E), NEW p \in Followers
  PROVE  x[p] \in XorAll(c)
<1>1. x[p] \in c[p] /\ OwnTo(p, x[p])
  BY DEF Parts
<1>2. ASSUME NEW q \in Followers, x[p] \in c[q] PROVE q = p
  <2>1. x[p] = x[q] \/ x[p] \in E[q]
    BY <1>2 DEF Parts
  <2>2. x[p] \notin E[q]
    BY <1>1 DEF Parts, OwnTo
  <2>. QED BY <1>1, <2>1, <2>2 DEF Parts, OwnTo
<1>. QED BY <1>1, <1>2, OneHolder

\* The instances count as this module does.
LEMMA SameCount ==
  \A S : /\ ASP!Cardinality(S) = Cardinality(S) /\ CKP!Cardinality(S) = Cardinality(S)
         /\ CK!Cardinality(S) = Cardinality(S)
BY DEF ASP!Cardinality, CKP!Cardinality, CK!Cardinality, Cardinality

\* The expansions of the followers' shares make up the leader's.
LEMMA SharesMakeUp ==
  ASSUME SharingInv, expanded = Party, NEW b, NEW a
  PROVE  a \in Expansion(share[Leader], b)
           <=> Cardinality({p \in Followers : a \in Expansion(share[p], b)}) % 2 = 1
<1>. DEFINE Pairs == {s \in Party \X Party : s[1] # s[2]}
<1>1. \A s \in Pairs : Cardinality({p \in Party : s \in share[p]}) % 2 = 0
  <2>1. ASP!SharesCancel
    BY ASP!SharesSum, Sizes DEF SharingInv
  <2>2. ASP!Party = Party /\ ASP!Strings = Pairs
    BY DEF ASP!Party, Party, ASP!Strings
  <2>3. ASP!Cancels(Party)
    BY <2>1, <2>2 DEF ASP!SharesCancel, SharingInv
  <2>4. \A s \in ASP!Strings : Cardinality({p \in Party : s \in share[p]}) % 2 = 0
    BY <2>3, SameCount DEF ASP!Cancels, ASP!Holders
  <2>. HIDE DEF Pairs
  <2>. QED BY <2>2, <2>4
<1>2. \A p \in Party : share[p] \subseteq Pairs
  <2>1. ASP!Shares
    BY DEF SharingInv, ASP!IInv
  <2>. QED BY <2>1 DEF ASP!Shares, ASP!Held, ASP!Strings, ASP!Party, Party
<1>. DEFINE H(S) == {p \in S : a \in Expansion(share[p], b)}
<1>3. Cardinality(H(Party)) % 2 = 0
  <2>1. CASE \E p \in Party : a \in Expansion(share[p], b)
    <3>0. PICK p \in Party : a \in Expansion(share[p], b)
      BY <2>1
    <3>1. PICK s \in share[p] : a = <<"prg", s[1], s[2], b>>
      BY <3>0 DEF Expansion
    <3>2. s \in Pairs
      BY <1>2
    <3>3. ASSUME NEW q \in Party PROVE a \in Expansion(share[q], b) <=> s \in share[q]
      <4>1. ASSUME NEW r \in share[q], a = <<"prg", r[1], r[2], b>> PROVE r = s
        <5>1. r \in Party \X Party /\ s \in Party \X Party
          BY <1>2, <3>2
        <5>2. r[1] = s[1] /\ r[2] = s[2]
          BY <3>1, <4>1
        <5>. QED BY <5>1, <5>2
      <4>. QED BY <3>1, <4>1 DEF Expansion
    <3>4. H(Party) = {q \in Party : s \in share[q]}
      BY <3>3
    <3>. QED BY <1>1, <3>2, <3>4
  <2>2. CASE ~\E p \in Party : a \in Expansion(share[p], b)
    <3>1. H(Party) = {}
      BY <2>2
    <3>. QED BY <3>1, FS_EmptySet
  <2>. QED BY <2>1, <2>2
<1>4. IsFiniteSet(H(Followers)) /\ Cardinality(H(Followers)) \in Nat
  <2>1. H(Followers) \subseteq Followers
    OBVIOUS
  <2>. HIDE DEF H
  <2>. QED BY <2>1, Sizes, FS_Subset, FS_CardinalityType
<1>5. CASE a \in Expansion(share[Leader], b)
  <2>1. H(Party) = H(Followers) \cup {Leader} /\ Leader \notin H(Followers)
    BY <1>5, Sizes
  <2>. HIDE DEF H
  <2>2. Cardinality(H(Party)) = Cardinality(H(Followers)) + 1
    BY <1>4, <2>1, FS_AddElement
  <2>3. Cardinality(H(Followers)) % 2 = 1
    BY <1>3, <1>4, <2>2
  <2>. QED BY <2>3, <1>5 DEF H
<1>6. CASE a \notin Expansion(share[Leader], b)
  <2>1. H(Party) = H(Followers)
    BY <1>6, Sizes
  <2>. QED BY <2>1, <1>3, <1>6
<1>. QED BY <1>5, <1>6

\* What the leader has put into the share of bin b: the outputs y.
InBin(b, y) == Xor(Expansion(share[Leader], b), XorAll([p \in Followers |-> {y[p]}]))

OwnOutputs(y) == \A p \in Followers : OwnTo(p, y[p])

LEMMA ExpansionKind == ASSUME NEW S, NEW b, NEW a \in Expansion(S, b) PROVE a[1] = "prg"
BY DEF Expansion

LEMMA OutputParts ==
  ASSUME NEW y, OwnOutputs(y)
  PROVE  Parts([p \in Followers |-> {y[p]}], y, [p \in Followers |-> {}])
BY DEF Parts, OwnOutputs

\* The followers' strings only take the outputs away if each is one of them.
LEMMA OnlyTheOutputs ==
  ASSUME NEW b, NEW y, NEW c, NEW x, NEW E, Parts(c, x, E), XorAll(c) = InBin(b, y),
         NEW p \in Followers
  PROVE  \E q \in Followers : x[p] = y[q]
<1>1. x[p] \in InBin(b, y) /\ OwnTo(p, x[p])
  BY OwnStrings DEF Parts
<1>2. x[p] \notin Expansion(share[Leader], b)
  BY <1>1, ExpansionKind DEF OwnTo
<1>3. x[p] \in XorAll([q \in Followers |-> {y[q]}])
  BY <1>1, <1>2 DEF InBin, Xor, AS!Xor
<1>. QED BY <1>3 DEF XorAll

\* And then, with the shares of the bin, they do.
LEMMA TheOutputsCancel ==
  ASSUME SharingInv, expanded = Party, NEW b, NEW y, OwnOutputs(y), NEW c,
         \A p \in Followers : c[p] = {y[p]} \cup Expansion(share[p], b)
  PROVE  XorAll(c) = InBin(b, y)
<1>. DEFINE o == [q \in Followers |-> {y[q]}]
            E == [q \in Followers |-> Expansion(share[q], b)]
            L == Expansion(share[Leader], b)
<1>1. Parts(c, y, E) /\ Parts(o, y, [q \in Followers |-> {}])
  BY OutputParts, ExpansionKind DEF Parts, OwnOutputs
<1>2. ASSUME NEW a PROVE a \in XorAll(c) <=> a \in InBin(b, y)
  <2>1. a \in InBin(b, y) <=> (a \in L /\ a \notin XorAll(o)) \/ (a \notin L /\ a \in XorAll(o))
    BY DEF InBin, Xor, AS!Xor
  <2>2. CASE \E p \in Followers : a = y[p]
    <3>. HIDE DEF o, E, L
    <3>1. a \in XorAll(c) /\ a \in XorAll(o)
      BY <1>1, <2>2, OwnStrings
    <3>2. a \notin L
      BY <2>2, ExpansionKind DEF L, OwnOutputs, OwnTo
    <3>. QED BY <2>1, <3>1, <3>2
  <2>3. CASE \A p \in Followers : a # y[p]
    <3>1. a \notin XorAll(o)
      BY <2>3 DEF XorAll
    <3>2. {p \in Followers : a \in c[p]} = {p \in Followers : a \in Expansion(share[p], b)}
      BY <2>3
    <3>3. a \in L <=> Cardinality({p \in Followers : a \in c[p]}) % 2 = 1
      BY <3>2, SharesMakeUp
    <3>4. a \in XorAll(c) <=> Cardinality({p \in Followers : a \in c[p]}) % 2 = 1
      <4>1. ASSUME Cardinality({p \in Followers : a \in c[p]}) % 2 = 1
            PROVE  \E p \in Followers : a \in c[p]
        <5>1. ASSUME {p \in Followers : a \in c[p]} = {} PROVE FALSE
          BY <4>1, <5>1, FS_EmptySet
        <5>. QED BY <5>1
      <4>. QED BY <4>1 DEF XorAll
    <3>. QED BY <2>1, <3>1, <3>3, <3>4
  <2>. QED BY <2>2, <2>3
<1>. QED BY <1>2

-----------------------------------------------------------------------------
(***************************************************************************)
(* What the leader knows of an element when the check threads run.         *)
(***************************************************************************)
LEMMA SameTable ==
  /\ CKP!Null = Null /\ CK!Null = Null /\ CKP!Ele = Ele /\ CKP!Bin = Bin /\ CKP!HF = HF
  /\ CK!Occupied = CKP!Occupied /\ CK!InTable = CKP!InTable
  /\ \A b : CK!Rank(b) = CKP!Rank(b)
  /\ \A e : CK!InfoMatchesTable(e) <=> CKP!InfoMatchesTable(e)
<1>1. /\ CKP!Null = Null /\ CK!Null = Null /\ CKP!Ele = Ele /\ CK!Ele = Ele
      /\ CKP!Bin = Bin /\ CK!Bin = Bin /\ CKP!HF = HF
  BY DEF CKP!Null, CK!Null, Null, CKP!Ele, CK!Ele, Ele, CKP!Bin, CK!Bin, Bin, CKP!HF, HF
<1>2. CK!Occupied = CKP!Occupied
  BY <1>1 DEF CK!Occupied, CKP!Occupied
<1>3. CK!InTable = CKP!InTable
  BY <1>2 DEF CK!InTable, CKP!InTable
<1>4. ASSUME NEW b PROVE CK!Rank(b) = CKP!Rank(b)
  BY <1>2, SameCount DEF CK!Rank, CKP!Rank
<1>5. ASSUME NEW e PROVE CK!InfoMatchesTable(e) <=> CKP!InfoMatchesTable(e)
  BY <1>1, <1>3, <1>4 DEF CK!InfoMatchesTable, CKP!InfoMatchesTable
<1>. QED BY <1>1, <1>2, <1>3, <1>4, <1>5

\* The output of follower p for bin b and value v.
Output(p, b, v) == <<"oprg", p, b, v>>
NoOutput == <<"rand", 0, 0, 0>>

\* The outputs oprg_client leaves at a rank and after the last of them.
LEMMA OutputAt ==
  ASSUME HashInv, hashPc = "done", NEW p, NEW k \in Ele
  PROVE  /\ \A b \in CK!Occupied :
              k = CK!Rank(b) => ClientOutput(p)[k] = {Output(p, b, Value[eleptr[table[b]]])}
         /\ k >= filled => ClientOutput(p)[k] = {NoOutput}
<1>1. bin = NumBins
  BY DEF HashInv, CKP!InfoInv, CKP!LInv, CKP!IInv, CKP!Phases
<1>2. \A b \in CK!Occupied : /\ CK!Rank(b) < filled
                            /\ \A c \in CK!Occupied : CK!Rank(b) = CK!Rank(c) => b = c
  BY <1>1, CKP!RanksOfBins, Sizes, SameTable DEF HashInv
<1>3. ASSUME NEW b \in CK!Occupied, k = CK!Rank(b)
      PROVE  ClientOutput(p)[k] = {Output(p, b, Value[eleptr[table[b]]])}
  <2>1. (CHOOSE c \in CK!Occupied : CK!Rank(c) = k) = b
    BY <1>2, <1>3
  <2>. QED BY <1>3, <2>1 DEF ClientOutput, Output
<1>4. ASSUME k >= filled PROVE ClientOutput(p)[k] = {NoOutput}
  <2>1. filled \in Int /\ k \in Int
    BY DEF HashInv, CKP!InfoInv, CKP!LInv, CKP!IInv, CKP!TypeOK, Ele
  <2>2. \A b \in CK!Occupied : CK!Rank(b) # k
    BY <1>2, <1>4, <2>1
  <2>. QED BY <2>2 DEF ClientOutput, NoOutput
<1>. QED BY <1>3, <1>4

\* An element that is not skipped is in the table, in the bin and by the hash
\* function CuckooHashInfo says, and no follower has its dummy there.
LEMMA KnownElement ==
  ASSUME HashInv, hashPc = "done", Chosen, NEW e \in Ele, hashInfo[e].binIndex # Null
  PROVE  LET info == hashInfo[e]
             k == eleptr[e]
         IN  /\ info.binIndex \in Bin /\ info.hashedBy \in HF
             /\ e \in CK!InTable
             /\ info.binIndex \in CK!Occupied /\ table[info.binIndex] = e
             /\ k \in Key /\ k \in set[Leader]
             /\ address[k][info.hashedBy] = info.binIndex
             /\ \A j \in HF : address[k][j] = info.binIndex =>
                   (ServerValue(k, j) # Dummy <=> j = info.hashedBy)
             /\ ServerValue(k, info.hashedBy) = Value[k]
<1>. DEFINE info == hashInfo[e]
            k == eleptr[e]
            h == info.hashedBy
            b == info.binIndex
<1>1. /\ b \in Bin /\ table[b] = e /\ e # Null /\ e \in CK!InTable
  BY SameTable DEF HashInv, CKP!InfoInv, CKP!BinNamed, Ele, Null
<1>2. b \in CK!Occupied
  BY <1>1, SameTable DEF CKP!Occupied
<1>3. info \in [binIndex : Bin \cup {Null}, tableIndex : Ele \cup {Null}, hashedBy : HF]
  BY SameTable DEF HashInv, CKP!InfoInv, CKP!LInv, CKP!IInv, CKP!TypeOK
<1>4. k \in set[Leader] /\ k \in Key
  BY Sizes DEF Chosen
<1>5. address[k][h] = b /\ \A j \in HF : j < h => address[k][j] # b
  <2>1. CKP!HashedByIsNotDummy
    BY CKP!InfoMeansLive, Sizes DEF HashInv
  <2>. QED BY <2>1, SameTable DEF CKP!HashedByIsNotDummy
<1>6. Value[k] # Dummy
  BY <1>4, HashingAssumption
<1>7. h \in HF
  BY <1>3
<1>8. ServerValue(k, h) = Value[k]
  BY <1>5, <1>7 DEF ServerValue
<1>9. ASSUME NEW j \in HF, address[k][j] = b, j # h
      PROVE  ServerValue(k, j) = Dummy
  <2>1. h < j
    BY <1>5, <1>7, <1>9 DEF HF
  <2>. QED BY <1>5, <1>7, <1>9, <2>1 DEF ServerValue
<1>. QED BY <1>1, <1>2, <1>4, <1>5, <1>6, <1>7, <1>8, <1>9

\* The outputs the check threads XOR for an element: its own, or none of a bin.
LEMMA OutputsOf ==
  ASSUME HashInv, hashPc = "done", Chosen, NEW e \in Ele, ~Skipped(e), NEW p
  PROVE  LET info == hashInfo[e]
         IN  /\ info.tableIndex \in Ele
             /\ ClientOutput(p)[info.tableIndex] =
                  IF CK!InfoMatchesTable(e)
                  THEN {Output(p, info.binIndex, Value[eleptr[e]])} ELSE {NoOutput}
<1>. DEFINE info == hashInfo[e]
            b == info.binIndex
            i == info.tableIndex
<1>1. b # Null /\ i # Null
  BY DEF Skipped
<1>2. b \in Bin /\ e \in CK!InTable /\ b \in CK!Occupied /\ table[b] = e
  BY <1>1, KnownElement
<1>3. i \in Ele
  <2>1. info \in [binIndex : Bin \cup {Null}, tableIndex : Ele \cup {Null}, hashedBy : HF]
    BY SameTable DEF HashInv, CKP!InfoInv, CKP!LInv, CKP!IInv, CKP!TypeOK
  <2>. QED BY <1>1, <2>1
<1>4. CASE i = CK!Rank(b)
  <2>1. CK!InfoMatchesTable(e)
    BY <1>2, <1>4, SameTable DEF CKP!InfoMatchesTable
  <2>2. ClientOutput(p)[i] = {Output(p, b, Value[eleptr[e]])}
    <3>. HIDE DEF b, i
    <3>. QED BY <1>2, <1>3, <1>4, OutputAt
  <2>. QED BY <1>3, <2>1, <2>2
<1>5. CASE i # CK!Rank(b)
  <2>1. ~CK!InfoMatchesTable(e)
    BY <1>2, <1>5, SameTable DEF CKP!InfoMatchesTable
  <2>2. i >= filled
    BY <1>2, <1>5, SameTable DEF HashInv, CKP!InfoInv, CKP!RankNamed
  <2>3. ClientOutput(p)[i] = {NoOutput}
    <3>. HIDE DEF i
    <3>. QED BY <1>3, <2>2, OutputAt
  <2>. QED BY <1>3, <2>1, <2>3
<1>. QED BY <1>4, <1>5

-----------------------------------------------------------------------------
(***************************************************************************)
(* The steps of the parts.                                                 *)
(***************************************************************************)
LEMMA ChosenInit == Init => Chosen
<1>. SUFFICES ASSUME Init PROVE Chosen
  OBVIOUS
<1>. QED BY DEF Init, Chosen

LEMMA SameHashing ==
  /\ CK!Init => CKP!Init
  /\ CK!Place \/ CK!Evict \/ CK!GiveUp \/ CK!CopyBin \/ CK!FillBinIndex \/ CK!FillTableIndex
       => CKP!Next
<1>1. CK!Init => CKP!Init
  BY DEF CK!Init, CKP!Init, CK!Null, CKP!Null, CK!NoInfo, CKP!NoInfo, CK!Ele, CKP!Ele,
         CK!Bin, CKP!Bin, CK!HF, CKP!HF
<1>. USE DEF CK!FreeHF, CKP!FreeHF, CK!NextElement, CKP!NextElement, CK!HF, CKP!HF,
             CK!Null, CKP!Null, CK!MaxIterations, CKP!MaxIterations, CK!copying, CKP!copying
<1>2. CK!Place => CKP!Place
  BY DEF CK!Place, CKP!Place
<1>3. CK!Evict => CKP!Evict
  BY DEF CK!Evict, CKP!Evict, CK!EvictHF, CKP!EvictHF, CK!PosXor, CKP!PosXor
<1>4. CK!GiveUp => CKP!GiveUp
  BY DEF CK!GiveUp, CKP!GiveUp
<1>5. CK!CopyBin => CKP!CopyBin
  BY DEF CK!CopyBin, CKP!CopyBin, CK!LowestHF, CKP!LowestHF, CK!inserting, CKP!inserting
<1>6. CK!FillBinIndex => CKP!FillBinIndex
  BY DEF CK!FillBinIndex, CKP!FillBinIndex, CK!BinsOf, CKP!BinsOf, CK!Last, CKP!Last,
         CK!inserting, CKP!inserting, CK!Ele, CKP!Ele, CK!Bin, CKP!Bin
<1>7. CK!FillTableIndex => CKP!FillTableIndex
  BY DEF CK!FillTableIndex, CKP!FillTableIndex, CK!Last, CKP!Last,
         CK!inserting, CKP!inserting, CK!Ele, CKP!Ele
<1>. QED BY <1>1, <1>2, <1>3, <1>4, <1>5, <1>6, <1>7 DEF CKP!Next

LEMMA HashInit == Init => HashInv
<1>1. Init => CK!Init
  BY DEF Init
<1>2. CKP!Init => CKP!InfoInv
  BY CKP!InitInfoInv, Sizes
<1>. QED BY <1>1, <1>2, SameHashing DEF HashInv

LEMMA HashSteps ==
  ASSUME HashInv,
         \/ CK!Place \/ CK!Evict \/ CK!GiveUp \/ CK!CopyBin
         \/ CK!FillBinIndex \/ CK!FillTableIndex
  PROVE  HashInv'
<1>1. CKP!Next
  BY SameHashing
<1>. QED BY <1>1, CKP!InductiveInfo, Sizes DEF HashInv

LEMMA HashKept ==
  ASSUME HashInv, UNCHANGED <<config, hashing>>
  PROVE  HashInv'
<1>1. UNCHANGED CKP!vars
  BY DEF config, hashing, CKP!vars
<1>. QED BY <1>1, CKP!InductiveInfo, Sizes DEF HashInv

LEMMA SharingInit == Init => SharingInv
<1>1. Init => ASP!Init
  BY DEF Init, AS!Init, ASP!Init, AS!Party, ASP!Party
<1>2. ASP!Init => ASP!IInv
  BY ASP!InitIInv, Sizes
<1>. QED BY <1>1, <1>2 DEF SharingInv, ASP!Init

LEMMA SharingKept ==
  ASSUME SharingInv, UNCHANGED sharing
  PROVE  SharingInv'
<1>1. UNCHANGED ASP!shareVars
  BY DEF sharing, ASP!shareVars
<1>2. ASP!IInv'
  BY <1>1, ASP!StutterKeeps, Sizes DEF SharingInv
<1>. QED BY <1>2 DEF SharingInv, sharing

\* A party that has its share keeps it, and no other party gets one by its step.
LEMMA SharingStep ==
  ASSUME SharingInv, NEW p \in Party, AS!Step(p)
  PROVE  /\ SharingInv'
         /\ p \notin expanded
         /\ \A q \in Party : q # p => share'[q] = share[q]
         /\ expanded' = expanded \/ expanded' = expanded \cup {p}
         /\ p \notin expanded' => share' = share
<1>1. ASP!Step(p)
  BY DEF AS!Step, ASP!Step, AS!SendSeed, ASP!SendSeed, AS!ReceiveSeed, ASP!ReceiveSeed,
         AS!Expand, ASP!Expand, AS!Alive, ASP!Alive, AS!Receiving, ASP!Receiving,
         AS!Uninit, ASP!Uninit, AS!Xor, ASP!Xor
<1>2. p \in ASP!Party
  BY DEF ASP!Party, Party
<1>3. ASP!IInv'
  BY <1>1, <1>2, ASP!SendKeeps, ASP!ReceiveKeeps, ASP!ExpandKeeps, Sizes
     DEF SharingInv, ASP!Step
<1>4. crashed' = {}
  BY DEF SharingInv, AS!Step, AS!SendSeed, AS!ReceiveSeed, AS!Expand
<1>5. p \notin expanded
  <2>1. sendTo[p] \in Int /\ (p \in expanded => sendTo[p] = N + 1 /\ recvFrom[p] = p)
    BY <1>2, Sizes DEF SharingInv, ASP!IInv, ASP!Counters
  <2>2. recvFrom[p] \in Int
    BY <1>2 DEF SharingInv, ASP!IInv, ASP!Counters
  <2>. QED BY <2>1, <2>2, Sizes DEF AS!Step, AS!SendSeed, AS!ReceiveSeed, AS!Receiving, AS!Expand
<1>6. \A q \in Party : q # p => share'[q] = share[q]
  <2>1. DOMAIN share = Party
    BY DEF SharingInv, ASP!IInv, ASP!Shares, ASP!Party, Party
  <2>2. share' = share \/ share' = [share EXCEPT ![p] = acc[p]]
    BY DEF AS!Step, AS!SendSeed, AS!ReceiveSeed, AS!Expand
  <2>. QED BY <2>1, <2>2
<1>7. expanded' = expanded \/ expanded' = expanded \cup {p}
  BY DEF AS!Step, AS!SendSeed, AS!ReceiveSeed, AS!Expand
<1>8. p \notin expanded' => share' = share
  BY DEF AS!Step, AS!SendSeed, AS!ReceiveSeed, AS!Expand
<1>. QED BY <1>3, <1>4, <1>5, <1>6, <1>7, <1>8 DEF SharingInv

-----------------------------------------------------------------------------
(***************************************************************************)
(* The check threads and their bins.                                       *)
(***************************************************************************)
LEMMA RunningElement ==
  ASSUME Cursors, NEW t \in Thread, Running(t)
  PROVE  /\ cursor[t] \in Ele /\ cursor[t] \in Nat
         /\ StartPos(t) <= cursor[t] + 1 /\ cursor[t] + 1 <= EndPos(t)
<1>1. /\ cursor[t] \in Nat /\ cursor[t] < EndPos(t) /\ EndPos(t) \in Nat /\ EndPos(t) <= SetSize
      /\ SetSize \in Nat /\ StartPos(t) \in Nat /\ StartPos(t) <= cursor[t]
  BY ThreadRanges, Sizes DEF Cursors, Running
<1>. QED BY <1>1 DEF Ele

\* No thread has been at an element that another one is about to check.
LEMMA NotYetTouched ==
  ASSUME Cursors, NEW t \in Thread, Running(t), NEW u \in Thread
  PROVE  cursor[t] \notin Past(u) /\ (cursor[t] \in Touched(u) => u = t /\ t \in xored)
<1>1. ASSUME NEW r \in Thread PROVE cursor[r] \in Nat /\ StartPos(r) \in Nat /\ EndPos(r) \in Nat
                                    /\ StartPos(r) <= cursor[r] /\ cursor[r] <= EndPos(r)
  BY ThreadRanges DEF Cursors
<1>2. cursor[t] < EndPos(t)
  BY DEF Running
<1>3. t \in Int /\ u \in Int
  BY ThreadCount
<1>4. ASSUME NEW e \in Int, StartPos(u) <= e, e < EndPos(u), e = cursor[t] PROVE u = t
  <2>1. CASE u < t
    BY <2>1, <1>1, <1>4, ThreadRanges
  <2>2. CASE t < u
    BY <2>2, <1>1, <1>2, <1>4, ThreadRanges
  <2>. QED BY <1>3, <2>1, <2>2
<1>5. cursor[t] \notin Past(u)
  <2>1. SUFFICES ASSUME cursor[t] \in Past(u) PROVE FALSE
    OBVIOUS
  <2>2. /\ StartPos(u) <= cursor[t] /\ cursor[t] < cursor[u] /\ cursor[t] \in Int
        /\ cursor[t] < EndPos(u)
    BY <2>1, <1>1 DEF Past
  <2>3. u = t
    BY <2>2, <1>4
  <2>. QED BY <2>2, <2>3
<1>6. ASSUME cursor[t] \in Touched(u) PROVE u = t /\ t \in xored
  <2>1. u \in xored /\ cursor[t] = cursor[u]
    BY <1>5, <1>6 DEF Touched
  <2>2. cursor[u] < EndPos(u)
    BY <2>1 DEF Cursors, Running
  <2>. QED BY <1>1, <1>4, <2>1, <2>2
<1>. QED BY <1>5, <1>6

\* Elements that are not skipped have bins of their own.
LEMMA OwnBins ==
  ASSUME HashInv, hashPc = "done", Chosen, NEW d \in Ele, NEW e \in Ele,
         hashInfo[d].binIndex = hashInfo[e].binIndex, hashInfo[e].binIndex # Null
  PROVE  d = e
<1>1. table[hashInfo[e].binIndex] = e /\ table[hashInfo[d].binIndex] = d
  BY KnownElement
<1>. QED BY <1>1

LEMMA TouchedElements ==
  ASSUME Cursors, NEW t \in Thread
  PROVE  Touched(t) \subseteq Ele /\ Past(t) \subseteq Ele
<1>1. t \in xored => cursor[t] \in Ele
  BY RunningElement DEF Cursors
<1>. QED BY <1>1 DEF Touched, Past

-----------------------------------------------------------------------------
(***************************************************************************)
(* Every step keeps LeaderInv.                                             *)
(***************************************************************************)
LEMMA OutputSame ==
  ASSUME UNCHANGED <<table, eleptr>>, NEW p
  PROVE  ClientOutput(p)' = ClientOutput(p)
BY DEF ClientOutput, CK!Occupied, CK!Rank

\* Before the check threads start they have done nothing.
LEMMA Idle ==
  ASSUME Cursors, stage \notin {"check", "done"}
  PROVE  xored = {} /\ \A t \in Thread : Past(t) = {} /\ Touched(t) = {} /\ cursor[t] = StartPos(t)
<1>1. xored = {}
  BY DEF Cursors, Running
<1>2. ASSUME NEW t \in Thread PROVE Past(t) = {}
  <2>1. cursor[t] = StartPos(t) /\ StartPos(t) \in Nat
    BY ThreadRanges DEF Cursors
  <2>. QED BY <2>1 DEF Past, Ele
<1>. QED BY <1>1, <1>2 DEF Touched, Cursors

LEMMA CheckingIdle ==
  ASSUME Cursors, Secrets, stage \notin {"check", "done"}, UNCHANGED checking,
         \/ UNCHANGED <<share[Leader], Leader \in expanded>>
         \/ Leader \notin expanded'
  PROVE  Cursors' /\ Secrets' /\ OwnXor'
<1>1. xored = {} /\ UNCHANGED <<secret, cursor, xored>>
  BY Idle DEF checking
<1>2. /\ Cursors'
      /\ OwnXor'
  BY <1>1 DEF Cursors, OwnXor
<1>3. Leader \in expanded => \A b \in Bin : secret[b] = Expansion(share[Leader], b)
  BY Idle DEF Secrets
<1>4. Secrets'
  <2>1. Leader \in expanded' => \A b \in Bin : secret'[b] = Expansion(share[Leader], b)'
    BY <1>1, <1>3 DEF Expansion
  <2>. QED BY <1>1, <2>1 DEF Secrets
<1>. QED BY <1>2, <1>4

\* Steps of others leave the check threads with what they have.
LEMMA CheckingKept ==
  ASSUME Cursors, Secrets, OwnXor,
         UNCHANGED <<checking, hashInfo, leaderResults, share[Leader], Leader \in expanded>>,
         stage' = stage \/ (xored = {} /\ stage' = "done")
  PROVE  Cursors' /\ Secrets' /\ OwnXor'
<1>1. UNCHANGED <<secret, cursor, xored>>
  BY DEF checking
<1>2. Cursors'
  BY <1>1 DEF Cursors, Running, Skipped
<1>3. \A t : Touched(t)' = Touched(t)
  BY <1>1 DEF Touched, Past
<1>4. \A b : Expansion(share[Leader], b)' = Expansion(share[Leader], b)
  BY DEF Expansion
<1>5. Secrets'
  BY <1>1, <1>3, <1>4 DEF Secrets
<1>6. \A i : OutputsAt(i)' = OutputsAt(i)
  BY DEF OutputsAt
<1>7. OwnXor'
  <2>1. SUFFICES ASSUME NEW t \in xored', NEW b, NEW i,
                        b = hashInfo'[cursor'[t]].binIndex, i = hashInfo'[cursor'[t]].tableIndex
                 PROVE  secret'[b] = Xor(Expansion(share[Leader], b)', OutputsAt(i)')
    BY DEF OwnXor, Xor
  <2>2. secret[b] = Xor(Expansion(share[Leader], b), OutputsAt(i))
    BY <1>1, <2>1 DEF OwnXor
  <2>. QED BY <1>1, <1>4, <1>6, <2>2
<1>. QED BY <1>2, <1>5, <1>7

LEMMA LeaderInit == Init => LeaderInv
<1>. SUFFICES ASSUME Init PROVE LeaderInv
  OBVIOUS
<1>1. WireInv /\ Ended /\ SharingInv /\ HashInv /\ Chosen
  BY WireInit, SharingInit, HashInit, ChosenInit DEF Init, Ended, PerFollower
<1>2. Phase
  BY DEF Init, Phase, CK!Init
<1>3. Outputs
  BY DEF Init, Outputs, PerFollower
<1>4. Cursors
  <2>1. \A t \in Thread : StartPos(t) \in Nat /\ StartPos(t) <= StartPos(t) /\ StartPos(t) <= EndPos(t)
    BY ThreadRanges
  <2>2. cursor = [t \in Thread |-> StartPos(t)] /\ xored = {}
    BY DEF Init
  <2>. QED BY <2>1, <2>2 DEF Cursors
<1>5. Secrets /\ OwnXor
  BY DEF Init, AS!Init, Secrets, OwnXor
<1>. QED BY <1>1, <1>2, <1>3, <1>4, <1>5 DEF LeaderInv

\* The steps of the leader and its threads up to the check, and of a follower.
LEMMA BeforeCheck ==
  ASSUME LeaderInv, WireInv', Ended', stage \notin {"check", "done"},
         UNCHANGED <<config, sharing, hashing, checking>>, Phase', Outputs'
  PROVE  LeaderInv'
<1>1. Leader \in Party /\ UNCHANGED <<share[Leader], Leader \in expanded>>
  BY Sizes DEF sharing
<1>2. Cursors' /\ Secrets' /\ OwnXor'
  BY <1>1, CheckingIdle DEF LeaderInv
<1>3. SharingInv' /\ HashInv'
  BY SharingKept, HashKept DEF LeaderInv
<1>4. Chosen'
  BY DEF LeaderInv, Chosen, config
<1>. QED BY <1>2, <1>3, <1>4 DEF LeaderInv

LEMMA LeaderMainSteps ==
  ASSUME LeaderInv, WireInv', Ended',
         StartThreads \/ JoinThreads \/ StartReceivers \/ JoinReceivers \/ FindIntersection
  PROVE  LeaderInv'
<1>1. /\ stage \in {"hash", "oprg", "info", "receive", "find"}
      /\ UNCHANGED <<config, sharing, hashing, checking, ot, leaderResults>>
  BY DEF StartThreads, JoinThreads, StartReceivers, JoinReceivers, FindIntersection
<1>2. UNCHANGED <<expanded, hashPc, table, eleptr, strategy>>
  BY <1>1 DEF config, sharing, hashing
<1>3. Phase'
  BY <1>2 DEF LeaderInv, Phase, StartThreads, JoinThreads, StartReceivers, JoinReceivers,
              FindIntersection
<1>4. Outputs'
  <2>1. stage' # "hash"
    BY DEF StartThreads, JoinThreads, StartReceivers, JoinReceivers, FindIntersection
  <2>2. ASSUME NEW p \in Followers PROVE ClientOutput(p)' = ClientOutput(p)
    BY <1>2, OutputSame
  <2>. QED BY <1>1, <2>1, <2>2 DEF LeaderInv, Outputs
<1>. QED BY <1>1, <1>3, <1>4, BeforeCheck

LEMMA LeaderThreadSteps ==
  ASSUME LeaderInv, WireInv', Ended', NEW p \in Followers, LeaderThread(p)
  PROVE  LeaderInv'
<1>1. stage \in {"hash", "oprg", "receive"}
  BY DEF LeaderThread, OprgStart, OprgFinish, ReceiveMessage, LeaderInv, WireInv, Progress
<1>2. UNCHANGED <<config, sharing, hashing, checking, stage>>
  BY DEF LeaderThread, OprgStart, OprgFinish, ReceiveMessage
<1>3. UNCHANGED <<expanded, hashPc, table, eleptr, strategy>>
  BY <1>2 DEF config, sharing, hashing
<1>4. Phase'
  BY <1>2, <1>3 DEF LeaderInv, Phase
<1>5. ASSUME NEW q \in Followers PROVE ClientOutput(q)' = ClientOutput(q)
  BY <1>3, OutputSame
<1>6. Outputs'
  <2>1. CASE OprgStart(p)
    BY <2>1, <1>5 DEF LeaderInv, Outputs, OprgStart
  <2>2. CASE OprgFinish(p)
    <3>1. /\ leaderResults' = [leaderResults EXCEPT ![p] = ClientOutput(p)]
          /\ ot' = [ot EXCEPT ![p] = "done"] /\ ot[p] = "base"
      BY <2>2 DEF OprgFinish
    <3>2. DOMAIN ot = Followers
      BY DEF LeaderInv, WireInv, WireType
    <3>3. stage' # "hash"
      BY <3>1, <1>2 DEF LeaderInv, Outputs
    <3>. QED BY <3>1, <3>2, <3>3, <1>5 DEF LeaderInv, Outputs
  <2>3. CASE ReceiveMessage(p)
    BY <2>3, <1>5 DEF LeaderInv, Outputs, ReceiveMessage
  <2>. QED BY <2>1, <2>2, <2>3 DEF LeaderThread
<1>. QED BY <1>1, <1>2, <1>4, <1>6, BeforeCheck

\* Hashing and CuckooHashInfo are ready before the check.
LEMMA LeaderHashing ==
  ASSUME LeaderInv, WireInv', Ended', Hash \/ FillInfo
  PROVE  LeaderInv'
<1>1. /\ stage \in {"hash", "info"}
      /\ UNCHANGED <<config, sharing, leading>>
      /\ UNCHANGED <<stage, ot, leaderResults, checking, expanded, strategy, eleptr>>
  BY DEF Hash, FillInfo, leading, config, sharing
<1>2. SharingInv'
  BY <1>1, SharingKept DEF LeaderInv
<1>3. HashInv'
  BY HashSteps DEF LeaderInv, Hash, FillInfo
<1>4. Chosen'
  BY <1>1 DEF LeaderInv, Chosen, config
<1>5. Cursors' /\ Secrets' /\ OwnXor'
  <2>1. Leader \in Party /\ UNCHANGED <<share[Leader], Leader \in expanded>>
    BY <1>1, Sizes DEF sharing
  <2>. QED BY <1>1, <2>1, CheckingIdle DEF LeaderInv
<1>6. CASE Hash
  <2>1. stage = "hash" /\ Leader \in expanded
    BY <1>6 DEF Hash
  <2>2. hashPc' \in {"insert", "copy", "bins"}
    BY <1>6 DEF Hash, CK!Place, CK!Evict, CK!GiveUp, CK!CopyBin, CK!NextElement,
                LeaderInv, Phase
  <2>3. Phase'
    BY <1>1, <2>1, <2>2 DEF Phase
  <2>4. Outputs'
    <3>1. \A p \in Followers : ot'[p] = "start" /\ "start" # "done"
      BY <1>1, <2>1 DEF LeaderInv, Outputs
    <3>. QED BY <1>1, <3>1 DEF LeaderInv, Outputs
  <2>. QED BY <1>2, <1>3, <1>4, <1>5, <2>3, <2>4 DEF LeaderInv
<1>7. CASE FillInfo
  <2>1. stage = "info" /\ hashPc' \in {"perm", "done"} /\ table' = table
    BY <1>7 DEF FillInfo, CK!FillBinIndex, CK!FillTableIndex, CK!inserting
  <2>2. Phase'
    BY <1>1, <2>1 DEF Phase, LeaderInv
  <2>3. Outputs'
    <3>1. ASSUME NEW q \in Followers PROVE ClientOutput(q)' = ClientOutput(q)
      BY <1>1, <2>1, OutputSame
    <3>. QED BY <1>1, <2>1, <3>1 DEF LeaderInv, Outputs
  <2>. QED BY <1>2, <1>3, <1>4, <1>5, <2>2, <2>3 DEF LeaderInv
<1>. QED BY <1>6, <1>7

\* The followers' steps and the end of the run.
LEMMA AllKept ==
  ASSUME LeaderInv, WireInv', Ended',
         UNCHANGED <<config, sharing, hashing, checking, ot, leaderResults>>,
         stage' = stage \/ (stage = "check" /\ xored = {} /\ stage' = "done")
  PROVE  LeaderInv'
<1>1. Leader \in Party /\ UNCHANGED <<share[Leader], Leader \in expanded, hashInfo>>
  BY Sizes DEF sharing, hashing
<1>2. Cursors' /\ Secrets' /\ OwnXor'
  BY <1>1, CheckingKept DEF LeaderInv
<1>3. SharingInv' /\ HashInv'
  BY SharingKept, HashKept DEF LeaderInv
<1>4. Chosen'
  BY DEF LeaderInv, Chosen, config
<1>5. Phase'
  BY DEF LeaderInv, Phase, config, sharing, hashing
<1>6. Outputs'
  <2>1. ASSUME NEW q \in Followers PROVE ClientOutput(q)' = ClientOutput(q)
    BY OutputSame DEF config, hashing
  <2>. QED BY <2>1 DEF LeaderInv, Outputs
<1>. QED BY <1>2, <1>3, <1>4, <1>5, <1>6 DEF LeaderInv

LEMMA LeaderShare ==
  ASSUME LeaderInv, WireInv', Ended', NEW p \in Party, Share(p)
  PROVE  LeaderInv'
<1>1. /\ AS!Step(p)
      /\ UNCHANGED <<config, hashing, stage, ot, leaderResults, cursor, xored, found, garbled>>
      /\ secret' = IF Leader \in expanded' \ expanded
                   THEN [b \in Bin |-> Expansion(share'[Leader], b)] ELSE secret
  BY DEF Share
<1>2. /\ SharingInv' /\ p \notin expanded
      /\ \A q \in Party : q # p => share'[q] = share[q]
      /\ expanded' = expanded \/ expanded' = expanded \cup {p}
      /\ p \notin expanded' => share' = share
  BY <1>1, SharingStep DEF LeaderInv
<1>3. HashInv'
  BY <1>1, HashKept DEF LeaderInv
<1>4. Chosen'
  BY <1>1 DEF LeaderInv, Chosen, config
<1>5. Phase'
  BY <1>1, <1>2 DEF LeaderInv, Phase, config, hashing
<1>6. Outputs'
  <2>1. ASSUME NEW q \in Followers PROVE ClientOutput(q)' = ClientOutput(q)
    BY <1>1, OutputSame DEF config, hashing
  <2>. QED BY <1>1, <2>1 DEF LeaderInv, Outputs
<1>7. Cursors' /\ Secrets' /\ OwnXor'
  <2>1. CASE Leader \in expanded' \ expanded
    <3>1. stage = "hash"
      BY <2>1 DEF LeaderInv, Phase
    <3>2. xored' = {} /\ xored = {}
      BY <1>1, <3>1, Idle DEF LeaderInv
    <3>3. Cursors'
      BY <1>1, <3>1, <3>2 DEF LeaderInv, Cursors
    <3>4. \A b \in Bin : secret'[b] = Expansion(share'[Leader], b)
      BY <1>1, <2>1
    <3>5. DOMAIN secret' = Bin
      BY <1>1, <2>1
    <3>6. Secrets'
      <4>1. \A b \in Bin : secret'[b] = Expansion(share[Leader], b)'
        BY <3>4 DEF Expansion
      <4>. QED BY <3>5, <4>1 DEF Secrets
    <3>. QED BY <3>2, <3>3, <3>6 DEF OwnXor
  <2>2. CASE Leader \notin expanded' /\ Leader \notin expanded
    <3>1. stage \notin {"check", "done"} /\ UNCHANGED checking
      BY <1>1, <2>2 DEF LeaderInv, Phase, checking
    <3>. QED BY <2>2, <3>1, CheckingIdle DEF LeaderInv
  <2>3. CASE Leader \in expanded
    <3>1. UNCHANGED <<checking, hashInfo, leaderResults, stage>>
      BY <1>1, <2>3 DEF checking, hashing
    <3>2. UNCHANGED <<share[Leader], Leader \in expanded>>
      BY <1>2, <2>3, Sizes
    <3>. QED BY <3>1, <3>2, CheckingKept DEF LeaderInv
  <2>. QED BY <1>2, <2>1, <2>2, <2>3
<1>. QED BY <1>2, <1>3, <1>4, <1>5, <1>6, <1>7 DEF LeaderInv

\* What is settled when the check threads run.
LEMMA WhileChecking ==
  ASSUME LeaderInv, stage = "check"
  PROVE  /\ hashPc = "done" /\ Leader \in expanded /\ strategy # "TWO_PARTY"
         /\ \A p \in Followers : leaderResults[p] = ClientOutput(p)
<1>1. hashPc = "done" /\ Leader \in expanded /\ strategy # "TWO_PARTY"
  BY DEF LeaderInv, Phase
<1>2. ASSUME NEW p \in Followers PROVE leaderResults[p] = ClientOutput(p)
  BY DEF LeaderInv, WireInv, Progress, Outputs
<1>. QED BY <1>1, <1>2

LEMMA CheckFrame ==
  ASSUME LeaderInv, WireInv', Ended', UNCHANGED <<config, sharing, hashing, stage, ot, leaderResults>>,
         Cursors', Secrets', OwnXor'
  PROVE  LeaderInv'
<1>1. SharingInv' /\ HashInv'
  BY SharingKept, HashKept DEF LeaderInv
<1>2. Chosen'
  BY DEF LeaderInv, Chosen, config
<1>3. Phase'
  BY DEF LeaderInv, Phase, config, sharing, hashing
<1>4. Outputs'
  <2>1. ASSUME NEW q \in Followers PROVE ClientOutput(q)' = ClientOutput(q)
    BY OutputSame DEF config, hashing
  <2>. QED BY <2>1 DEF LeaderInv, Outputs
<1>. QED BY <1>1, <1>2, <1>3, <1>4 DEF LeaderInv

\* The end of an iteration moves the cursor over the element.
LEMMA AdvanceMoves ==
  ASSUME Cursors, NEW t \in Thread, Running(t), Advance(t), xored' = xored \ {t},
         UNCHANGED <<stage, hashInfo>>
  PROVE  /\ Cursors'
         /\ \A u \in Thread : Touched(u)' = IF u = t THEN Past(t) \cup {cursor[t]} ELSE Touched(u)
         /\ \A u \in Thread : Past(u)' = IF u = t THEN Past(t) \cup {cursor[t]} ELSE Past(u)
         /\ \A u \in Thread : cursor'[u] = IF u = t THEN cursor[t] + 1 ELSE cursor[u]
<1>1. \A u \in Thread : cursor'[u] = IF u = t THEN cursor[t] + 1 ELSE cursor[u]
  BY DEF Advance, Cursors
<1>2. /\ cursor[t] \in Ele /\ cursor[t] \in Nat
      /\ StartPos(t) <= cursor[t] + 1 /\ cursor[t] + 1 <= EndPos(t)
  BY RunningElement
<1>3. Cursors'
  <2>1. cursor' \in [Thread -> Nat]
    BY <1>1, <1>2 DEF Cursors, Advance
  <2>2. \A u \in Thread : StartPos(u) <= cursor'[u] /\ cursor'[u] <= EndPos(u)
    BY <1>1, <1>2 DEF Cursors
  <2>3. \A u \in xored' : (Running(u) /\ ~Skipped(cursor[u]))'
    <3>1. SUFFICES ASSUME NEW u \in xored' PROVE (Running(u) /\ ~Skipped(cursor[u]))'
      OBVIOUS
    <3>2. u \in xored /\ u # t /\ u \in Thread /\ cursor'[u] = cursor[u]
      BY <1>1 DEF Cursors
    <3>3. Running(u)'
      BY <3>2 DEF Cursors, Running
    <3>4. ~Skipped(cursor[u])'
      BY <3>2 DEF Cursors, Skipped
    <3>. QED BY <3>3, <3>4
  <2>4. stage = "check"
    BY DEF Running
  <2>. QED BY <2>1, <2>2, <2>3, <2>4 DEF Cursors
<1>4. ASSUME NEW u \in Thread
      PROVE  Past(u)' = IF u = t THEN Past(t) \cup {cursor[t]} ELSE Past(u)
  <2>1. CASE u # t
    BY <2>1, <1>1 DEF Past
  <2>2. CASE u = t
    <3>1. ASSUME NEW e \in Ele PROVE e < cursor[t] + 1 <=> e < cursor[t] \/ e = cursor[t]
      BY <1>2 DEF Ele
    <3>2. StartPos(t) <= cursor[t]
      BY DEF Cursors
    <3>. QED BY <2>2, <1>1, <1>2, <3>1, <3>2 DEF Past
  <2>. QED BY <2>1, <2>2
<1>5. ASSUME NEW u \in Thread
      PROVE  Touched(u)' = IF u = t THEN Past(t) \cup {cursor[t]} ELSE Touched(u)
  BY <1>1, <1>4 DEF Touched
<1>. QED BY <1>1, <1>3, <1>4, <1>5

LEMMA LeaderSkip ==
  ASSUME LeaderInv, WireInv', Ended', NEW t \in Thread, CheckSkip(t)
  PROVE  LeaderInv'
<1>1. /\ Running(t) /\ Skipped(cursor[t]) /\ Advance(t)
      /\ UNCHANGED <<config, sharing, hashing, stage, ot, leaderResults, secret, xored, hashInfo>>
  BY DEF CheckSkip, hashing
<1>2. t \notin xored /\ xored' = xored \ {t}
  BY <1>1 DEF LeaderInv, Cursors
<1>3. /\ Cursors' /\ \A u \in Thread : Touched(u) \subseteq Touched(u)'
      /\ \A u \in Thread : cursor'[u] = IF u = t THEN cursor[t] + 1 ELSE cursor[u]
  BY <1>1, <1>2, AdvanceMoves DEF LeaderInv, Touched
<1>4. \A b : Expansion(share[Leader], b)' = Expansion(share[Leader], b)
  BY <1>1 DEF Expansion, sharing
<1>5. Secrets'
  <2>1. expanded' = expanded
    BY <1>1 DEF sharing
  <2>. QED BY <1>1, <1>3, <1>4, <2>1 DEF LeaderInv, Secrets
<1>6. \A i : OutputsAt(i)' = OutputsAt(i)
  BY <1>1 DEF OutputsAt
<1>7. OwnXor'
  <2>1. SUFFICES ASSUME NEW u \in xored', NEW b, NEW i,
                        b = hashInfo'[cursor'[u]].binIndex, i = hashInfo'[cursor'[u]].tableIndex
                 PROVE  secret'[b] = Xor(Expansion(share[Leader], b)', OutputsAt(i)')
    BY DEF OwnXor, Xor
  <2>2. u \in xored /\ cursor'[u] = cursor[u]
    BY <1>1, <1>2, <1>3 DEF LeaderInv, Cursors
  <2>3. secret[b] = Xor(Expansion(share[Leader], b), OutputsAt(i))
    BY <1>1, <2>1, <2>2 DEF LeaderInv, OwnXor
  <2>. QED BY <1>1, <1>4, <1>6, <2>3
<1>. QED BY <1>1, <1>3, <1>5, <1>7, CheckFrame

LEMMA LeaderXor ==
  ASSUME LeaderInv, WireInv', Ended', NEW t \in Thread, CheckXor(t)
  PROVE  LeaderInv'
<1>. DEFINE e == cursor[t]
            d == hashInfo[e].binIndex
            k == hashInfo[e].tableIndex
<1>1. /\ Running(t) /\ t \notin xored /\ ~Skipped(e) /\ xored' = xored \cup {t}
      /\ UNCHANGED <<config, sharing, hashing, stage, ot, leaderResults, cursor, hashInfo>>
  BY DEF CheckXor, hashing
<1>2. secret' = [secret EXCEPT ![d] = Xor(@, OutputsAt(k))]
  BY DEF CheckXor, XorOver, OutputsAt, XorAll
<1>3. stage = "check" /\ hashPc = "done" /\ e \in Ele /\ d # Null /\ t \in Thread
  BY <1>1, WhileChecking, RunningElement DEF LeaderInv, Running, Skipped
<1>4. d \in Bin /\ Leader \in expanded
  BY <1>3, KnownElement, WhileChecking DEF LeaderInv
<1>5. \A b \in Bin : secret'[b] = IF b = d THEN Xor(secret[d], OutputsAt(k)) ELSE secret[b]
  BY <1>2, <1>4 DEF LeaderInv, Secrets
<1>6. \A b : Expansion(share[Leader], b)' = Expansion(share[Leader], b)
  BY <1>1 DEF Expansion, sharing
<1>7. \A i : OutputsAt(i)' = OutputsAt(i)
  BY <1>1 DEF OutputsAt
<1>8. secret[d] = Expansion(share[Leader], d)
  <2>1. ASSUME NEW u \in Thread, NEW x \in Touched(u) PROVE hashInfo[x].binIndex # d
    <3>1. x \in Ele
      BY TouchedElements DEF LeaderInv
    <3>2. x # e
      BY <1>1, NotYetTouched DEF LeaderInv
    <3>. QED BY <1>3, <3>1, <3>2, OwnBins DEF LeaderInv
  <2>. QED BY <1>4, <2>1 DEF LeaderInv, Secrets
<1>9. Cursors'
  BY <1>1 DEF LeaderInv, Cursors, Running, Skipped
<1>10. Secrets'
  <2>1. ASSUME NEW b \in Bin,
               \A u \in Thread : \A x \in Touched(u)' : hashInfo[x].binIndex # b
        PROVE  secret'[b] = Expansion(share[Leader], b)
    <3>1. e \in Touched(t)'
      BY <1>1 DEF Touched
    <3>2. b # d
      BY <2>1, <3>1
    <3>3. \A u \in Thread : Touched(u) \subseteq Touched(u)'
      BY <1>1 DEF Touched, Past
    <3>. QED BY <1>4, <1>5, <2>1, <3>2, <3>3 DEF LeaderInv, Secrets
  <2>2. DOMAIN secret' = Bin
    BY <1>2 DEF LeaderInv, Secrets
  <2>. QED BY <1>1, <1>6, <2>1, <2>2 DEF Secrets
<1>11. OwnXor'
  <2>1. SUFFICES ASSUME NEW u \in xored', NEW b, NEW i,
                        b = hashInfo'[cursor'[u]].binIndex, i = hashInfo'[cursor'[u]].tableIndex
                 PROVE  secret'[b] = Xor(Expansion(share[Leader], b)', OutputsAt(i)')
    BY DEF OwnXor, Xor
  <2>2. CASE u = t
    BY <1>1, <1>4, <1>5, <1>6, <1>7, <1>8, <2>1, <2>2
  <2>3. CASE u # t
    <3>1. /\ u \in xored /\ u \in Thread /\ Running(u) /\ ~Skipped(cursor[u])
          /\ b = hashInfo[cursor[u]].binIndex /\ i = hashInfo[cursor[u]].tableIndex
      BY <1>1, <2>1, <2>3 DEF LeaderInv, Cursors
    <3>2. cursor[u] \in Ele /\ b # Null
      BY <3>1, RunningElement DEF LeaderInv, Skipped
    <3>3. b \in Bin
      BY <1>3, <3>1, <3>2, KnownElement DEF LeaderInv
    <3>4. cursor[u] \in Touched(u)
      BY <3>1 DEF Touched
    <3>5. cursor[u] # e
      BY <1>1, <2>3, <3>1, <3>4, NotYetTouched DEF LeaderInv
    <3>6. b # d
      BY <1>3, <3>1, <3>2, <3>5, OwnBins DEF LeaderInv
    <3>7. secret[b] = Xor(Expansion(share[Leader], b), OutputsAt(i))
      BY <3>1 DEF LeaderInv, OwnXor
    <3>. QED BY <1>5, <1>6, <1>7, <3>3, <3>6, <3>7
  <2>. QED BY <2>2, <2>3
<1>. QED BY <1>1, <1>9, <1>10, <1>11, CheckFrame

\* The end of an iteration changes the share of the element's bin only.
LEMMA LeaderCheckEnd ==
  ASSUME LeaderInv, WireInv', Ended', NEW t \in Thread, Running(t), t \in xored,
         NEW hit, NEW rest, CheckEnd(t, hit, rest)
  PROVE  LeaderInv'
<1>. DEFINE e == cursor[t]
            d == hashInfo[e].binIndex
<1>1. /\ Advance(t) /\ xored' = xored \ {t} /\ secret' = [secret EXCEPT ![d] = rest]
      /\ UNCHANGED <<config, sharing, hashing, stage, ot, leaderResults, hashInfo>>
  BY DEF CheckEnd, hashing
<1>2. ~Skipped(e) /\ stage = "check" /\ hashPc = "done" /\ e \in Ele /\ d # Null
  BY WhileChecking, RunningElement DEF LeaderInv, Cursors, Running, Skipped
<1>3. d \in Bin
  BY <1>2, KnownElement DEF LeaderInv
<1>4. \A b \in Bin : b # d => secret'[b] = secret[b]
  BY <1>1, <1>3 DEF LeaderInv, Secrets
<1>5. /\ Cursors'
      /\ \A u \in Thread : Touched(u)' = IF u = t THEN Past(t) \cup {e} ELSE Touched(u)
      /\ \A u \in Thread : cursor'[u] = IF u = t THEN e + 1 ELSE cursor[u]
  BY <1>1, AdvanceMoves DEF LeaderInv
<1>6. \A b : Expansion(share[Leader], b)' = Expansion(share[Leader], b)
  BY <1>1 DEF Expansion, sharing
<1>7. \A i : OutputsAt(i)' = OutputsAt(i)
  BY <1>1 DEF OutputsAt
<1>8. Secrets'
  <2>1. ASSUME NEW b \in Bin, Leader \in expanded,
               \A u \in Thread : \A x \in Touched(u)' : hashInfo[x].binIndex # b
        PROVE  secret'[b] = Expansion(share[Leader], b)
    <3>1. e \in Touched(t)'
      BY <1>5
    <3>2. \A u \in Thread : Touched(u) \subseteq Touched(u)'
      BY <1>5 DEF Touched
    <3>. QED BY <1>4, <2>1, <3>1, <3>2 DEF LeaderInv, Secrets
  <2>2. DOMAIN secret' = Bin
    BY <1>1 DEF LeaderInv, Secrets
  <2>3. expanded' = expanded
    BY <1>1 DEF sharing
  <2>. QED BY <1>1, <1>6, <2>1, <2>2, <2>3 DEF Secrets
<1>9. OwnXor'
  <2>1. SUFFICES ASSUME NEW u \in xored', NEW b, NEW i,
                        b = hashInfo'[cursor'[u]].binIndex, i = hashInfo'[cursor'[u]].tableIndex
                 PROVE  secret'[b] = Xor(Expansion(share[Leader], b)', OutputsAt(i)')
    BY DEF OwnXor, Xor
  <2>2. /\ u \in xored /\ u # t /\ u \in Thread /\ Running(u) /\ ~Skipped(cursor[u])
    BY <1>1, <2>1 DEF LeaderInv, Cursors
  <2>3. b = hashInfo[cursor[u]].binIndex /\ i = hashInfo[cursor[u]].tableIndex
    BY <1>1, <1>5, <2>1, <2>2
  <2>4. cursor[u] \in Ele /\ b # Null
    BY <2>2, <2>3, RunningElement DEF LeaderInv, Skipped
  <2>5. b \in Bin
    BY <1>2, <2>3, <2>4, KnownElement DEF LeaderInv
  <2>6. cursor[u] \in Touched(u)
    BY <2>2 DEF Touched
  <2>7. cursor[u] # e
    BY <2>2, <2>6, NotYetTouched DEF LeaderInv
  <2>8. b # d
    BY <1>2, <2>3, <2>4, <2>7, OwnBins DEF LeaderInv
  <2>9. secret[b] = Xor(Expansion(share[Leader], b), OutputsAt(i))
    BY <2>2, <2>3 DEF LeaderInv, OwnXor
  <2>. QED BY <1>4, <1>6, <1>7, <2>5, <2>8, <2>9
<1>. QED BY <1>1, <1>5, <1>8, <1>9, CheckFrame

LEMMA LeaderStep == LeaderInv /\ [Next]_vars => LeaderInv'
<1>. SUFFICES ASSUME LeaderInv, [Next]_vars PROVE LeaderInv'
  OBVIOUS
<1>0. WireInv' /\ Ended'
  BY WireStep, EndedStep DEF LeaderInv, WireInv
<1>1. ASSUME NEW p \in Party, Share(p) PROVE LeaderInv'
  BY <1>0, <1>1, LeaderShare
<1>2. CASE Hash \/ FillInfo
  BY <1>0, <1>2, LeaderHashing
<1>3. CASE StartThreads \/ JoinThreads \/ StartReceivers \/ JoinReceivers \/ FindIntersection
  BY <1>0, <1>3, LeaderMainSteps
<1>4. CASE Publish
  <2>1. xored = {}
    BY <1>4 DEF Publish, LeaderInv, Cursors
  <2>. QED BY <1>0, <1>4, <2>1, AllKept DEF Publish
<1>5. ASSUME NEW p \in Followers, LeaderThread(p) PROVE LeaderInv'
  BY <1>0, <1>5, LeaderThreadSteps
<1>6. ASSUME NEW p \in Followers, FollowerStep(p) PROVE LeaderInv'
  <2>1. UNCHANGED <<config, sharing, hashing, leading>>
    BY <1>6 DEF FollowerStep, BaseOT, Matrix, SendMessage, GoDown, Closed
  <2>. QED BY <1>0, <2>1, AllKept DEF leading
<1>7. ASSUME NEW t \in Thread, CheckThread(t) PROVE LeaderInv'
  <2>1. CASE CheckSkip(t)
    BY <1>0, <2>1, LeaderSkip
  <2>2. CASE CheckXor(t)
    BY <1>0, <2>2, LeaderXor
  <2>3. CASE CheckSearch(t) \/ CheckSolve(t) \/ CheckEvaluate(t)
    <3>1. /\ Running(t) /\ t \in xored
          /\ \E hit, rest : CheckEnd(t, hit, rest)
      BY <2>3 DEF CheckSearch, CheckSolve, CheckEvaluate
    <3>. QED BY <1>0, <3>1, LeaderCheckEnd
  <2>. QED BY <1>7, <2>1, <2>2, <2>3 DEF CheckThread
<1>8. CASE UNCHANGED vars
  BY <1>0, <1>8, AllKept DEF vars, leading
<1>. QED BY <1>1, <1>2, <1>3, <1>4, <1>5, <1>6, <1>7, <1>8 DEF Next, LeaderMain

\* The leader's invariant holds throughout, for any hashing and strategy.
THEOREM LeaderInvariant == Spec => []LeaderInv
BY LeaderInit, LeaderStep, PTL DEF Spec

\* The check threads never meet in a bin of the share they all change: what a
\* thread has XORed into it is all that is in it (Leader.cpp:31).
THEOREM BinsNeverShared == Spec => []OnlyOwnXor
<1>1. ASSUME OwnXor, NEW t \in xored
      PROVE  LET info == hashInfo[cursor[t]]
                 O(p) == leaderResults[p][info.tableIndex]
             IN  secret[info.binIndex] = Xor(Expansion(share[Leader], info.binIndex),
                                             XorOver(Followers, O))
  BY <1>1 DEF OwnXor, OutputsAt, XorOver, XorAll
<1>2. LeaderInv => OnlyOwnXor
  BY <1>1 DEF LeaderInv, OnlyOwnXor
<1>. QED BY <1>2, LeaderInvariant, PTL

-----------------------------------------------------------------------------
(***************************************************************************)
(* What the check threads find.                                            *)
(***************************************************************************)
LEMMA MaskParts ==
  ASSUME NEW p, NEW k, NEW j
  PROVE  Mask(p, k, j) = {Output(p, address[k][j], ServerValue(k, j))}
                           \cup Expansion(share[p], address[k][j])
<1>1. Output(p, address[k][j], ServerValue(k, j)) \notin Expansion(share[p], address[k][j])
  BY ExpansionKind DEF Output
<1>. QED BY <1>1 DEF Mask, Xor, AS!Xor, Output

\* The blocks of the hash functions are the last messages of a follower.
LEMMA OutgoingBlock ==
  ASSUME NEW p, NEW h \in HF, strategy # "TWO_PARTY"
  PROVE  /\ (NumMessages - Cardinality(HF) + h + 1) \in 1 .. NumMessages
         /\ Outgoing(p)[NumMessages - Cardinality(HF) + h + 1].block = Block(p, h)
<1>. DEFINE blocks == [i \in 1 .. 3 |-> Message("block", Block(p, i - 1))]
<1>1. h + 1 \in 1 .. 3 /\ (h + 1) - 1 = h
  BY DEF HF
<1>2. blocks[h + 1].block = Block(p, h)
  BY <1>1 DEF Message
<1>3. CASE strategy = "BLOOM_FILTER"
  <2>. DEFINE first == <<Message("keys", {})>>
              R == {blocks[i] : i \in 1 .. 3} \cup {Message("keys", {})}
  <2>1. Outgoing(p) = first \o blocks
    BY <1>3, ThreeFunctions DEF Outgoing
  <2>2. /\ blocks \in Seq(R) /\ Len(blocks) = 3 /\ first \in Seq(R) /\ Len(first) = 1
    OBVIOUS
  <2>3. NumMessages - Cardinality(HF) + h + 1 = h + 2 /\ h + 2 \in 2 .. 4 /\ NumMessages = 4
    BY <1>3, MessageCount, ThreeFunctions DEF HF
  <2>. HIDE DEF blocks, first, R
  <2>4. (first \o blocks)[h + 2] = blocks[h + 1]
    <3>1. h + 2 \in 1 .. Len(first) + Len(blocks) /\ ~(h + 2 <= Len(first))
      BY <2>2, <2>3
    <3>2. (first \o blocks)[h + 2] = blocks[(h + 2) - Len(first)]
      BY <3>1, <2>2, ConcatProperties
    <3>3. (h + 2) - Len(first) = h + 1
      BY <2>2 DEF HF
    <3>. QED BY <3>2, <3>3
  <2>5. h + 2 \in 1 .. NumMessages
    BY <2>3
  <2>6. Outgoing(p)[h + 2].block = Block(p, h)
    BY <1>2, <2>1, <2>4
  <2>. QED BY <2>3, <2>5, <2>6
<1>4. CASE strategy # "BLOOM_FILTER"
  <2>1. Outgoing(p) = blocks
    BY <1>4, ThreeFunctions DEF Outgoing
  <2>2. NumMessages - Cardinality(HF) + h + 1 = h + 1 /\ NumMessages = 3
    BY <1>4, MessageCount, ThreeFunctions DEF HF
  <2>. QED BY <1>1, <1>2, <2>1, <2>2
<1>. QED BY <1>3, <1>4

\* When the leader has read everything, every party had its share long since.
LEMMA EverythingRead ==
  ASSUME LeaderInv, stage \in {"find", "check", "done"}
  PROVE  /\ expanded = Party
         /\ \A p \in Followers : \A i \in 1 .. NumMessages :
              /\ received[p][i].block \subseteq Outgoing(p)[i].block
              /\ ~Overruns(p) => received[p][i] = Outgoing(p)[i]
<1>1. ASSUME NEW p \in Followers
      PROVE  /\ p \in expanded
             /\ \A i \in 1 .. NumMessages :
                  /\ received[p][i].block \subseteq Outgoing(p)[i].block
                  /\ ~Overruns(p) => received[p][i] = Outgoing(p)[i]
  <2>1. Progress(p) /\ Wire(p) /\ NumMessages \in Nat \ {0}
    BY MessageCount DEF LeaderInv, WireInv
  <2>2. Len(received[p]) = NumMessages /\ ot[p] = "done"
    BY <2>1 DEF Progress
  <2>3. fstage[p] # "base"
    <3>1. PICK n \in Nat, l \in Nat : n = NumMessages /\ l = Len(toLeader[p])
      BY <2>1, EmptyQueue DEF LeaderInv, WireInv, WireType
    <3>2. SaidBy(p) = 1 + n + l
      BY <2>1, <2>2, <3>1 DEF Wire, ReadOf
    <3>3. SaidBy(p) # 0
      BY <3>2
    <3>. QED BY <3>3 DEF SaidBy
  <2>4. p \in expanded
    BY <2>1, <2>3 DEF Progress
  <2>5. ASSUME NEW i \in 1 .. NumMessages
        PROVE  /\ received[p][i].block \subseteq Outgoing(p)[i].block
               /\ ~Overruns(p) => received[p][i] = Outgoing(p)[i]
    <3>1. Says(p, i + 1, received[p][i])
      BY <2>1, <2>2 DEF Wire
    <3>2. i + 1 # 1 /\ (i + 1) - 1 = i
      BY <2>1
    <3>. QED BY <3>1, <3>2 DEF Script, Says
  <2>. QED BY <2>4, <2>5
<1>2. Leader \in expanded
  BY DEF LeaderInv, Phase
<1>3. expanded \subseteq Party
  BY DEF LeaderInv, SharingInv, ASP!IInv, ASP!Counters, ASP!Party, Party
<1>. QED BY <1>1, <1>2, <1>3, Sizes

LEMMA BlockReceived ==
  ASSUME LeaderInv, stage = "check", NEW p \in Followers, NEW h \in HF
  PROVE  /\ ReceivedBlock(p, h) \subseteq Block(p, h)
         /\ ~Overruns(p) => ReceivedBlock(p, h) = Block(p, h)
<1>1. strategy # "TWO_PARTY"
  BY WhileChecking
<1>. DEFINE i == NumMessages - Cardinality(HF) + h + 1
<1>2. i \in 1 .. NumMessages /\ Outgoing(p)[i].block = Block(p, h)
  BY <1>1, OutgoingBlock
<1>. HIDE DEF i
<1>3. /\ received[p][i].block \subseteq Outgoing(p)[i].block
      /\ ~Overruns(p) => received[p][i] = Outgoing(p)[i]
  BY <1>2, EverythingRead
<1>. QED BY <1>2, <1>3 DEF ReceivedBlock, i

\* A slot belongs to its own bin if its rank is less than the size of a bin.
LEMMA SlotArithmetic ==
  ASSUME NEW M \in Nat \ {0}, NEW b \in Nat, NEW r \in Nat
  PROVE  /\ (b * M + r) \div M = b <=> r < M
         /\ r < M => /\ \A n \in Nat : b < n => b * M + r < n * M
                     /\ \A c \in Nat, q \in Nat : c * M + q = b * M + r => c <= b
<1>1. r < M => (b * M + r) \div M = b
  OBVIOUS
<1>2. (b * M + r) \div M = b => r < M
  OBVIOUS
<1>3. ASSUME r < M, NEW n \in Nat, b < n PROVE b * M + r < n * M
  BY <1>3
<1>4. ASSUME r < M, NEW c \in Nat, NEW q \in Nat, c * M + q = b * M + r PROVE c <= b
  BY <1>4
<1>. QED BY <1>1, <1>2, <1>3, <1>4

LEMMA RankIsNat ==
  ASSUME Chosen, NEW p \in Followers, NEW j, NEW k
  PROVE  Rank(p, j, k) \in Nat
<1>. DEFINE S == {m \in set[p] : /\ EleIndex[p][m] < EleIndex[p][k]
                                /\ address[m][j] = address[k][j]}
<1>1. set[p] \subseteq Key
  BY Sizes DEF Chosen
<1>2. S \subseteq set[p]
  OBVIOUS
<1>. HIDE DEF S
<1>3. IsFiniteSet(S)
  BY <1>1, <1>2, KeyAssumption, FS_Subset
<1>4. Cardinality(S) \in Nat
  BY <1>3, FS_CardinalityType
<1>. QED BY <1>4 DEF Rank, S

\* A mask reaches the slots of its bin exactly if they are not full before it.
LEMMA KeptInPlace ==
  ASSUME Chosen, NEW p \in Followers, NEW j \in HF, NEW k \in set[p], strategy \in Slotted
  PROVE  k \in Kept(p, j) /\ BinFor(p, j, k) = address[k][j] <=> Rank(p, j, k) < MaxBinSize
<1>. DEFINE M == MaxBinSize
            b == address[k][j]
<1>1. /\ M \in Nat \ {0} /\ NumBins \in Nat
      /\ \A m \in set[p] : /\ address[m][j] \in Nat /\ address[m][j] < NumBins
                           /\ Rank(p, j, m) \in Nat
  <2>1. set[p] \subseteq Key /\ address \in [Key -> [HF -> Bin]]
    BY Sizes, HashingAssumption DEF Chosen
  <2>2. \A m \in set[p] : address[m][j] \in Bin
    BY <2>1
  <2>. QED BY <2>2, Sizes, RankIsNat DEF Bin
<1>2. \A m \in set[p] : Slot(p, j, m) = address[m][j] * M + Rank(p, j, m)
  BY DEF Slot
<1>3. BinFor(p, j, k) = (b * M + Rank(p, j, k)) \div M /\ NumSlots = NumBins * M
  BY <1>2 DEF BinFor, NumSlots
<1>4. k \in Kept(p, j) <=> /\ Slot(p, j, k) < NumSlots
                          /\ \A m \in set[p] : Slot(p, j, m) = Slot(p, j, k) => address[m][j] <= b
  BY DEF Kept
<1>. HIDE DEF M, b
<1>5. b \in Nat /\ b < NumBins /\ Rank(p, j, k) \in Nat /\ b = address[k][j]
  BY <1>1 DEF b
<1>6. BinFor(p, j, k) = b <=> Rank(p, j, k) < M
  BY <1>1, <1>3, <1>5, SlotArithmetic
<1>7. ASSUME Rank(p, j, k) < M PROVE k \in Kept(p, j)
  <2>1. /\ b * M + Rank(p, j, k) < NumBins * M
        /\ \A c \in Nat, q \in Nat : c * M + q = b * M + Rank(p, j, k) => c <= b
    BY <1>1, <1>5, <1>7, SlotArithmetic
  <2>2. Slot(p, j, k) = b * M + Rank(p, j, k)
    BY <1>2, <1>5
  <2>3. ASSUME NEW m \in set[p], Slot(p, j, m) = Slot(p, j, k) PROVE address[m][j] <= b
    BY <1>1, <1>2, <2>1, <2>2, <2>3
  <2>4. Slot(p, j, k) < NumSlots
    BY <2>1, <2>2, <1>3
  <2>. QED BY <1>4, <2>3, <2>4
<1>. QED BY <1>5, <1>6, <1>7 DEF M

\* The mask of k is among those the leader looks at for bin b.
InPlace(p, h, b, k) ==
  \E z \in ReceivedBlock(p, h) : z.key = k /\ (strategy \in PerBin => z.bin = b)

\* It is there exactly for the elements that overfull bins do not hide.
LEMMA InPlaceIs ==
  ASSUME LeaderInv, stage = "check", NEW p \in Followers, NEW h \in HF, NEW k
  PROVE  InPlace(p, h, address[k][h], k) <=> k \in set[p] /\ k \notin Spilt(p, h)
<1>. DEFINE b == address[k][h]
            RB == ReceivedBlock(p, h)
<1>1. /\ RB \subseteq Block(p, h) /\ (~Overruns(p) => RB = Block(p, h))
      /\ Chosen
  BY BlockReceived DEF LeaderInv
<1>2. \A z \in Block(p, h) : z.key \in Kept(p, h) /\ z.bin = BinFor(p, h, z.key)
  BY DEF Block
<1>3. k \in Kept(p, h) => \E z \in Block(p, h) : z.key = k
  <2>. DEFINE z == [key |-> k, bin |-> BinFor(p, h, k), mask |-> Mask(p, k, h)]
  <2>1. z.key = k /\ (k \in Kept(p, h) => z \in Block(p, h))
    BY DEF Block
  <2>. HIDE DEF z
  <2>. QED BY <2>1
<1>4. Kept(p, h) \subseteq set[p] /\ (strategy \notin Slotted => Kept(p, h) = set[p])
  BY DEF Kept
<1>5. k \in Spilt(p, h) <=>
        /\ k \in set[p]
        /\ IF Overruns(p) THEN \A z \in RB : z.key = k => z.bin # b
                          ELSE strategy \in Slotted /\ Rank(p, h, k) >= MaxBinSize
  BY DEF Spilt
<1>6. strategy \in Slotted => strategy \in PerBin
  BY DEF PerBin
<1>7. InPlace(p, h, b, k) <=> \E z \in RB : z.key = k /\ (strategy \in PerBin => z.bin = b)
  BY DEF InPlace
<1>. HIDE DEF RB, b
<1>8. ASSUME Overruns(p) PROVE InPlace(p, h, b, k) <=> k \in set[p] /\ k \notin Spilt(p, h)
  <2>1. strategy \in PerBin
    BY <1>8 DEF Overruns, Exhausts, WritesPastEnd, PerBin
  <2>. QED BY <1>1, <1>2, <1>4, <1>5, <1>7, <1>8, <2>1
<1>9. ASSUME ~Overruns(p), strategy \in Slotted
      PROVE  InPlace(p, h, b, k) <=> k \in set[p] /\ k \notin Spilt(p, h)
  <2>1. InPlace(p, h, b, k) <=> k \in Kept(p, h) /\ BinFor(p, h, k) = b
    BY <1>1, <1>2, <1>3, <1>6, <1>7, <1>9
  <2>2. k \in set[p] => (k \in Kept(p, h) /\ BinFor(p, h, k) = b <=> Rank(p, h, k) < MaxBinSize)
    BY <1>1, <1>9, KeptInPlace DEF b
  <2>3. Rank(p, h, k) \in Nat /\ MaxBinSize \in Nat
    BY <1>1, RankIsNat, Sizes
  <2>4. Rank(p, h, k) < MaxBinSize <=> ~(Rank(p, h, k) >= MaxBinSize)
    BY <2>3
  <2>. QED BY <1>4, <1>5, <1>9, <2>1, <2>2, <2>4
<1>10. ASSUME ~Overruns(p), strategy \notin Slotted
       PROVE  InPlace(p, h, b, k) <=> k \in set[p] /\ k \notin Spilt(p, h)
  <2>1. BinFor(p, h, k) = b
    BY <1>10 DEF BinFor, b
  <2>2. InPlace(p, h, b, k) <=> k \in set[p]
    BY <1>1, <1>2, <1>3, <1>4, <1>7, <1>10, <2>1
  <2>. QED BY <1>5, <1>10, <2>2
<1>. QED BY <1>8, <1>9, <1>10 DEF b

\* The outputs a check thread has XORed into the share of its bin.
XoredFor(e) ==
  [p \in Followers |-> IF CK!InfoMatchesTable(e)
                       THEN Output(p, hashInfo[e].binIndex, Value[eleptr[e]]) ELSE NoOutput]

\* Everything a check of element e builds on.
LEMMA AtTheCheck ==
  ASSUME LeaderInv, NEW t \in Thread, Running(t), t \in xored
  PROVE  LET e == cursor[t]
             k == eleptr[e]
             b == hashInfo[e].binIndex
             h == hashInfo[e].hashedBy
         IN  /\ stage = "check" /\ e \in Ele /\ k \in Key /\ b \in Bin /\ h \in HF
             /\ address[k][h] = b /\ ServerValue(k, h) = Value[k]
             /\ secret[b] = InBin(b, XoredFor(e))
             /\ Countable(e) <=> CK!InfoMatchesTable(e) /\ \A p \in Followers : InPlace(p, h, b, k)
<1>. DEFINE e == cursor[t]
            k == eleptr[e]
            b == hashInfo[e].binIndex
            h == hashInfo[e].hashedBy
            i == hashInfo[e].tableIndex
<1>1. /\ stage = "check" /\ hashPc = "done" /\ e \in Ele /\ b # Null /\ ~Skipped(e)
      /\ \A p \in Followers : leaderResults[p] = ClientOutput(p)
  BY WhileChecking, RunningElement DEF LeaderInv, Cursors, Running, Skipped
<1>2. /\ b \in Bin /\ h \in HF /\ k \in Key /\ k \in set[Leader] /\ e \in CK!InTable
      /\ address[k][h] = b /\ ServerValue(k, h) = Value[k]
  BY <1>1, KnownElement DEF LeaderInv
<1>3. ASSUME NEW p \in Followers PROVE leaderResults[p][i] = {XoredFor(e)[p]}
  <2>1. ClientOutput(p)[i] = IF CK!InfoMatchesTable(e)
                             THEN {Output(p, b, Value[k])} ELSE {NoOutput}
    BY <1>1, OutputsOf DEF LeaderInv
  <2>. QED BY <1>1, <2>1 DEF XoredFor
<1>4. OutputsAt(i) = XorAll([p \in Followers |-> {XoredFor(e)[p]}])
  <2>1. [p \in Followers |-> leaderResults[p][i]] = [p \in Followers |-> {XoredFor(e)[p]}]
    BY <1>3
  <2>. QED BY <2>1 DEF OutputsAt
<1>5. secret[b] = InBin(b, XoredFor(e))
  BY <1>4 DEF LeaderInv, OwnXor, InBin
<1>6. Countable(e) <=> CK!InfoMatchesTable(e) /\ \A p \in Followers : InPlace(p, h, b, k)
  <2>1. k \in Intersection <=> \A p \in Followers : k \in set[p]
    BY <1>2, Sizes DEF Intersection
  <2>2. \A p \in Followers : InPlace(p, h, b, k) <=> k \in set[p] /\ k \notin Spilt(p, h)
    BY <1>1, <1>2, InPlaceIs
  <2>3. Countable(e) <=> /\ CK!InfoMatchesTable(e) /\ k \in Intersection
                         /\ \A p \in Followers : k \notin Spilt(p, h)
    BY <1>2 DEF Countable, Arrives
  <2>. HIDE DEF b, h, k
  <2>. QED BY <2>1, <2>2, <2>3
<1>. QED BY <1>1, <1>2, <1>5, <1>6

\* A mask with the string of the element in the bin is a mask of the element.
LEMMA SameElement ==
  ASSUME Chosen, NEW k \in Key, NEW m \in Key, NEW h \in HF,
         ServerValue(m, h) = Value[k], address[m][h] = address[k][h]
  PROVE  m = k
<1>1. address \in Hashings /\ Value[k] # Dummy
  BY HashingAssumption DEF Chosen
<1>2. Value[m] = Value[k]
  BY <1>1 DEF ServerValue
<1>. QED BY <1>1, <1>2, HashingAssumption

\* What the block holds of an element.
LEMMA BlockKey ==
  ASSUME NEW p, NEW h, NEW z \in Block(p, h)
  PROVE  /\ z.key \in set[p]
         /\ z.mask = Mask(p, z.key, h)
BY DEF Block, Kept

LEMMA BlockMasks ==
  ASSUME NEW p, NEW h, NEW b, NEW a, ReceivedBlock(p, h) \subseteq Block(p, h)
  PROVE  a \in Candidates(p, h, b)
           <=> \E m \in set[p] : a = Mask(p, m, h) /\ InPlace(p, h, b, m)
<1>. DEFINE RB == {x \in ReceivedBlock(p, h) : strategy \in PerBin => x.bin = b}
<1>1. \A z \in ReceivedBlock(p, h) : z.key \in set[p] /\ z.mask = Mask(p, z.key, h)
  BY BlockKey
<1>2. a \in Candidates(p, h, b) <=> \E z \in RB : a = z.mask
  BY DEF Candidates
<1>3. \A m : InPlace(p, h, b, m) <=> \E z \in RB : z.key = m
  BY DEF InPlace
<1>4. RB \subseteq ReceivedBlock(p, h)
  OBVIOUS
<1>. HIDE DEF RB
<1>. QED BY <1>1, <1>2, <1>3, <1>4

\* isZeroXOR finds a combination exactly for the elements it should find.
LEMMA SearchFinds ==
  ASSUME LeaderInv, NEW t \in Thread, Running(t), t \in xored
  PROVE  LET info == hashInfo[cursor[t]]
         IN  SomeCombination(info, secret[info.binIndex]) <=> Countable(cursor[t])
<1>. DEFINE e == cursor[t]
            k == eleptr[e]
            b == hashInfo[e].binIndex
            h == hashInfo[e].hashedBy
            y == XoredFor(e)
<1>1. /\ stage = "check" /\ e \in Ele /\ k \in Key /\ b \in Bin /\ h \in HF
      /\ address[k][h] = b /\ ServerValue(k, h) = Value[k]
      /\ secret[b] = InBin(b, y)
      /\ Countable(e) <=> CK!InfoMatchesTable(e) /\ \A p \in Followers : InPlace(p, h, b, k)
  BY AtTheCheck
<1>. DEFINE Tried(p) == Candidates(p, h, b)
            Choices == {c \in [Followers -> UNION {Tried(p) : p \in Followers}] :
                          \A p \in Followers : c[p] \in Tried(p)}
<1>2. ASSUME NEW p \in Followers, NEW a
      PROVE  a \in Tried(p) <=> \E m \in set[p] : a = Mask(p, m, h) /\ InPlace(p, h, b, m)
  <2>1. ReceivedBlock(p, h) \subseteq Block(p, h)
    BY <1>1, BlockReceived
  <2>. HIDE DEF b, h
  <2>. QED BY <2>1, BlockMasks
<1>3. SomeCombination(hashInfo[e], secret[b]) <=> \E c \in Choices : XorAll(c) = InBin(b, y)
  BY <1>1 DEF SomeCombination, XorOver, XorAll
<1>. HIDE DEF Tried
<1>4. ASSUME NEW c \in Choices, XorAll(c) = InBin(b, y) PROVE Countable(e)
  <2>. DEFINE m == [p \in Followers |->
                      CHOOSE n \in set[p] : c[p] = Mask(p, n, h) /\ InPlace(p, h, b, n)]
              x == [p \in Followers |-> Output(p, address[m[p]][h], ServerValue(m[p], h))]
              E == [p \in Followers |-> Expansion(share[p], address[m[p]][h])]
  <2>1. \A p \in Followers : /\ m[p] \in set[p] /\ c[p] = Mask(p, m[p], h)
                             /\ InPlace(p, h, b, m[p])
    <3>. HIDE DEF b, h
    <3>. QED BY <1>2
  <2>2. Parts(c, x, E)
    <3>1. SUFFICES ASSUME NEW p \in Followers
                   PROVE  c[p] = {x[p]} \cup E[p] /\ OwnTo(p, x[p]) /\ \A a \in E[p] : a[1] = "prg"
      BY DEF Parts
    <3>2. c[p] = {x[p]} \cup E[p]
      BY <2>1, MaskParts
    <3>3. OwnTo(p, x[p])
      BY DEF OwnTo, Output
    <3>4. \A a \in E[p] : a[1] = "prg"
      BY ExpansionKind
    <3>. QED BY <3>2, <3>3, <3>4
  <2>3. \A p \in Followers : x[p] = Output(p, address[m[p]][h], ServerValue(m[p], h))
    OBVIOUS
  <2>. HIDE DEF m, x, E
  <2>4. ASSUME NEW p \in Followers PROVE CK!InfoMatchesTable(e) /\ InPlace(p, h, b, k)
    <3>1. PICK q \in Followers : x[p] = y[q]
      BY <1>4, <2>2, OnlyTheOutputs
    <3>2. CK!InfoMatchesTable(e) /\ x[p] = Output(q, b, Value[k])
      BY <2>3, <3>1 DEF XoredFor, Output, NoOutput
    <3>3. address[m[p]][h] = b /\ ServerValue(m[p], h) = Value[k]
      BY <2>3, <3>2 DEF Output
    <3>4. m[p] \in Key
      BY <2>1, Sizes DEF LeaderInv, Chosen
    <3>5. m[p] = k
      BY <1>1, <3>3, <3>4, SameElement DEF LeaderInv
    <3>. QED BY <2>1, <3>2, <3>5
  <2>. QED BY <1>1, <2>4, Sizes
<1>5. ASSUME Countable(e) PROVE \E c \in Choices : XorAll(c) = InBin(b, y)
  <2>. DEFINE c == [p \in Followers |-> Mask(p, k, h)]
  <2>1. CK!InfoMatchesTable(e) /\ \A p \in Followers : InPlace(p, h, b, k) /\ k \in set[p]
    <3>1. CK!InfoMatchesTable(e) /\ \A p \in Followers : InPlace(p, h, b, k)
      BY <1>1, <1>5
    <3>. QED BY <3>1, <1>5 DEF Countable, Intersection, Followers
  <2>2. c \in Choices
    <3>. HIDE DEF b, h, k
    <3>. QED BY <1>2, <2>1
  <2>3. \A p \in Followers : c[p] = {y[p]} \cup Expansion(share[p], b)
    BY <1>1, <2>1, MaskParts DEF XoredFor
  <2>4. OwnOutputs(y)
    BY <2>1 DEF OwnOutputs, OwnTo, XoredFor, Output
  <2>5. expanded = Party
    BY <1>1, EverythingRead
  <2>. HIDE DEF c, y, b
  <2>6. XorAll(c) = InBin(b, y)
    BY <2>3, <2>4, <2>5, TheOutputsCancel DEF LeaderInv
  <2>. QED BY <2>2, <2>6
<1>. QED BY <1>3, <1>4, <1>5

\* The values the leader reads, some of them wrong.
ReadFor(t, wrong) ==
  LET e == cursor[t]
      info == hashInfo[e]
  IN  [p \in Followers |-> IF p \in wrong THEN {<<"rand", p, Cardinality(HF), eleptr[e]>>}
                           ELSE Evaluation(p, info.hashedBy, info.binIndex, eleptr[e])]

\* What isElementInAllSets of the evaluating leaders leaves is zero exactly for
\* the elements it should find, if no value was read wrong.
LEMMA EvaluationFinds ==
  ASSUME LeaderInv, NEW t \in Thread, Running(t), t \in xored, NEW wrong \in SUBSET Followers,
         NEW rest, rest = Xor(secret[hashInfo[cursor[t]].binIndex], XorAll(ReadFor(t, wrong)))
  PROVE  rest = {} <=> wrong = {} /\ Countable(cursor[t])
<1>. DEFINE e == cursor[t]
            k == eleptr[e]
            b == hashInfo[e].binIndex
            h == hashInfo[e].hashedBy
            y == XoredFor(e)
            c == ReadFor(t, wrong)
<1>1. /\ stage = "check" /\ e \in Ele /\ k \in Key /\ b \in Bin /\ h \in HF
      /\ address[k][h] = b /\ ServerValue(k, h) = Value[k]
      /\ secret[b] = InBin(b, y)
      /\ Countable(e) <=> CK!InfoMatchesTable(e) /\ \A p \in Followers : InPlace(p, h, b, k)
  BY AtTheCheck
<1>2. rest = {} <=> XorAll(c) = InBin(b, y)
  <2>1. rest = Xor(InBin(b, y), XorAll(c))
    BY <1>1
  <2>. QED BY <2>1 DEF Xor, AS!Xor
<1>3. ASSUME NEW p \in Followers
      PROVE  Evaluation(p, h, b, k) =
               IF InPlace(p, h, b, k) THEN {Output(p, b, Value[k])} \cup Expansion(share[p], b)
               ELSE {<<"rand", p, h, k>>}
  <2>. DEFINE points == {z \in ReceivedBlock(p, h) : z.key = k /\ (strategy \in PerBin => z.bin = b)}
  <2>1. /\ points # {} <=> InPlace(p, h, b, k)
        /\ \A z \in points : z.mask = Mask(p, k, h)
    <3>1. ReceivedBlock(p, h) \subseteq Block(p, h)
      BY <1>1, BlockReceived
    <3>. HIDE DEF k, b, h
    <3>2. \A z \in points : z \in Block(p, h) /\ z.key = k
      BY <3>1
    <3>3. points # {} <=> InPlace(p, h, b, k)
      BY DEF InPlace
    <3>. HIDE DEF points
    <3>. QED BY <3>2, <3>3, BlockKey
  <2>2. Mask(p, k, h) = {Output(p, b, Value[k])} \cup Expansion(share[p], b)
    BY <1>1, MaskParts
  <2>3. Evaluation(p, h, b, k) = IF points = {} THEN {<<"rand", p, h, k>>}
                                 ELSE (CHOOSE z \in points : TRUE).mask
    BY DEF Evaluation
  <2>4. points # {} => (CHOOSE z \in points : TRUE) \in points
    <3>. HIDE DEF points
    <3>. QED OBVIOUS
  <2>. HIDE DEF points
  <2>5. CASE points = {}
    BY <2>1, <2>3, <2>5
  <2>6. CASE points # {}
    <3>1. (CHOOSE z \in points : TRUE).mask = Mask(p, k, h)
      BY <2>1, <2>4, <2>6
    <3>. QED BY <2>1, <2>2, <2>3, <2>6, <3>1
  <2>. QED BY <2>5, <2>6
<1>. DEFINE Good(p) == p \notin wrong /\ InPlace(p, h, b, k)
            x == [p \in Followers |->
                    IF Good(p) THEN Output(p, b, Value[k])
                    ELSE <<"rand", p, IF p \in wrong THEN Cardinality(HF) ELSE h, k>>]
            E == [p \in Followers |-> IF Good(p) THEN Expansion(share[p], b) ELSE {}]
<1>4. ASSUME NEW p \in Followers PROVE c[p] = {x[p]} \cup E[p]
  BY <1>3 DEF ReadFor
<1>5. ASSUME NEW p \in Followers PROVE OwnTo(p, x[p]) /\ \A a \in E[p] : a[1] = "prg"
  BY ExpansionKind DEF OwnTo, Output
<1>6. Parts(c, x, E)
  BY <1>4, <1>5 DEF Parts
<1>7. ASSUME XorAll(c) = InBin(b, y), NEW p \in Followers
      PROVE  CK!InfoMatchesTable(e) /\ Good(p)
  <2>. HIDE DEF c, E
  <2>1. PICK q \in Followers : x[p] = y[q]
    <3>. HIDE DEF x, y, b
    <3>. QED BY <1>6, <1>7, OnlyTheOutputs
  <2>2. x[p][1] = IF Good(p) THEN "oprg" ELSE "rand"
    BY DEF Output
  <2>3. y[q][1] = IF CK!InfoMatchesTable(e) THEN "oprg" ELSE "rand"
    BY DEF XoredFor, Output, NoOutput
  <2>4. x[p][2] = p /\ (~CK!InfoMatchesTable(e) => y[q][2] = 0)
    BY DEF XoredFor, Output, NoOutput
  <2>. QED BY <2>1, <2>2, <2>3, <2>4, Sizes
<1>8. ASSUME wrong = {}, Countable(e) PROVE XorAll(c) = InBin(b, y)
  <2>1. CK!InfoMatchesTable(e) /\ \A p \in Followers : InPlace(p, h, b, k)
    BY <1>1, <1>8
  <2>2. \A p \in Followers : c[p] = {y[p]} \cup Expansion(share[p], b)
    BY <1>3, <1>8, <2>1 DEF XoredFor, ReadFor
  <2>3. OwnOutputs(y)
    BY <2>1 DEF OwnOutputs, OwnTo, XoredFor, Output
  <2>4. expanded = Party
    BY <1>1, EverythingRead
  <2>. HIDE DEF c, y, b
  <2>. QED BY <2>2, <2>3, <2>4, TheOutputsCancel DEF LeaderInv
<1>9. ASSUME XorAll(c) = InBin(b, y) PROVE wrong = {} /\ Countable(e)
  <2>. HIDE DEF c, y
  <2>. QED BY <1>1, <1>7, <1>9, Sizes
<1>. QED BY <1>2, <1>8, <1>9

-----------------------------------------------------------------------------
(***************************************************************************)
(* What has been found so far is right.                                    *)
(***************************************************************************)
LEMMA SpiltSame ==
  ASSUME UNCHANGED <<config, received>>, NEW p, NEW j
  PROVE  Spilt(p, j)' = Spilt(p, j)
<1>1. UNCHANGED <<strategy, set, address, NumMessages>>
  BY DEF config, NumMessages
<1>2. Overruns(p)' = Overruns(p) /\ \A k : Rank(p, j, k)' = Rank(p, j, k)
  BY <1>1, SlotsSame
<1>3. ReceivedBlock(p, j)' = ReceivedBlock(p, j)
  BY <1>1 DEF ReceivedBlock
<1>. QED BY <1>1, <1>2, <1>3 DEF Spilt

\* Eleptr names an element of the leader once.
LEMMA HiddenMeans ==
  ASSUME Chosen, NEW e \in Ele
  PROVE  eleptr[e] \in Hidden <=> ~Arrives(e)
BY DEF Hidden, Arrives, Chosen

LEMMA CountableSame ==
  ASSUME UNCHANGED <<config, hashing, received>>, NEW e
  PROVE  Countable(e)' <=> Countable(e)
<1>1. UNCHANGED <<table, hashInfo, eleptr, set>>
  BY DEF config, hashing
<1>2. CK!InTable' = CK!InTable /\ (CK!InfoMatchesTable(e)' <=> CK!InfoMatchesTable(e))
  BY <1>1 DEF CK!InTable, CK!Occupied, CK!InfoMatchesTable, CK!Rank
<1>3. Intersection' = Intersection
  BY <1>1 DEF Intersection
<1>4. \A p, j : Spilt(p, j)' = Spilt(p, j)
  BY SpiltSame
<1>5. Arrives(e)' <=> Arrives(e)
  BY <1>1, <1>4 DEF Arrives
<1>. QED BY <1>1, <1>2, <1>3, <1>5 DEF Countable

LEMMA FoundInit == Init => FoundSoFar
<1>. SUFFICES ASSUME Init PROVE FoundSoFar
  OBVIOUS
<1>1. Cursors /\ stage \notin {"check", "done"}
  BY LeaderInit DEF LeaderInv, Init
<1>2. \A t \in Thread : Past(t) = {}
  BY <1>1, Idle
<1>3. found = [t \in Thread |-> {}] /\ garbled = {}
  BY DEF Init
<1>. QED BY <1>2, <1>3 DEF FoundSoFar

LEMMA FoundKept ==
  ASSUME Cursors, FoundSoFar, UNCHANGED <<config, checking>>,
         UNCHANGED <<hashing, received>> \/ stage \notin {"check", "done"}
  PROVE  FoundSoFar'
<1>1. UNCHANGED <<cursor, found, garbled, strategy, eleptr>>
  BY DEF config, checking
<1>2. \A t \in Thread : Past(t)' = Past(t)
  BY <1>1 DEF Past
<1>3. ASSUME NEW t \in Thread, NEW e \in Past(t) PROVE Countable(e)' <=> Countable(e)
  <2>1. CASE UNCHANGED <<hashing, received>>
    BY <2>1, CountableSame
  <2>2. CASE stage \notin {"check", "done"}
    BY <2>2, <1>3, Idle
  <2>. QED BY <2>1, <2>2
<1>. QED BY <1>1, <1>2, <1>3 DEF FoundSoFar

\* The end of an iteration that finds what it should find.
LEMMA FoundAdvance ==
  ASSUME LeaderInv, FoundSoFar, NEW t \in Thread, Running(t), Advance(t), xored' = xored \ {t},
         UNCHANGED <<stage, config, hashing, received>>, NEW hit \in BOOLEAN,
         found' = IF hit THEN [found EXCEPT ![t] = @ \cup {cursor[t]}] ELSE found,
         garbled' = garbled \/ garbled' = garbled \cup {eleptr[cursor[t]]},
         eleptr[cursor[t]] \notin garbled' => (hit <=> Countable(cursor[t])),
         strategy \notin Gauss /\ hit => eleptr[cursor[t]] \notin garbled'
  PROVE  FoundSoFar'
<1>. DEFINE e == cursor[t]
<1>1. UNCHANGED <<hashInfo, eleptr, strategy>>
  BY DEF config, hashing
<1>2. /\ \A u \in Thread : Past(u)' = IF u = t THEN Past(t) \cup {e} ELSE Past(u)
      /\ \A u \in Thread : cursor'[u] = IF u = t THEN e + 1 ELSE cursor[u]
  BY <1>1, AdvanceMoves DEF LeaderInv
<1>3. e \in Ele /\ e \in Nat /\ StartPos(t) <= e /\ e < EndPos(t)
  BY RunningElement DEF LeaderInv, Cursors, Running
<1>4. ASSUME NEW d \in Ele, d # e PROVE eleptr[d] \in garbled' <=> eleptr[d] \in garbled
  <2>1. eleptr[d] # eleptr[e]
    BY <1>3, <1>4 DEF LeaderInv, Chosen
  <2>. QED BY <2>1
<1>5. ASSUME NEW u \in Thread
      PROVE  /\ Past(u) \subseteq Ele /\ e \notin Past(u)
             /\ found'[u] = IF hit /\ u = t THEN found[t] \cup {e} ELSE found[u]
  BY TouchedElements, NotYetTouched DEF LeaderInv, FoundSoFar
<1>6. \A d : Countable(d)' <=> Countable(d)
  BY CountableSame
<1>7. ASSUME NEW u \in Thread
      PROVE  /\ found'[u] \subseteq Past(u)'
             /\ \A d \in Past(u)' : eleptr[d] \notin garbled' => (d \in found'[u] <=> Countable(d))
             /\ strategy \notin Gauss => \A d \in found'[u] : eleptr[d] \notin garbled'
  <2>1. /\ found[u] \subseteq Past(u)
        /\ \A d \in Past(u) : eleptr[d] \notin garbled => (d \in found[u] <=> Countable(d))
        /\ strategy \notin Gauss => \A d \in found[u] : eleptr[d] \notin garbled
    BY DEF FoundSoFar
  <2>2. \A d \in Past(u) : eleptr[d] \in garbled' <=> eleptr[d] \in garbled
    BY <1>4, <1>5
  <2>3. CASE u # t
    BY <1>2, <1>5, <2>1, <2>2, <2>3
  <2>4. CASE u = t
    <3>1. found'[t] = found[t] \cup (IF hit THEN {e} ELSE {}) /\ Past(t)' = Past(t) \cup {e}
      BY <1>2, <1>5, <2>4
    <3>. QED BY <1>5, <2>1, <2>2, <2>4, <3>1
  <2>. QED BY <2>3, <2>4
<1>8. ASSUME NEW u \in Thread, NEW d \in Ele, cursor'[u] <= d, d < EndPos(u)
      PROVE  eleptr[d] \notin garbled'
  <2>1. d \in Int /\ cursor[u] \in Nat
    BY DEF Ele, LeaderInv, Cursors
  <2>2. cursor[u] <= d
    BY <1>2, <1>3, <1>8, <2>1
  <2>3. d # e
    <3>1. CASE u = t
      BY <1>2, <1>3, <1>8, <2>1, <3>1
    <3>2. CASE u # t
      <4>1. t \in Int /\ u \in Int /\ (u < t \/ t < u)
        BY <3>2, ThreadCount
      <4>2. /\ StartPos(u) \in Nat /\ EndPos(u) \in Nat /\ StartPos(t) \in Nat /\ EndPos(t) \in Nat
            /\ StartPos(u) <= cursor[u]
        BY ThreadRanges DEF LeaderInv, Cursors
      <4>3. CASE u < t
        BY <1>3, <1>8, <2>1, <4>2, <4>3, ThreadRanges
      <4>4. CASE t < u
        BY <1>3, <2>1, <2>2, <4>2, <4>4, ThreadRanges
      <4>. QED BY <4>1, <4>3, <4>4
    <3>. QED BY <3>1, <3>2
  <2>4. eleptr[d] \notin garbled
    BY <1>8, <2>2 DEF FoundSoFar
  <2>. QED BY <1>4, <2>3, <2>4
<1>9. DOMAIN found' = Thread
  BY DEF FoundSoFar
<1>. QED BY <1>1, <1>6, <1>7, <1>8, <1>9 DEF FoundSoFar

LEMMA SkippedNotCountable ==
  ASSUME LeaderInv, stage = "check", NEW e \in Ele, Skipped(e)
  PROVE  ~Countable(e)
<1>1. SUFFICES ASSUME e \in CK!InTable, CK!InfoMatchesTable(e) PROVE FALSE
  BY DEF Countable
<1>2. /\ hashInfo[e].binIndex \in Bin /\ table[hashInfo[e].binIndex] = e
      /\ hashInfo[e].tableIndex = CKP!Rank(hashInfo[e].binIndex)
  BY <1>1, SameTable DEF CKP!InfoMatchesTable
<1>3. hashInfo[e].binIndex \in CKP!Occupied
  BY <1>2, SameTable DEF CKP!Occupied, Ele, Null
<1>4. CKP!Rank(hashInfo[e].binIndex) \in Ele
  BY <1>3, CKP!RankIsAnIndex, Sizes, SameTable DEF LeaderInv, HashInv, CKP!InfoInv, CKP!LInv
<1>. QED BY <1>2, <1>4 DEF Skipped, Ele, Bin, Null

LEMMA FoundCheck ==
  ASSUME LeaderInv, FoundSoFar, NEW t \in Thread, CheckThread(t)
  PROVE  FoundSoFar'
<1>. DEFINE e == cursor[t]
            info == hashInfo[e]
<1>1. CASE CheckSkip(t)
  <2>1. /\ Running(t) /\ Skipped(e) /\ Advance(t) /\ found' = found /\ garbled' = garbled
        /\ UNCHANGED <<stage, config, hashing, received>> /\ xored' = xored
    BY <1>1 DEF CheckSkip
  <2>2. xored' = xored \ {t} /\ stage = "check" /\ e \in Ele
    BY <2>1, RunningElement DEF LeaderInv, Cursors, Running
  <2>3. ~Countable(e)
    BY <2>1, <2>2, SkippedNotCountable
  <2>4. found' = IF FALSE THEN [found EXCEPT ![t] = @ \cup {cursor[t]}] ELSE found
    BY <2>1
  <2>. QED BY <2>1, <2>2, <2>3, <2>4, FoundAdvance
<1>2. CASE CheckXor(t)
  <2>1. UNCHANGED <<config, hashing, received, cursor, found, garbled>>
    BY <1>2 DEF CheckXor
  <2>2. \A u \in Thread : Past(u)' = Past(u)
    BY <2>1 DEF Past
  <2>3. \A d : Countable(d)' <=> Countable(d)
    BY <2>1, CountableSame
  <2>. QED BY <2>1, <2>2, <2>3 DEF FoundSoFar, config
<1>3. ASSUME Running(t), t \in xored, NEW hit \in BOOLEAN, NEW rest, CheckEnd(t, hit, rest),
             garbled' = garbled \/ garbled' = garbled \cup {eleptr[e]},
             eleptr[e] \notin garbled' => (hit <=> Countable(e)),
             strategy \notin Gauss /\ hit => eleptr[e] \notin garbled'
      PROVE  FoundSoFar'
  <2>1. /\ Advance(t) /\ xored' = xored \ {t}
        /\ UNCHANGED <<stage, config, hashing, received>>
        /\ found' = IF hit THEN [found EXCEPT ![t] = @ \cup {cursor[t]}] ELSE found
    BY <1>3 DEF CheckEnd
  <2>. QED BY <1>3, <2>1, FoundAdvance
<1>4. ASSUME Running(t) PROVE eleptr[e] \notin garbled
  <2>1. e \in Ele /\ e <= e /\ e < EndPos(t)
    BY <1>4, RunningElement DEF LeaderInv, Running
  <2>. QED BY <2>1 DEF FoundSoFar
<1>5. CASE CheckSearch(t)
  <2>. DEFINE hit == SomeCombination(info, secret[info.binIndex])
  <2>1. /\ Running(t) /\ t \in xored /\ garbled' = garbled
        /\ CheckEnd(t, hit, IF hit THEN {} ELSE secret[info.binIndex])
    BY <1>5 DEF CheckSearch
  <2>2. hit <=> Countable(e)
    BY <2>1, SearchFinds
  <2>3. hit \in BOOLEAN
    BY DEF SomeCombination
  <2>. HIDE DEF hit
  <2>. QED BY <1>3, <1>4, <2>1, <2>2, <2>3
<1>6. CASE CheckSolve(t)
  <2>. DEFINE rest == secret[info.binIndex]
  <2>1. Running(t) /\ t \in xored /\ strategy \in Gauss
    BY <1>6 DEF CheckSolve
  <2>2. CASE Dependent(info.hashedBy, info.binIndex)
    <3>1. PICK hit \in BOOLEAN : CheckEnd(t, hit, rest) /\ garbled' = garbled \cup {eleptr[e]}
      BY <1>6, <2>2 DEF CheckSolve
    <3>. QED BY <1>3, <2>1, <3>1
  <2>3. CASE ~Dependent(info.hashedBy, info.binIndex)
    <3>. DEFINE hit == SomeCombination(info, rest)
    <3>1. CheckEnd(t, hit, rest) /\ garbled' = garbled
      BY <1>6, <2>3 DEF CheckSolve
    <3>2. hit <=> Countable(e)
      BY <2>1, SearchFinds
    <3>3. hit \in BOOLEAN
      BY DEF SomeCombination
    <3>. HIDE DEF hit
    <3>. QED BY <1>3, <1>4, <2>1, <3>1, <3>2, <3>3
  <2>. QED BY <2>2, <2>3
<1>7. CASE CheckEvaluate(t)
  <2>1. Running(t) /\ t \in xored /\ strategy \in Evaluated
    BY <1>7 DEF CheckEvaluate
  <2>. DEFINE Read(p, w) == IF p \in w THEN {<<"rand", p, Cardinality(HF), eleptr[e]>>}
                            ELSE Evaluation(p, info.hashedBy, info.binIndex, eleptr[e])
              All(w) == {a \in UNION {Read(p, w) : p \in Followers} :
                           Cardinality({p \in Followers : a \in Read(p, w)}) % 2 = 1}
              Rest(w) == Xor(secret[info.binIndex], All(w))
  <2>2. PICK wrong \in SUBSET Followers :
          /\ CheckEnd(t, Rest(wrong) = {}, Rest(wrong))
          /\ garbled' = IF wrong = {} THEN garbled ELSE garbled \cup {eleptr[e]}
    BY <1>7 DEF CheckEvaluate, XorOver
  <2>3. All(wrong) = XorAll(ReadFor(t, wrong))
    <3>1. \A p \in Followers : ReadFor(t, wrong)[p] = Read(p, wrong)
      BY DEF ReadFor
    <3>. HIDE DEF Read
    <3>. QED BY <3>1 DEF XorAll
  <2>. DEFINE rest == Rest(wrong)
  <2>. DEFINE hit == (rest = {})
  <2>4. hit <=> wrong = {} /\ Countable(e)
    <3>1. rest = Xor(secret[info.binIndex], XorAll(ReadFor(t, wrong)))
      BY <2>3
    <3>. HIDE DEF rest
    <3>. QED BY <2>1, <3>1, EvaluationFinds
  <2>5. hit \in BOOLEAN /\ CheckEnd(t, hit, rest)
    BY <2>2
  <2>. HIDE DEF hit, rest
  <2>. QED BY <1>3, <1>4, <2>1, <2>2, <2>4, <2>5
<1>. QED BY <1>1, <1>2, <1>5, <1>6, <1>7 DEF CheckThread

-----------------------------------------------------------------------------
(***************************************************************************)
(* What is published.                                                      *)
(***************************************************************************)
LEMMA SameSize ==
  ASSUME NEW S, NEW T, IsFiniteSet(T), NEW f \in [S -> T],
         \A x, y \in S : f[x] = f[y] => x = y, \A z \in T : \E x \in S : f[x] = z
  PROVE  IsFiniteSet(S) /\ Cardinality(S) = Cardinality(T)
<1>1. f \in Injection(S, T) /\ f \in Surjection(S, T)
  BY DEF Injection, IsInjective, Surjection
<1>. QED BY <1>1, FS_Injection

\* eleptr lists the whole set of the leader.
LEMMA LeadersElements ==
  ASSUME Chosen
  PROVE  IsFiniteSet(set[Leader]) /\ \A k \in set[Leader] : \E e \in Ele : eleptr[e] = k
<1>1. set[Leader] \subseteq Key /\ Cardinality(set[Leader]) = SetSize /\ SetSize \in Nat \ {0}
  BY Sizes DEF Chosen
<1>2. IsFiniteSet(set[Leader])
  BY <1>1, KeyAssumption, FS_Subset
<1>3. Cardinality(Ele) = SetSize
  <2>1. 0 \in Int /\ SetSize - 1 \in Int
    BY <1>1
  <2>2. Cardinality(0 .. SetSize - 1) = IF 0 > SetSize - 1 THEN 0 ELSE (SetSize - 1) - 0 + 1
    BY ONLY <2>1, FS_Interval
  <2>. QED BY <1>1, <2>2 DEF Ele
<1>4. eleptr \in Injection(Ele, set[Leader])
  BY DEF Chosen, Injection, IsInjective
<1>5. eleptr \in Surjection(Ele, set[Leader])
  BY <1>1, <1>2, <1>3, <1>4, FS_Injection
<1>. QED BY <1>2, <1>5 DEF Surjection

\* numFound adds up to the elements found, when every thread is through.
LEMMA PublishedCount ==
  ASSUME LeaderInv, FoundSoFar, stage = "check", \A t \in Thread : ~Running(t),
         NEW I \in SUBSET set[Leader],
         \A t \in Thread : \A e \in Past(t) : e \in found[t] <=> eleptr[e] \in I
  PROVE  Cardinality(UNION {{<<t, e>> : e \in found[t]} : t \in Thread}) = Cardinality(I)
<1>. DEFINE S == UNION {{<<t, e>> : e \in found[t]} : t \in Thread}
            f == [x \in S |-> eleptr[x[2]]]
<1>0. Chosen
  BY DEF LeaderInv
<1>1. ASSUME NEW t \in Thread
      PROVE  cursor[t] = EndPos(t) /\ Past(t) \subseteq Ele /\ found[t] \subseteq Past(t)
  BY TouchedElements, ThreadRanges DEF LeaderInv, Cursors, Running, FoundSoFar
<1>2. IsFiniteSet(I)
  BY <1>0, LeadersElements, FS_Subset
<1>3. ASSUME NEW x \in S
      PROVE  x[1] \in Thread /\ x[2] \in found[x[1]] /\ x = <<x[1], x[2]>>
  OBVIOUS
<1>4. ASSUME NEW t \in Thread, NEW e \in found[t] PROVE <<t, e>> \in S
  OBVIOUS
<1>. HIDE DEF S
<1>5. \A x \in S : x[2] \in Ele /\ eleptr[x[2]] \in I
  BY <1>1, <1>3
<1>6. f \in [S -> I]
  BY <1>5
<1>7. ASSUME NEW t \in Thread, NEW u \in Thread, NEW e \in Past(t), e \in Past(u) PROVE t = u
  <2>1. /\ StartPos(t) \in Nat /\ EndPos(t) \in Nat /\ StartPos(u) \in Nat /\ EndPos(u) \in Nat
        /\ t \in Int /\ u \in Int /\ e \in Int
    BY <1>1, ThreadRanges, ThreadCount DEF Ele
  <2>2. StartPos(t) <= e /\ e < EndPos(t) /\ StartPos(u) <= e /\ e < EndPos(u)
    BY <1>1, <1>7 DEF Past
  <2>3. CASE t < u
    BY <2>1, <2>2, <2>3, ThreadRanges
  <2>4. CASE u < t
    BY <2>1, <2>2, <2>4, ThreadRanges
  <2>. QED BY <2>1, <2>3, <2>4
<1>8. ASSUME NEW x \in S, NEW y \in S, f[x] = f[y] PROVE x = y
  <2>1. x[2] \in Ele /\ y[2] \in Ele /\ eleptr[x[2]] = eleptr[y[2]]
    BY <1>5, <1>8
  <2>2. x[2] = y[2]
    BY <1>0, <2>1 DEF Chosen
  <2>3. x[2] \in Past(x[1]) /\ y[2] \in Past(y[1]) /\ x[1] \in Thread /\ y[1] \in Thread
    BY <1>1, <1>3
  <2>4. x[1] = y[1]
    BY <1>7, <2>2, <2>3
  <2>. QED BY <1>3, <2>2, <2>4
<1>9. ASSUME NEW z \in I PROVE \E x \in S : f[x] = z
  <2>1. PICK e \in Ele : eleptr[e] = z
    BY <1>0, LeadersElements
  <2>2. PICK t \in Thread : StartPos(t) <= e /\ e < EndPos(t)
    BY EveryElementChecked
  <2>3. e \in Past(t)
    BY <1>1, <2>2 DEF Past
  <2>4. <<t, e>> \in S
    BY <1>4, <2>1, <2>3
  <2>. QED BY <2>1, <2>4
<1>. HIDE DEF f
<1>10. Cardinality(S) = Cardinality(I)
  BY <1>2, <1>6, <1>8, <1>9, SameSize
<1>. QED BY <1>10 DEF S

\* Without a failed insertion the leader knows everything of every element.
LEMMA CompleteTable ==
  ASSUME LeaderInv, hashPc = "done", reported = {}, NEW e \in Ele
  PROVE  /\ e \in CK!InTable /\ CK!InfoMatchesTable(e) /\ ~Skipped(e)
         /\ hashInfo[e].binIndex # Null /\ hashInfo[e].tableIndex # Null
<1>1. CKP!CompleteInfo
  BY CKP!InfoMeansComplete, Sizes DEF LeaderInv, HashInv
<1>2. e \in CK!InTable /\ CK!InfoMatchesTable(e)
  BY <1>1, SameTable DEF CKP!CompleteInfo
<1>3. /\ hashInfo[e].binIndex \in Bin /\ table[hashInfo[e].binIndex] = e
      /\ hashInfo[e].tableIndex = CKP!Rank(hashInfo[e].binIndex)
  BY <1>2, SameTable DEF CKP!InfoMatchesTable
<1>4. hashInfo[e].binIndex \in CKP!Occupied
  BY <1>3, SameTable DEF CKP!Occupied, Ele, Null
<1>5. CKP!Rank(hashInfo[e].binIndex) \in Ele
  BY <1>4, CKP!RankIsAnIndex, Sizes, SameTable DEF LeaderInv, HashInv, CKP!InfoInv, CKP!LInv
<1>. QED BY <1>2, <1>3, <1>5 DEF Skipped, Ele, Bin, Null

\* The keys of the hash table of otpsi_find_intersection.
TwoPartyKeys ==
  {leaderResults[2][hashInfo[e].tableIndex] : e \in {d \in Ele : hashInfo[d].tableIndex # Null}}

\* Its follower puts no mask into a bin.
LEMMA TwoPartyHides ==
  ASSUME strategy = "TWO_PARTY"
  PROVE  Hidden = {} /\ \A p : ~Overruns(p)
<1>1. \A p : ~Overruns(p)
  BY DEF Overruns, Exhausts, WritesPastEnd, Slotted
<1>2. \A p, j : Spilt(p, j) = {}
  BY <1>1 DEF Spilt, Slotted
<1>. QED BY <1>1, <1>2 DEF Hidden

\* The masks it finds there are one per common element.
LEMMA TwoPartyCount ==
  ASSUME LeaderInv, stage = "find", reported = {}, ~Mistakable
  PROVE  /\ Cardinality({x \in received[2][1].block : x.mask \in TwoPartyKeys})
              = Cardinality(Intersection)
         /\ Cardinality(Intersection) \in Nat /\ Cardinality(Intersection) <= SetSize
<1>. DEFINE S == {x \in received[2][1].block : x.mask \in TwoPartyKeys}
            Point(k, j) == [key |-> k, hf |-> j,
                            mask |-> {Output(2, address[k][j], ServerValue(k, j))}]
            f == [x \in S |-> x.key]
<1>1. strategy = "TWO_PARTY" /\ hashPc = "done" /\ Chosen
  BY DEF LeaderInv, Phase
<1>2. 2 \in Party /\ 2 \in Followers /\ Party = {Leader, 2}
  <2>1. N = 2
    BY <1>1, SizesAssumption DEF Chosen
  <2>. QED BY <2>1 DEF Party, Followers, Leader
<1>3. received[2][1].block = AllMasks(2)
  <2>1. NumMessages = 1
    BY <1>1 DEF NumMessages
  <2>2. received[2][1] = Outgoing(2)[1]
    BY <1>1, <1>2, <2>1, EverythingRead, TwoPartyHides
  <2>3. Outgoing(2)[1].block = AllMasks(2)
    BY <1>1 DEF Outgoing, Message
  <2>. QED BY <2>2, <2>3
<1>4. \A z : z \in AllMasks(2) <=> \E k \in set[2], j \in HF : z = Point(k, j)
  BY DEF AllMasks, Output
<1>5. leaderResults[2] = ClientOutput(2)
  BY <1>1, <1>2 DEF LeaderInv, WireInv, Progress, Outputs
<1>6. ASSUME NEW e \in Ele
      PROVE  /\ hashInfo[e].tableIndex # Null
             /\ leaderResults[2][hashInfo[e].tableIndex]
                  = {Output(2, hashInfo[e].binIndex, Value[eleptr[e]])}
  BY <1>1, <1>5, CompleteTable, OutputsOf DEF LeaderInv
<1>7. \A a : a \in TwoPartyKeys
               <=> \E e \in Ele : a = {Output(2, hashInfo[e].binIndex, Value[eleptr[e]])}
  <2>1. {d \in Ele : hashInfo[d].tableIndex # Null} = Ele
    BY <1>6
  <2>2. TwoPartyKeys = {leaderResults[2][hashInfo[e].tableIndex] : e \in Ele}
    BY <2>1 DEF TwoPartyKeys
  <2>. DEFINE L(e) == leaderResults[2][hashInfo[e].tableIndex]
              R(e) == {Output(2, hashInfo[e].binIndex, Value[eleptr[e]])}
  <2>3. \A e \in Ele : L(e) = R(e)
    BY <1>6
  <2>4. TwoPartyKeys = {L(e) : e \in Ele}
    BY <2>2
  <2>. HIDE DEF L, R
  <2>5. \A a : a \in TwoPartyKeys <=> \E e \in Ele : a = R(e)
    BY <2>3, <2>4
  <2>. QED BY <2>5 DEF R
<1>8. ASSUME NEW e \in Ele
      PROVE  /\ eleptr[e] \in Key /\ eleptr[e] \in set[Leader] /\ hashInfo[e].hashedBy \in HF
             /\ address[eleptr[e]][hashInfo[e].hashedBy] = hashInfo[e].binIndex
             /\ \A j \in HF : address[eleptr[e]][j] = hashInfo[e].binIndex =>
                  (ServerValue(eleptr[e], j) # Dummy <=> j = hashInfo[e].hashedBy)
             /\ ServerValue(eleptr[e], hashInfo[e].hashedBy) = Value[eleptr[e]]
             /\ Value[eleptr[e]] # Dummy
  BY <1>1, CompleteTable, KnownElement, HashingAssumption DEF LeaderInv
<1>9. ASSUME NEW k \in set[2], NEW j \in HF, Point(k, j).mask \in TwoPartyKeys
      PROVE  \E e \in Ele : k = eleptr[e] /\ j = hashInfo[e].hashedBy
  <2>1. PICK e \in Ele : {Output(2, address[k][j], ServerValue(k, j))}
                           = {Output(2, hashInfo[e].binIndex, Value[eleptr[e]])}
    BY <1>7, <1>9
  <2>. DEFINE u == Output(2, address[k][j], ServerValue(k, j))
              w == Output(2, hashInfo[e].binIndex, Value[eleptr[e]])
  <2>0. u = w
    BY <2>1
  <2>2. address[k][j] = hashInfo[e].binIndex /\ ServerValue(k, j) = Value[eleptr[e]]
    <3>1. /\ u = <<"oprg", 2, address[k][j], ServerValue(k, j)>>
          /\ w = <<"oprg", 2, hashInfo[e].binIndex, Value[eleptr[e]]>>
      BY DEF Output
    <3>. HIDE DEF u, w
    <3>2. u[3] = address[k][j] /\ u[4] = ServerValue(k, j)
          /\ w[3] = hashInfo[e].binIndex /\ w[4] = Value[eleptr[e]]
      BY <3>1
    <3>. QED BY <2>0, <3>2
  <2>3. Value[k] = Value[eleptr[e]]
    BY <1>8, <2>2 DEF ServerValue
  <2>4. k = eleptr[e]
    BY <2>2, <2>3 DEF Mistakable
  <2>5. j = hashInfo[e].hashedBy
    BY <1>8, <2>2, <2>4
  <2>. QED BY <2>4, <2>5
<1>10. IsFiniteSet(Intersection) /\ Intersection \subseteq set[Leader]
       /\ Cardinality(Intersection) \in Nat /\ Cardinality(Intersection) <= SetSize
  <2>1. Intersection \subseteq set[Leader]
    BY Sizes DEF Intersection
  <2>2. IsFiniteSet(set[Leader]) /\ Cardinality(set[Leader]) = SetSize
    BY <1>1, LeadersElements, Sizes DEF Chosen
  <2>. QED BY <2>1, <2>2, FS_Subset, FS_CardinalityType
<1>11. \A k : k \in Intersection <=> k \in Key /\ k \in set[Leader] /\ k \in set[2]
  BY <1>2 DEF Intersection
<1>12. ASSUME NEW x \in S
       PROVE  \E e \in Ele : /\ eleptr[e] \in Intersection
                              /\ x = Point(eleptr[e], hashInfo[e].hashedBy)
  <2>1. PICK k \in set[2], j \in HF : x = Point(k, j)
    BY <1>3, <1>4
  <2>2. PICK e \in Ele : k = eleptr[e] /\ j = hashInfo[e].hashedBy
    BY <1>9, <2>1
  <2>. QED BY <1>8, <1>11, <2>1, <2>2
<1>13. ASSUME NEW k \in Intersection PROVE \E x \in S : x.key = k
  <2>1. PICK e \in Ele : eleptr[e] = k
    BY <1>1, <1>11, LeadersElements
  <2>. DEFINE x == Point(k, hashInfo[e].hashedBy)
  <2>2. x.key = k /\ x \in AllMasks(2)
    BY <1>4, <1>8, <1>11, <2>1
  <2>3. x.mask = {Output(2, hashInfo[e].binIndex, Value[eleptr[e]])}
    BY <1>8, <2>1
  <2>4. x.mask \in TwoPartyKeys
    BY <1>7, <2>3
  <2>. QED BY <1>3, <2>2, <2>4
<1>14. \A k, j : Point(k, j).key = k
  OBVIOUS
<1>. HIDE DEF S, Point
<1>15. f \in [S -> Intersection]
  BY <1>12, <1>14
<1>16. ASSUME NEW x \in S, NEW y \in S, f[x] = f[y] PROVE x = y
  <2>1. PICK d \in Ele : x = Point(eleptr[d], hashInfo[d].hashedBy)
    BY <1>12
  <2>2. PICK e \in Ele : y = Point(eleptr[e], hashInfo[e].hashedBy)
    BY <1>12
  <2>3. eleptr[d] = eleptr[e]
    BY <1>14, <1>16, <2>1, <2>2
  <2>4. d = e
    BY <1>1, <2>3 DEF Chosen
  <2>. QED BY <2>1, <2>2, <2>4
<1>17. \A k \in Intersection : \E x \in S : f[x] = k
  BY <1>13
<1>. HIDE DEF f
<1>18. Cardinality(S) = Cardinality(Intersection)
  BY <1>10, <1>15, <1>16, <1>17, SameSize
<1>. QED BY <1>10, <1>18 DEF S

LEMMA HiddenSame ==
  ASSUME UNCHANGED <<config, hashing, received>>
  PROVE  Hidden' = Hidden
<1>1. UNCHANGED <<eleptr, hashInfo>>
  BY DEF config, hashing
<1>2. \A p, j : Spilt(p, j)' = Spilt(p, j)
  BY SpiltSame
<1>. QED BY <1>1, <1>2 DEF Hidden

LEMMA ExactKept ==
  ASSUME LeaderInv, ExactWhenHashed, UNCHANGED result,
         UNCHANGED <<config, hashing, garbled, received>> \/ stage # "done"
  PROVE  ExactWhenHashed'
<1>. SUFFICES ASSUME result # None PROVE ExactWhenHashed'
  BY DEF ExactWhenHashed
<1>1. UNCHANGED <<config, hashing, garbled, received>>
  BY DEF LeaderInv, WireInv
<1>2. UNCHANGED <<reported, strategy, set, eleptr, address, hashInfo>>
  BY <1>1 DEF config, hashing
<1>3. Intersection' = Intersection /\ (Mistakable' <=> Mistakable)
  BY <1>2 DEF Intersection, Mistakable
<1>4. Hidden' = Hidden
  BY <1>1, HiddenSame
<1>. QED BY <1>1, <1>2, <1>3, <1>4 DEF ExactWhenHashed

LEMMA ExactPublish ==
  ASSUME LeaderInv, FoundSoFar, Publish
  PROVE  ExactWhenHashed'
<1>1. /\ stage = "check" /\ hashPc = "done" /\ \A t \in Thread : ~Running(t)
      /\ UNCHANGED <<garbled, reported, set>>
  BY WhileChecking DEF Publish, checking, hashing, config
<1>2. SUFFICES ASSUME reported = {}, garbled = {}
               PROVE  result' = Cardinality(Intersection \ Hidden)
  <2>1. Hidden' = Hidden /\ Intersection' = Intersection
    BY <1>1, HiddenSame DEF Publish, Intersection
  <2>. QED BY <1>1, <2>1 DEF ExactWhenHashed
<1>3. Intersection \ Hidden \subseteq set[Leader]
  BY Sizes DEF Intersection
<1>4. ASSUME NEW t \in Thread, NEW e \in Past(t)
      PROVE  e \in found[t] <=> eleptr[e] \in Intersection \ Hidden
  <2>1. e \in Ele
    BY TouchedElements DEF LeaderInv
  <2>2. e \in found[t] <=> Countable(e)
    BY <1>2 DEF FoundSoFar
  <2>3. eleptr[e] \in Hidden <=> ~Arrives(e)
    BY <2>1, HiddenMeans DEF LeaderInv
  <2>. QED BY <1>1, <1>2, <2>1, <2>2, <2>3, CompleteTable DEF Countable
<1>. QED BY <1>1, <1>3, <1>4, PublishedCount DEF Publish

LEMMA ExactFind ==
  ASSUME LeaderInv, FindIntersection
  PROVE  ExactWhenHashed'
<1>1. stage = "find" /\ UNCHANGED <<garbled, reported, strategy, set, eleptr, address, hashInfo>>
  BY DEF FindIntersection, checking, hashing, config
<1>2. strategy = "TWO_PARTY" /\ Intersection' = Intersection /\ (Mistakable' <=> Mistakable)
  BY <1>1 DEF LeaderInv, Phase, Intersection, Mistakable
<1>. DEFINE matches == Cardinality({x \in received[2][1].block : x.mask \in TwoPartyKeys})
<1>3. result' = IF matches < SetSize THEN matches ELSE SetSize
  BY DEF FindIntersection, TwoPartyKeys
<1>4. SUFFICES ASSUME reported = {}, ~Mistakable PROVE result' = Cardinality(Intersection)
  <2>1. Hidden' = {}
    BY <1>1, <1>2, HiddenSame, TwoPartyHides DEF FindIntersection
  <2>2. Intersection \ {} = Intersection
    OBVIOUS
  <2>. QED BY <1>1, <1>2, <2>1, <2>2 DEF ExactWhenHashed
<1>5. /\ matches = Cardinality(Intersection)
      /\ Cardinality(Intersection) \in Nat /\ Cardinality(Intersection) <= SetSize
  BY <1>1, <1>4, TwoPartyCount
<1>. HIDE DEF matches
<1>. QED BY <1>3, <1>5, Sizes

LEMMA ExactStep == ExactInv /\ [Next]_vars => ExactInv'
<1>. SUFFICES ASSUME ExactInv, [Next]_vars PROVE ExactInv'
  OBVIOUS
<1>0. LeaderInv /\ FoundSoFar /\ ExactWhenHashed /\ Cursors /\ LeaderInv'
  BY LeaderStep DEF ExactInv, LeaderInv
<1>1. ASSUME NEW p \in Party, Share(p) PROVE FoundSoFar' /\ ExactWhenHashed'
  <2>1. UNCHANGED <<config, hashing, received, cursor, found, garbled, stage, result>>
    BY <1>1 DEF Share
  <2>2. \A t \in Thread : Past(t)' = Past(t)
    BY <2>1 DEF Past
  <2>3. \A e : Countable(e)' <=> Countable(e)
    BY <2>1, CountableSame
  <2>4. FoundSoFar'
    BY <1>0, <2>1, <2>2, <2>3 DEF FoundSoFar, config
  <2>. QED BY <1>0, <2>1, <2>4, ExactKept
<1>2. CASE Hash \/ FillInfo
  <2>1. UNCHANGED <<config, checking>> /\ UNCHANGED result /\ stage \notin {"check", "done"}
    BY <1>2 DEF Hash, FillInfo, leading
  <2>2. FoundSoFar'
    BY <1>0, <2>1, FoundKept
  <2>3. ExactWhenHashed'
    BY <1>0, <2>1, ExactKept
  <2>. QED BY <1>0, <2>2, <2>3 DEF ExactInv
<1>3. CASE StartThreads \/ JoinThreads \/ StartReceivers \/ JoinReceivers
  <2>1. /\ UNCHANGED <<config, checking>> /\ UNCHANGED <<hashing, received>> /\ UNCHANGED result
        /\ UNCHANGED <<config, hashing, garbled, received>>
    BY <1>3 DEF StartThreads, JoinThreads, StartReceivers, JoinReceivers, checking
  <2>2. FoundSoFar'
    BY <1>0, <2>1, FoundKept
  <2>. QED BY <1>0, <2>1, <2>2, ExactKept DEF ExactInv
<1>4. CASE FindIntersection \/ Publish
  <2>1. UNCHANGED <<config, checking>> /\ UNCHANGED <<hashing, received>>
    BY <1>4 DEF FindIntersection, Publish
  <2>2. FoundSoFar'
    BY <1>0, <2>1, FoundKept
  <2>. QED BY <1>0, <1>4, <2>2, ExactFind, ExactPublish DEF ExactInv
<1>5. ASSUME NEW p \in Followers, LeaderThread(p) \/ FollowerStep(p)
      PROVE  FoundSoFar' /\ ExactWhenHashed'
  <2>1. /\ UNCHANGED <<config, checking>> /\ UNCHANGED hashing /\ UNCHANGED result
        /\ UNCHANGED <<config, hashing, garbled>>
    BY <1>5 DEF LeaderThread, OprgStart, OprgFinish, ReceiveMessage, FollowerStep, BaseOT,
                Matrix, SendMessage, GoDown, Closed, leading, checking
  <2>2. UNCHANGED received \/ stage \notin {"check", "done"}
    BY <1>5 DEF LeaderThread, OprgStart, OprgFinish, ReceiveMessage, FollowerStep, BaseOT,
                Matrix, SendMessage, GoDown, Closed, leading
  <2>3. FoundSoFar'
    BY <1>0, <2>1, <2>2, FoundKept
  <2>. QED BY <1>0, <2>1, <2>2, <2>3, ExactKept
<1>6. ASSUME NEW t \in Thread, CheckThread(t) PROVE FoundSoFar' /\ ExactWhenHashed'
  <2>1. UNCHANGED result /\ stage # "done"
    BY <1>6 DEF CheckThread, CheckSkip, CheckXor, CheckSearch, CheckSolve, CheckEvaluate,
                CheckEnd, Running
  <2>. QED BY <1>0, <1>6, <2>1, FoundCheck, ExactKept
<1>7. CASE UNCHANGED vars
  <2>1. /\ UNCHANGED <<config, checking>> /\ UNCHANGED <<hashing, received>> /\ UNCHANGED result
        /\ UNCHANGED <<config, hashing, garbled, received>>
    BY <1>7 DEF vars, leading, checking
  <2>2. FoundSoFar'
    BY <1>0, <2>1, FoundKept
  <2>. QED BY <1>0, <2>1, <2>2, ExactKept DEF ExactInv
<1>. QED
  BY <1>0, <1>1, <1>2, <1>3, <1>4, <1>5, <1>6, <1>7 DEF ExactInv, Next, LeaderMain

LEMMA ExactInit == Init => ExactInv
BY LeaderInit, FoundInit DEF ExactInv, ExactWhenHashed, Init

\* When every insertion succeeded and every value was read right, the size the
\* leader sends to the coordinator is the size of the intersection of all the
\* sets less the elements overfull bins hide (SimpleHashingNaiveFollower.cpp:39-45,
\* SimpleHashingPolynomialFollower.cpp:39-49), with any strategy (runner.py:179-185).
THEOREM CountsTheIntersection == Spec => []ExactWhenHashed
<1>1. ExactInv => ExactWhenHashed
  BY DEF ExactInv
<1>. QED BY <1>1, ExactInit, ExactStep, PTL DEF Spec

-----------------------------------------------------------------------------
(***************************************************************************)
(* PsiProtocol implements Psi: an element is lost or not, and what is      *)
(* published is the size of the intersection without the lost ones.        *)
(***************************************************************************)
InfoFilled == stage \in {"receive", "find", "check", "done"}
Missing == {eleptr[e] : e \in {d \in Ele : d \notin CK!InTable \/ ~CK!InfoMatchesTable(d)}}

AllRead == stage \in {"check", "done"}

LEMMA LostIs == Lost = garbled \cup (IF InfoFilled THEN Missing ELSE {})
                               \cup (IF AllRead THEN Hidden ELSE {})
BY DEF Lost, InfoFilled, Missing, AllRead

LEMMA MissingSame == ASSUME UNCHANGED <<config, hashing>> PROVE Missing' = Missing
<1>1. UNCHANGED <<table, hashInfo, eleptr>>
  BY DEF config, hashing
<1>2. CK!InTable' = CK!InTable /\ \A e : CK!InfoMatchesTable(e)' <=> CK!InfoMatchesTable(e)
  BY <1>1 DEF CK!InTable, CK!Occupied, CK!InfoMatchesTable, CK!Rank
<1>. QED BY <1>1, <1>2 DEF Missing

LEMMA LostSame ==
  ASSUME UNCHANGED config, UNCHANGED garbled,
         \/ UNCHANGED hashing /\ (InfoFilled' <=> InfoFilled) /\ (AllRead' <=> AllRead)
              /\ (UNCHANGED received \/ ~AllRead)
         \/ ~InfoFilled /\ ~InfoFilled'
  PROVE  UNCHANGED <<set, Lost>>
<1>1. UNCHANGED set
  BY DEF config
<1>2. CASE UNCHANGED hashing /\ (InfoFilled' <=> InfoFilled) /\ (AllRead' <=> AllRead)
             /\ (UNCHANGED received \/ ~AllRead)
  <2>1. Missing' = Missing /\ (AllRead => Hidden' = Hidden)
    BY <1>2, MissingSame, HiddenSame
  <2>2. Lost' = garbled' \cup (IF InfoFilled' THEN Missing' ELSE {})
                         \cup (IF AllRead' THEN Hidden' ELSE {})
    BY DEF Lost, InfoFilled, Missing, AllRead
  <2>. QED BY <1>1, <1>2, <2>1, <2>2, LostIs
<1>3. CASE ~InfoFilled /\ ~InfoFilled'
  BY <1>1, <1>3 DEF Lost, InfoFilled
<1>. QED BY <1>2, <1>3

\* What is counted is exactly what is common and not lost.
LEMMA CountsWhatIsNotLost ==
  ASSUME LeaderInv, FoundSoFar, Publish, strategy \notin Gauss
  PROVE  result' = Cardinality(Intersection \ Lost)
<1>1. stage = "check" /\ InfoFilled /\ AllRead /\ \A t \in Thread : ~Running(t)
  BY DEF Publish, InfoFilled, AllRead
<1>2. Lost = garbled \cup Missing \cup Hidden
  BY <1>1, LostIs
<1>3. Intersection \ Lost \subseteq set[Leader]
  BY Sizes DEF Intersection
<1>4. ASSUME NEW t \in Thread, NEW e \in Past(t)
      PROVE  e \in found[t] <=> eleptr[e] \in Intersection \ Lost
  <2>1. e \in Ele
    BY TouchedElements DEF LeaderInv
  <2>2. eleptr[e] \in Missing <=> e \notin CK!InTable \/ ~CK!InfoMatchesTable(e)
    BY <2>1 DEF Missing, LeaderInv, Chosen
  <2>3. Countable(e) <=> eleptr[e] \in Intersection \ (Missing \cup Hidden)
    BY <2>1, <2>2, HiddenMeans DEF Countable, LeaderInv
  <2>4. e \in found[t] => eleptr[e] \notin garbled
    BY DEF FoundSoFar
  <2>5. eleptr[e] \notin garbled => (e \in found[t] <=> Countable(e))
    BY DEF FoundSoFar
  <2>. QED BY <1>2, <2>3, <2>4, <2>5
<1>. QED BY <1>1, <1>3, <1>4, PublishedCount DEF Publish

\* A step of the protocol that does not publish changes no set, publishes
\* nothing, and loses elements of the leader or none.
LoseSome ==
  /\ result = None
  /\ \E some \in SUBSET set[Leader] : Lost' = Lost \cup some
  /\ UNCHANGED <<set, result>>

\* The one step that publishes.
PublishRest ==
  /\ result = None
  /\ result' = Cardinality(Intersection \ Lost)
  /\ UNCHANGED <<set, Lost>>

LEMMA RefinedStep ==
  ASSUME ExactInv, [Next]_vars, strategy \in Exhaustive \cup Evaluated
  PROVE  LoseSome \/ PublishRest \/ UNCHANGED <<set, Lost, result>>
<1>0. LeaderInv /\ FoundSoFar /\ (stage # "done" => result = None)
  BY DEF ExactInv, LeaderInv, WireInv
<1>1. strategy # "TWO_PARTY" /\ strategy \notin Gauss /\ stage # "find"
  BY <1>0 DEF Exhaustive, Evaluated, Gauss, LeaderInv, Phase
<1>2. ASSUME NEW p \in Party, Share(p) PROVE UNCHANGED <<set, Lost, result>>
  <2>1. UNCHANGED config /\ UNCHANGED hashing /\ UNCHANGED <<garbled, stage, received, result>>
    BY <1>2 DEF Share
  <2>. QED BY <2>1, LostSame DEF InfoFilled, AllRead
<1>3. CASE Hash \/ FillInfo \/ StartThreads \/ JoinThreads
  <2>1. /\ UNCHANGED config /\ UNCHANGED <<garbled, result>>
        /\ ~InfoFilled /\ ~InfoFilled'
    BY <1>3 DEF Hash, FillInfo, StartThreads, JoinThreads, leading, checking, InfoFilled
  <2>. QED BY <2>1, LostSame
<1>4. CASE StartReceivers
  <2>1. /\ UNCHANGED config /\ UNCHANGED hashing /\ UNCHANGED <<garbled, result>>
        /\ ~InfoFilled /\ InfoFilled' /\ stage = "info"
    BY <1>4 DEF StartReceivers, checking, InfoFilled
  <2>2. Missing' = Missing
    BY <2>1, MissingSame
  <2>3. Lost' = garbled' \cup Missing' /\ ~AllRead
    BY <1>4, <2>1 DEF StartReceivers, Lost, InfoFilled, Missing, AllRead
  <2>4. Lost' = Lost \cup Missing
    BY <2>1, <2>2, <2>3, LostIs
  <2>5. Missing \in SUBSET set[Leader]
    BY <1>0 DEF Missing, LeaderInv, Chosen
  <2>. QED BY <1>0, <2>1, <2>4, <2>5 DEF LoseSome, config
<1>5. CASE JoinReceivers
  <2>1. /\ UNCHANGED config /\ UNCHANGED hashing /\ UNCHANGED <<garbled, result>>
        /\ InfoFilled /\ InfoFilled' /\ UNCHANGED received /\ ~AllRead /\ AllRead'
    BY <1>1, <1>5 DEF JoinReceivers, checking, InfoFilled, AllRead
  <2>2. Missing' = Missing /\ Hidden' = Hidden
    BY <2>1, MissingSame, HiddenSame
  <2>3. Lost' = garbled' \cup Missing' \cup Hidden'
    BY <2>1 DEF Lost, InfoFilled, Missing, AllRead
  <2>4. Lost' = Lost \cup Hidden
    BY <2>1, <2>2, <2>3, LostIs
  <2>5. Hidden \in SUBSET set[Leader] /\ stage # "done"
    BY <1>0, <1>5 DEF Hidden, LeaderInv, Chosen, JoinReceivers
  <2>. QED BY <1>0, <2>1, <2>4, <2>5 DEF LoseSome, config
<1>6. CASE FindIntersection
  BY <1>1, <1>6 DEF FindIntersection
<1>7. CASE Publish
  <2>1. /\ UNCHANGED config /\ UNCHANGED hashing /\ UNCHANGED garbled
        /\ InfoFilled /\ InfoFilled' /\ AllRead /\ AllRead' /\ UNCHANGED received
        /\ stage = "check"
    BY <1>7 DEF Publish, checking, InfoFilled, AllRead
  <2>2. UNCHANGED <<set, Lost>>
    BY <2>1, LostSame
  <2>. QED BY <1>0, <1>1, <1>7, <2>1, <2>2, CountsWhatIsNotLost DEF PublishRest
<1>8. ASSUME NEW p \in Followers, LeaderThread(p) \/ FollowerStep(p)
      PROVE  UNCHANGED <<set, Lost, result>>
  <2>1. UNCHANGED config /\ UNCHANGED hashing /\ UNCHANGED <<garbled, stage, result>>
    BY <1>8 DEF LeaderThread, OprgStart, OprgFinish, ReceiveMessage, FollowerStep, BaseOT,
                Matrix, SendMessage, GoDown, Closed, leading, checking
  <2>2. UNCHANGED received \/ ~AllRead
    BY <1>8 DEF LeaderThread, OprgStart, OprgFinish, ReceiveMessage, FollowerStep, BaseOT,
                Matrix, SendMessage, GoDown, Closed, leading, AllRead
  <2>. QED BY <2>1, <2>2, LostSame DEF InfoFilled, AllRead
<1>9. ASSUME NEW t \in Thread, CheckThread(t)
      PROVE  LoseSome \/ UNCHANGED <<set, Lost, result>>
  <2>1. CASE CheckSkip(t) \/ CheckXor(t) \/ CheckSearch(t)
    <3>1. UNCHANGED config /\ UNCHANGED hashing /\ UNCHANGED <<garbled, stage, received, result>>
      BY <2>1 DEF CheckSkip, CheckXor, CheckSearch, CheckEnd
    <3>. QED BY <3>1, LostSame DEF InfoFilled, AllRead
  <2>2. CASE CheckSolve(t)
    BY <1>1, <2>2 DEF CheckSolve
  <2>3. CASE CheckEvaluate(t)
    <3>. DEFINE k == eleptr[cursor[t]]
    <3>1. /\ UNCHANGED config /\ UNCHANGED hashing /\ UNCHANGED <<stage, received, result>>
          /\ Running(t) /\ (garbled' = garbled \/ garbled' = garbled \cup {k})
      BY <2>3 DEF CheckEvaluate, CheckEnd
    <3>2. CASE garbled' = garbled
      BY <3>1, <3>2, LostSame DEF InfoFilled, AllRead
    <3>3. CASE garbled' = garbled \cup {k}
      <4>1. k \in set[Leader] /\ stage = "check" /\ InfoFilled /\ AllRead
        BY <1>0, <3>1, RunningElement DEF LeaderInv, Chosen, Running, InfoFilled, AllRead
      <4>2. Missing' = Missing /\ Hidden' = Hidden
        BY <3>1, MissingSame, HiddenSame
      <4>3. Lost' = garbled' \cup Missing' \cup Hidden'
        BY <3>1, <4>1 DEF Lost, InfoFilled, Missing
      <4>4. Lost' = Lost \cup {k}
        BY <3>3, <4>1, <4>2, <4>3, LostIs
      <4>. QED BY <1>0, <3>1, <4>1, <4>4 DEF LoseSome, config
    <3>. QED BY <3>1, <3>2, <3>3
  <2>. QED BY <1>9, <2>1, <2>2, <2>3 DEF CheckThread
<1>10. CASE UNCHANGED vars
  <2>1. UNCHANGED config /\ UNCHANGED hashing /\ UNCHANGED <<garbled, stage, received, result>>
    BY <1>10 DEF vars, leading, checking
  <2>. QED BY <2>1, LostSame DEF InfoFilled, AllRead
<1>. QED
  BY <1>2, <1>3, <1>4, <1>5, <1>6, <1>7, <1>8, <1>9, <1>10 DEF Next, LeaderMain

LEMMA RefinedInit == Init => Abstract!Init
<1>. SUFFICES ASSUME Init PROVE Abstract!Init
  OBVIOUS
<1>1. set \in [Party -> SUBSET Key] /\ result = None
  BY ChosenInit DEF Chosen, Init
<1>2. Lost = {}
  BY DEF Init, Lost
<1>. QED BY <1>1, <1>2 DEF Abstract!Init

\* The protocol implements the abstract intersection, with the exhaustive
\* search as with the polynomials and the filter: it publishes once, nothing
\* that is not in every set is counted, and nothing is left out but what was
\* lost in a failed insertion, a value read wrong or an overfull bin.  The
\* inverse leaders may answer anything when their equations depend on each
\* other, and otpsi_find_intersection may mistake an element for another: with
\* them it does not.
THEOREM ImplementsTheIntersection ==
  ASSUME Strategies \subseteq Exhaustive \cup Evaluated
  PROVE  Spec => ImplementsPsi
<1>1. ExactInv /\ [Next]_vars => [Abstract!Next]_<<set, Lost, result>>
  <2>1. SUFFICES ASSUME ExactInv, [Next]_vars
                 PROVE  Abstract!Next \/ UNCHANGED <<set, Lost, result>>
    OBVIOUS
  <2>2. strategy \in Exhaustive \cup Evaluated
    BY <2>1 DEF ExactInv, LeaderInv, Chosen
  <2>3. Abstract!Intersection = Intersection
    BY DEF Abstract!Intersection, Intersection
  <2>4. \A S : Abstract!Cardinality(S) = Cardinality(S)
    BY DEF Abstract!Cardinality, Cardinality
  <2>5. LoseSome => Abstract!Lose
    BY DEF LoseSome, Abstract!Lose
  <2>6. PublishRest => Abstract!Publish
    BY <2>3, <2>4 DEF PublishRest, Abstract!Publish
  <2>. QED BY <2>1, <2>2, <2>5, <2>6, RefinedStep DEF Abstract!Next
<1>. QED
  BY <1>1, RefinedInit, ExactInit, ExactStep, PTL
  DEF Spec, ImplementsPsi, Abstract!Spec, Abstract!psiVars
=============================================================================
