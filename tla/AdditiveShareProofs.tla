------------------------ MODULE AdditiveShareProofs ------------------------
(***************************************************************************)
(* Proofs about AdditiveShare for every number of parties and every        *)
(* pattern of crashes.                                                     *)
(*                                                                         *)
(* The inductive invariant says exactly where each seed is.  The seed of   *)
(* the pair i < j is in acc[i] once i's loop has passed j; from then it is *)
(* on the channel until j's loop has passed i, and after that in acc[j],   *)
(* or j passed i with an empty channel because i had died before sending.  *)
(***************************************************************************)
EXTENDS AdditiveShare, FiniteSetTheorems, TLAPS

\* The seed of the pair is on its way.
InFlight(i, j) == i < j /\ j < sendTo[i] /\ recvFrom[j] <= i

\* Party j gave up on the seed of party i, which died before sending it.
Missed(i, j) == sendTo[i] <= j /\ i < recvFrom[j]

Counters ==
  /\ sendTo \in [Party -> 2 .. N + 1]
  /\ recvFrom \in [Party -> 1 .. N]
  /\ \A p \in Party : p < sendTo[p] /\ recvFrom[p] <= p
  /\ \A p \in Party : 1 < recvFrom[p] => sendTo[p] = N + 1
  /\ expanded \subseteq Party
  /\ crashed \subseteq Party
  /\ \A p \in expanded : sendTo[p] = N + 1 /\ recvFrom[p] = p

Channels ==
  /\ chan \in [Party -> [Party -> {<<>>} \cup {<<s>> : s \in Seed}]]
  /\ \A i, j \in Party : chan[i][j] = IF InFlight(i, j) THEN <<<<i, j>>>> ELSE <<>>

\* The string <<x, y>> is in party p's vector shares.
HeldBy(p, x, y) ==
  \/ x = p /\ p < y /\ y < sendTo[p]
  \/ y = p /\ x < recvFrom[p] /\ ~Missed(x, p)
  \/ x = p /\ y < recvFrom[p] /\ Missed(y, p)

Held(p) == {s \in Strings : HeldBy(p, s[1], s[2])}

Shares ==
  /\ acc = [p \in Party |-> Held(p)]
  /\ share = [p \in Party |-> IF p \in expanded THEN Held(p) ELSE {}]

OnlyDeadMissed == \A i, j \in Party : Missed(i, j) => i \in crashed

IInv == Counters /\ Channels /\ Shares /\ OnlyDeadMissed

-----------------------------------------------------------------------------
\* Adding a string that was not there.
LEMMA XorOne ==
  ASSUME NEW p \in Party, NEW a \in Party, NEW b \in Party, a # b,
         ~HeldBy(p, a, b),
         \A x, y \in Party : HeldBy(p, x, y)' <=> HeldBy(p, x, y) \/ (x = a /\ y = b)
  PROVE  Held(p)' = Xor(Held(p), {<<a, b>>})
<1>1. <<a, b>> \in Strings /\ <<a, b>> \notin Held(p)
  BY DEF Strings, Held
<1>2. ASSUME NEW s \in Strings PROVE s \in Held(p)' <=> s \in Held(p) \/ s = <<a, b>>
  <2>1. s[1] \in Party /\ s[2] \in Party /\ (s = <<a, b>> <=> s[1] = a /\ s[2] = b)
    BY DEF Strings
  <2> QED BY <2>1 DEF Held, Strings
<1>3. Held(p) \subseteq Strings /\ Held(p)' \subseteq Strings
  BY DEF Held, Strings
<1> QED BY <1>1, <1>2, <1>3 DEF Xor

LEMMA InitIInv == Init => IInv
<1> SUFFICES ASSUME Init PROVE IInv
  OBVIOUS
<1> USE PartiesAssumption DEF Party
<1>1. Counters
  BY DEF Init, Counters
<1>2. \A i, j \in Party : ~InFlight(i, j) /\ ~Missed(i, j)
  BY DEF Init, InFlight, Missed
<1>3. Channels /\ OnlyDeadMissed
  BY <1>2 DEF Init, Channels, OnlyDeadMissed
<1>4. \A p \in Party : Held(p) = {}
  BY DEF Init, Held, HeldBy, Strings
<1>5. Shares
  BY <1>4 DEF Init, Shares
<1> QED BY <1>1, <1>3, <1>5 DEF IInv

\* What the steps use of the counters.
LEMMA CounterFacts ==
  ASSUME Counters
  PROVE  /\ Party \subseteq Int /\ N \in Int
         /\ \A r \in Party : /\ sendTo[r] \in Int /\ recvFrom[r] \in Int
                             /\ r < sendTo[r] /\ sendTo[r] <= N + 1
                             /\ 1 <= recvFrom[r] /\ recvFrom[r] <= r
                             /\ 1 < recvFrom[r] => sendTo[r] = N + 1
                             /\ 1 <= r /\ r <= N
  BY SMTT(30), PartiesAssumption DEF Counters, Party

\* The sending loop: the seed appears on the channel and in the sender's
\* vector at once.
LEMMA SendKeeps == ASSUME IInv, NEW p \in Party, SendSeed(p) PROVE IInv'
<1> DEFINE q == sendTo[p]
<1>0. Counters /\ Channels /\ Shares /\ OnlyDeadMissed /\ Alive(p)
  BY DEF IInv, SendSeed
<1>1. /\ p \in Int /\ q \in Int /\ p < q /\ q <= N /\ q \in Party /\ recvFrom[p] <= p
      /\ UNCHANGED <<recvFrom, share, expanded, crashed>>
      /\ sendTo' = [sendTo EXCEPT ![p] = q + 1]
      /\ chan' = [chan EXCEPT ![p][q] = Append(@, <<p, q>>)]
      /\ acc' = [acc EXCEPT ![p] = Xor(@, {<<p, q>>})]
  BY <1>0, CounterFacts, PartiesAssumption DEF SendSeed, Party
<1>2. \A r \in Party : sendTo'[r] = IF r = p THEN q + 1 ELSE sendTo[r]
  BY <1>0, <1>1 DEF Counters
<1>3. Counters'
  <2>1. q + 1 \in 2 .. N + 1 /\ p < q + 1 /\ recvFrom[p] = 1
    BY <1>0, <1>1, CounterFacts
  <2>2. sendTo' \in [Party -> 2 .. N + 1]
    BY <1>0, <1>1, <2>1 DEF Counters
  <2>3. p \notin expanded
    BY <1>0, <1>1, CounterFacts DEF Counters
  <2> QED BY <1>0, <1>1, <1>2, <2>1, <2>2, <2>3 DEF Counters
<1> HIDE DEF q
<1>4. \A j \in Party : ~Missed(p, j)
  BY <1>0 DEF OnlyDeadMissed, Alive
<1>5. recvFrom[q] <= p
  <2>1. q <= sendTo[p] /\ recvFrom[q] \in Int
    BY <1>0, <1>1, CounterFacts DEF q
  <2> QED BY <1>1, <1>4, <2>1, sendTo[p] <= q DEF Missed, q
<1>6. \A i, j \in Party : InFlight(i, j)' <=> InFlight(i, j) \/ (i = p /\ j = q)
  <2> SUFFICES ASSUME NEW i \in Party, NEW j \in Party
               PROVE  InFlight(i, j)' <=> InFlight(i, j) \/ (i = p /\ j = q)
    OBVIOUS
  <2>1. i \in Int /\ j \in Int /\ sendTo[i] \in Int /\ recvFrom[j] \in Int
    BY <1>0, CounterFacts
  <2> QED BY <1>1, <1>2, <1>5, <2>1 DEF InFlight, q
<1>7. \A i, j \in Party : Missed(i, j)' <=> Missed(i, j)
  <2> SUFFICES ASSUME NEW i \in Party, NEW j \in Party
               PROVE  Missed(i, j)' <=> Missed(i, j)
    OBVIOUS
  <2>1. i \in Int /\ j \in Int /\ sendTo[i] \in Int /\ recvFrom[j] \in Int
    BY <1>0, CounterFacts
  <2> QED BY <1>1, <1>2, <1>4, <2>1 DEF Missed, q
<1>8. Channels'
  <2>1. chan[p][q] = <<>> /\ <<p, q>> \in Seed
    BY <1>0, <1>1, ~InFlight(p, q) DEF Channels, InFlight, Seed, q
  <2>2. chan' = [chan EXCEPT ![p][q] = <<<<p, q>>>>]
    BY <1>1, <2>1
  <2> QED BY <1>0, <1>1, <1>6, <2>1, <2>2 DEF Channels
<1>9. \A r, x, y \in Party : HeldBy(r, x, y)' <=> HeldBy(r, x, y) \/ (r = p /\ x = p /\ y = q)
  <2> SUFFICES ASSUME NEW r \in Party, NEW x \in Party, NEW y \in Party
               PROVE  HeldBy(r, x, y)' <=> HeldBy(r, x, y) \/ (r = p /\ x = p /\ y = q)
    OBVIOUS
  <2>1. r \in Int /\ x \in Int /\ y \in Int /\ sendTo[r] \in Int
    BY <1>0, CounterFacts
  <2>2. r < y /\ y < sendTo'[r] <=> (r < y /\ y < sendTo[r]) \/ (r = p /\ y = q)
    BY <1>1, <1>2, <2>1 DEF q
  <2>3. Missed(x, r)' <=> Missed(x, r)
    BY <1>7
  <2>4. Missed(y, r)' <=> Missed(y, r)
    BY <1>7
  <2> QED BY <1>1, <2>2, <2>3, <2>4 DEF HeldBy
<1>10. ~HeldBy(p, p, q)
  <2>1. recvFrom[p] \in Int
    BY <1>0, CounterFacts
  <2> QED BY <1>1, <2>1 DEF HeldBy, q
<1>11. Shares'
  <2>2. Held(p)' = Xor(Held(p), {<<p, q>>})
    BY <1>1, <1>9, <1>10, XorOne
  <2>3. \A r \in Party : r # p => Held(r)' = Held(r)
    BY <1>9 DEF Held, Strings
  <2>4. p \notin expanded
    BY <1>0, <1>1 DEF Counters, q
  <2> QED BY <1>0, <1>1, <2>2, <2>3, <2>4 DEF Shares
<1>12. OnlyDeadMissed'
  BY <1>0, <1>1, <1>7 DEF OnlyDeadMissed
<1> QED BY <1>3, <1>8, <1>11, <1>12 DEF IInv

\* The receiving loop: the seed moves from the channel to the vector, or the
\* sender is dead and its place is taken by what was in the buffer.
LEMMA ReceiveKeeps == ASSUME IInv, NEW p \in Party, ReceiveSeed(p) PROVE IInv'
<1> DEFINE q == recvFrom[p]
<1>0. Counters /\ Channels /\ Shares /\ OnlyDeadMissed /\ Alive(p)
  BY DEF IInv, ReceiveSeed
<1>1. /\ p \in Int /\ q \in Int /\ q < p /\ 1 <= q /\ q \in Party /\ sendTo[p] = N + 1
      /\ sendTo[q] \in Int
      /\ UNCHANGED <<sendTo, share, expanded, crashed>>
      /\ recvFrom' = [recvFrom EXCEPT ![p] = q + 1]
  BY <1>0, CounterFacts, PartiesAssumption DEF ReceiveSeed, Receiving, Party
<1>2. \A r \in Party : recvFrom'[r] = IF r = p THEN q + 1 ELSE recvFrom[r]
  BY <1>0, <1>1 DEF Counters
<1>3. Counters'
  <2>1. q + 1 \in 1 .. N /\ q + 1 <= p
    BY <1>0, <1>1, CounterFacts
  <2>2. recvFrom' \in [Party -> 1 .. N]
    BY <1>0, <1>1, <2>1 DEF Counters
  <2>3. p \notin expanded
    BY <1>0, <1>1, CounterFacts DEF Counters
  <2> QED BY <1>0, <1>1, <1>2, <2>1, <2>2, <2>3 DEF Counters
<1>4. p \notin expanded
  BY <1>0, <1>1, CounterFacts DEF Counters, q
<1>5. chan[q][p] = IF p < sendTo[q] THEN <<<<q, p>>>> ELSE <<>>
  BY <1>0, <1>1 DEF Channels, InFlight
<1>6. \/ /\ p < sendTo[q]
         /\ chan' = [chan EXCEPT ![q][p] = <<>>]
         /\ acc' = [acc EXCEPT ![p] = Xor(@, {<<q, p>>})]
      \/ /\ sendTo[q] <= p
         /\ q \in crashed
         /\ acc' = [acc EXCEPT ![p] = Xor(@, {<<p, q>>})]
         /\ UNCHANGED chan
  <2> DEFINE c == <<<<q, p>>>>
  <2>1. Head(c) = <<q, p>> /\ Tail(c) = <<>> /\ c # <<>>
    OBVIOUS
  <2>2. CASE p < sendTo[q]
    <3>1. chan[q][p] = c
      BY <1>5, <2>2
    <3>2. chan' = [chan EXCEPT ![q][p] = Tail(@)] /\ acc' = [acc EXCEPT ![p] = Xor(@, {Head(c)})]
      BY <2>1, <3>1 DEF ReceiveSeed
    <3> QED BY <2>1, <2>2, <3>1, <3>2
  <2>3. CASE sendTo[q] <= p
    BY <1>1, <1>5, <2>3 DEF ReceiveSeed, Uninit
  <2> QED BY <1>1, <2>2, <2>3
<1> HIDE DEF q
<1>7. \A i, j \in Party : InFlight(i, j)' <=> InFlight(i, j) /\ ~(i = q /\ j = p)
  <2> SUFFICES ASSUME NEW i \in Party, NEW j \in Party
               PROVE  InFlight(i, j)' <=> InFlight(i, j) /\ ~(i = q /\ j = p)
    OBVIOUS
  <2>1. i \in Int /\ j \in Int /\ sendTo[i] \in Int /\ recvFrom[j] \in Int
    BY <1>0, CounterFacts
  <2> QED BY <1>1, <1>2, <2>1 DEF InFlight, q
<1>8. \A i, j \in Party :
        Missed(i, j)' <=> Missed(i, j) \/ (i = q /\ j = p /\ sendTo[q] <= p)
  <2> SUFFICES ASSUME NEW i \in Party, NEW j \in Party
               PROVE  Missed(i, j)' <=> Missed(i, j) \/ (i = q /\ j = p /\ sendTo[q] <= p)
    OBVIOUS
  <2>1. i \in Int /\ j \in Int /\ sendTo[i] \in Int /\ recvFrom[j] \in Int
    BY <1>0, CounterFacts
  <2> QED BY <1>1, <1>2, <2>1 DEF Missed, q
<1>9. Channels'
  <2>1. CASE p < sendTo[q]
    <3>1. InFlight(q, p) /\ chan' = [chan EXCEPT ![q][p] = <<>>]
      BY <1>1, <1>6, <2>1 DEF InFlight, q
    <3> QED BY <1>0, <1>1, <1>7, <3>1 DEF Channels
  <2>2. CASE sendTo[q] <= p
    <3>1. ~InFlight(q, p) /\ chan' = chan
      BY <1>1, <1>6, <2>2 DEF InFlight, q
    <3> QED BY <1>0, <1>1, <1>7, <3>1 DEF Channels
  <2> QED BY <1>1, <2>1, <2>2
<1>10. \A r, x, y \in Party :
         HeldBy(r, x, y)' <=> \/ HeldBy(r, x, y)
                              \/ r = p /\ x = q /\ y = p /\ p < sendTo[q]
                              \/ r = p /\ x = p /\ y = q /\ sendTo[q] <= p
  <2> SUFFICES ASSUME NEW r \in Party, NEW x \in Party, NEW y \in Party
               PROVE  HeldBy(r, x, y)' <=> \/ HeldBy(r, x, y)
                                           \/ r = p /\ x = q /\ y = p /\ p < sendTo[q]
                                           \/ r = p /\ x = p /\ y = q /\ sendTo[q] <= p
    OBVIOUS
  <2>1. r \in Int /\ x \in Int /\ y \in Int /\ recvFrom[r] \in Int /\ sendTo[x] \in Int
        /\ sendTo[y] \in Int
    BY <1>0, CounterFacts
  <2>2. x < recvFrom'[r] <=> x < recvFrom[r] \/ (r = p /\ x = q)
    BY <1>1, <1>2, <2>1 DEF q
  <2>3. y < recvFrom'[r] <=> y < recvFrom[r] \/ (r = p /\ y = q)
    BY <1>1, <1>2, <2>1 DEF q
  <2>4. Missed(x, r)' <=> Missed(x, r) \/ (x = q /\ r = p /\ sendTo[q] <= p)
    BY <1>8
  <2>5. Missed(y, r)' <=> Missed(y, r) \/ (y = q /\ r = p /\ sendTo[q] <= p)
    BY <1>8
  <2>6. ~Missed(q, p)
    BY <1>1 DEF Missed, q
  <2>7. ~(q < recvFrom[p])
    BY <1>1 DEF q
  <2> QED BY <1>1, <2>1, <2>2, <2>3, <2>4, <2>5, <2>6, <2>7 DEF HeldBy
<1>11. ~HeldBy(p, q, p) /\ ~HeldBy(p, p, q)
  BY <1>1 DEF HeldBy, q
<1>12. Shares'
  <2>1. \A r \in Party : r # p => Held(r)' = Held(r)
    BY <1>10 DEF Held, Strings
  <2>2. acc' = [acc EXCEPT ![p] = Held(p)']
    <3>1. CASE p < sendTo[q]
      <4>1. \A x, y \in Party : HeldBy(p, x, y)' <=> HeldBy(p, x, y) \/ (x = q /\ y = p)
        BY <1>1, <1>10, <3>1
      <4>2. Held(p)' = Xor(Held(p), {<<q, p>>})
        BY <1>1, <1>11, <4>1, XorOne
      <4> QED BY <1>0, <1>1, <1>6, <3>1, <4>2 DEF Shares
    <3>2. CASE sendTo[q] <= p
      <4>1. \A x, y \in Party : HeldBy(p, x, y)' <=> HeldBy(p, x, y) \/ (x = p /\ y = q)
        BY <1>1, <1>10, <3>2
      <4>2. Held(p)' = Xor(Held(p), {<<p, q>>})
        BY <1>1, <1>11, <4>1, XorOne
      <4> QED BY <1>0, <1>1, <1>6, <3>2, <4>2 DEF Shares
    <3> QED BY <1>1, <3>1, <3>2
  <2> QED BY <1>0, <1>1, <1>4, <2>1, <2>2 DEF Shares
<1>13. OnlyDeadMissed'
  BY <1>0, <1>1, <1>6, <1>8 DEF OnlyDeadMissed
<1> QED BY <1>3, <1>9, <1>12, <1>13 DEF IInv

LEMMA ExpandKeeps == ASSUME IInv, NEW p \in Party, Expand(p) PROVE IInv'
<1>0. Counters /\ Channels /\ Shares /\ OnlyDeadMissed
  BY DEF IInv
<1>1. /\ UNCHANGED <<chan, sendTo, recvFrom, acc, crashed>>
      /\ expanded' = expanded \cup {p}
      /\ share' = [share EXCEPT ![p] = acc[p]]
      /\ sendTo[p] = N + 1 /\ recvFrom[p] = p
  BY DEF Expand
<1>2. Counters'
  BY <1>0, <1>1 DEF Counters
<1>3. Channels' /\ OnlyDeadMissed'
  BY <1>0, <1>1 DEF Channels, InFlight, OnlyDeadMissed, Missed
<1>4. \A r \in Party : Held(r)' = Held(r)
  BY <1>1 DEF Held, HeldBy, Missed
<1>5. Shares'
  BY <1>0, <1>1, <1>4 DEF Shares
<1> QED BY <1>2, <1>3, <1>5 DEF IInv

\* A death changes only who is dead.
LEMMA CrashKeeps == ASSUME IInv, NEW p \in Party, Crash(p) PROVE IInv'
<1>0. Counters /\ Channels /\ Shares /\ OnlyDeadMissed
  BY DEF IInv
<1>1. UNCHANGED <<chan, sendTo, recvFrom, acc, share, expanded>> /\ crashed' = crashed \cup {p}
  BY DEF Crash
<1>2. Counters'
  BY <1>0, <1>1 DEF Counters
<1>3. Channels' /\ OnlyDeadMissed'
  BY <1>0, <1>1 DEF Channels, InFlight, OnlyDeadMissed, Missed
<1>4. \A r \in Party : Held(r)' = Held(r)
  BY <1>1 DEF Held, HeldBy, Missed
<1>5. Shares'
  BY <1>0, <1>1, <1>4 DEF Shares
<1> QED BY <1>2, <1>3, <1>5 DEF IInv

LEMMA StutterKeeps == ASSUME IInv, UNCHANGED shareVars PROVE IInv'
<1>0. Counters /\ Channels /\ Shares /\ OnlyDeadMissed
  BY DEF IInv
<1>1. UNCHANGED <<chan, sendTo, recvFrom, acc, share, expanded, crashed>>
  BY DEF shareVars
<1>2. Counters'
  BY <1>0, <1>1 DEF Counters
<1>3. Channels' /\ OnlyDeadMissed'
  BY <1>0, <1>1 DEF Channels, InFlight, OnlyDeadMissed, Missed
<1>4. \A r \in Party : Held(r)' = Held(r)
  BY <1>1 DEF Held, HeldBy, Missed
<1>5. Shares'
  BY <1>0, <1>1, <1>4 DEF Shares
<1> QED BY <1>2, <1>3, <1>5 DEF IInv

\* The invariant that places every seed is inductive.
THEOREM Inductive == Spec => []IInv
<1>1. Init => IInv
  BY InitIInv
<1>2. IInv /\ [Next]_shareVars => IInv'
  BY SendKeeps, ReceiveKeeps, ExpandKeeps, CrashKeeps, StutterKeeps DEF Next, Step
<1> QED BY <1>1, <1>2, PTL DEF Spec

-----------------------------------------------------------------------------
(***************************************************************************)
(* When all have returned and nobody died, the shares are the edges of the *)
(* complete graph at each vertex: every edge has exactly two ends.         *)
(***************************************************************************)
LEMMA FinalShares ==
  ASSUME IInv, expanded = Party, crashed = {}, NEW p \in Party
  PROVE  share[p] = {s \in Seed : s[1] = p \/ s[2] = p}
<1>0. Counters /\ Shares /\ OnlyDeadMissed
  BY DEF IInv
<1>1. share[p] = Held(p)
  BY <1>0 DEF Shares
<1>2. \A i, j \in Party : ~Missed(i, j)
  BY <1>0 DEF OnlyDeadMissed
<1>3. sendTo[p] = N + 1 /\ recvFrom[p] = p
  BY <1>0 DEF Counters
<1>4. \A x, y \in Party : x # y => (HeldBy(p, x, y) <=> x < y /\ (x = p \/ y = p))
  <2> SUFFICES ASSUME NEW x \in Party, NEW y \in Party, x # y
               PROVE  HeldBy(p, x, y) <=> x < y /\ (x = p \/ y = p)
    OBVIOUS
  <2>1. x \in Int /\ y \in Int /\ p \in Int /\ y < N + 1
    BY <1>0, CounterFacts
  <2> QED BY <1>2, <1>3, <2>1 DEF HeldBy
<1>5. \A s \in Strings : HeldBy(p, s[1], s[2]) <=> s \in Seed /\ (s[1] = p \/ s[2] = p)
  BY <1>4 DEF Strings, Seed
<1>6. Seed \subseteq Strings
  BY <1>0, CounterFacts DEF Seed, Strings
<1> QED BY <1>1, <1>5, <1>6 DEF Held

LEMMA PairCard == ASSUME NEW x, NEW y, x # y PROVE Cardinality({x, y}) = 2
<1>1. IsFiniteSet({x}) /\ Cardinality({x}) = 1
  BY FS_Singleton
<1>2. Cardinality({x} \cup {y}) = 2
  BY <1>1, FS_AddElement
<1>3. {x, y} = {x} \cup {y}
  OBVIOUS
<1> QED BY <1>2, <1>3

LEMMA SharesSum == IInv => SharesCancel
<1> SUFFICES ASSUME IInv, expanded = Party, crashed = {}, NEW a \in Strings
             PROVE  Cardinality(Holders(Party, a)) % 2 = 0
  BY DEF SharesCancel, Cancels
<1>1. CASE a \in Seed
  <2>1. a[1] \in Party /\ a[2] \in Party /\ a[1] # a[2]
    BY DEF Strings
  <2>2. Holders(Party, a) = {a[1], a[2]}
    BY <1>1, <2>1, FinalShares DEF Holders
  <2>3. Cardinality({a[1], a[2]}) = 2
    BY <2>1, PairCard
  <2> QED BY <2>2, <2>3
<1>2. CASE a \notin Seed
  <2>1. Holders(Party, a) = {}
    BY <1>2, FinalShares DEF Holders
  <2> QED BY <2>1, FS_EmptySet
<1> QED BY <1>1, <1>2

\* The shares of all the parties XOR to zero, for every number of parties.
THEOREM ShareSum == Spec => []SharesCancel
BY SharesSum, Inductive, PTL

\* No other group of parties has shares that XOR to zero: the seed between a
\* member and an outsider is in one share of the group only.
THEOREM NoCoalition == Spec => []NoSubsetCancels
<1>1. IInv => NoSubsetCancels
  <2> SUFFICES ASSUME IInv, expanded = Party, crashed = {},
                      NEW S \in SUBSET Party, S # {}, S # Party, Cancels(S)
               PROVE  FALSE
    BY DEF NoSubsetCancels
  <2>1. PICK p \in S, q \in Party : q \notin S
    OBVIOUS
  <2>2. PICK a \in Seed : {a[1], a[2]} = {p, q} /\ a[1] # a[2]
    <3>1. p \in Int /\ q \in Int /\ p # q /\ p \in Party
      BY <2>1, CounterFacts DEF IInv
    <3>2. CASE p < q
      <4>1. <<p, q>> \in Seed
        BY <3>1, <3>2 DEF Seed
      <4> WITNESS <<p, q>> \in Seed
      <4> QED BY <3>1
    <3>3. CASE q < p
      <4>1. <<q, p>> \in Seed
        BY <3>1, <3>3 DEF Seed
      <4> WITNESS <<q, p>> \in Seed
      <4> QED BY <3>1
    <3> QED BY <3>1, <3>2, <3>3
  <2>3. a \in Strings
    BY <2>2 DEF Seed, Strings
  <2>4. Holders(S, a) = {p}
    <3>1. \A r \in S : r \in Holders(S, a) <=> r = a[1] \/ r = a[2]
      BY FinalShares DEF Holders
    <3>2. \A r : r = a[1] \/ r = a[2] <=> r = p \/ r = q
      BY <2>2
    <3> QED BY <2>1, <3>1, <3>2 DEF Holders
  <2>5. Cardinality(Holders(S, a)) = 1
    BY <2>4, FS_Singleton
  <2> QED BY <2>3, <2>5 DEF Cancels
<1> QED BY <1>1, Inductive, PTL

\* An unfilled buffer gets into a share only through a death.
THEOREM GarbageNeedsDeath == Spec => []GarbageOnlyFromDead
<1>1. IInv => GarbageOnlyFromDead
  <2> SUFFICES ASSUME IInv, NEW i \in Party, NEW p \in Party, i < p, <<p, i>> \in share[p]
               PROVE  i \in crashed
    BY DEF GarbageOnlyFromDead, Uninit
  <2>1. <<p, i>> \in Held(p)
    BY DEF IInv, Shares
  <2>2. HeldBy(p, p, i) /\ i \in Int /\ p \in Int
    BY <2>1, CounterFacts DEF Held, IInv
  <2>3. Missed(i, p)
    BY <2>2 DEF HeldBy
  <2> QED BY <2>3 DEF IInv, OnlyDeadMissed
<1> QED BY <1>1, Inductive, PTL

\* Any two parties that returned hold their common seed, whoever else died.
THEOREM PairsHoldSeed == Spec => []PairsAgree
<1>1. IInv => PairsAgree
  <2> SUFFICES ASSUME IInv, NEW i \in expanded, NEW j \in expanded, i < j
               PROVE  <<i, j>> \in share[i] /\ <<i, j>> \in share[j]
    BY DEF PairsAgree
  <2>1. /\ i \in Party /\ j \in Party /\ i \in Int /\ j \in Int /\ j <= N /\ N \in Int
        /\ sendTo[i] = N + 1 /\ recvFrom[j] = j
    BY CounterFacts DEF IInv, Counters
  <2>2. ~Missed(i, j)
    BY <2>1 DEF Missed
  <2>3. HeldBy(i, i, j) /\ HeldBy(j, i, j)
    BY <2>1, <2>2 DEF HeldBy
  <2>4. <<i, j>> \in Strings
    BY <2>1 DEF Strings
  <2>5. <<i, j>> \in Held(i) /\ <<i, j>> \in Held(j)
    BY <2>3, <2>4 DEF Held
  <2>6. share[i] = Held(i) /\ share[j] = Held(j)
    BY <2>1 DEF IInv, Shares
  <2> QED BY <2>5, <2>6
<1> QED BY <1>1, Inductive, PTL

\* Every variable stays in its range; a channel never holds two seeds.
THEOREM TypeCorrect == Spec => []TypeOK
<1>1. IInv => TypeOK
  <2> SUFFICES ASSUME IInv PROVE TypeOK
    OBVIOUS
  <2>1. \A p \in Party : Held(p) \subseteq Strings
    BY DEF Held
  <2>2. acc \in [Party -> SUBSET Strings] /\ share \in [Party -> SUBSET Strings]
    BY <2>1 DEF IInv, Shares
  <2> QED BY <2>2 DEF IInv, Counters, Channels, TypeOK
<1> QED BY <1>1, Inductive, PTL
=============================================================================
