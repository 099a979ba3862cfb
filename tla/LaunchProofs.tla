---------------------------- MODULE LaunchProofs ----------------------------
(***************************************************************************)
(* Proofs about Launch, for every number of parties and cores, whoever     *)
(* dies and whichever connects give up: first the mesh of connections,     *)
(* then the coordinator and the parties it starts.                         *)
(*                                                                         *)
(* The mesh.  Covered(p, i) is how many sockets party p is through with in *)
(* its loop over party i.  On the listening side that many sockets have    *)
(* been accepted; on the connecting side that many have been tried, and    *)
(* each of them was given up or stands, in the order in which they were    *)
(* tried, in the line of those accepted and those still pending at the     *)
(* other side.                                                             *)
(***************************************************************************)
EXTENDS Launch, FiniteSetTheorems, SequenceTheorems, WellFoundedInduction, TLAPS

Socket == Party \X (Nat \ {0})

MeshType ==
  /\ threads \in [Party -> Nat \ {0}]
  /\ step \in [Party -> {"down", "listen", "accept", "connect", "connected", "ended"}]
  /\ peer \in [Party -> 0 .. N + 1]
  /\ sock \in [Party -> Nat \ {0}]
  /\ open \subseteq Party \X Party
  /\ pending \in [Party \X Party -> Seq(Socket)]
  /\ attached \in [Party -> [Party -> Seq(Socket)]]
  /\ gaveUp \subseteq Party \X Party \X (Nat \ {0})

\* Where the two loops of connectToAllParties are.
InLoop(p) ==
  /\ peer[p] # p /\ sock[p] <= threads[p]
  /\ step[p] = "down" => peer[p] = 0
  /\ step[p] \in {"listen", "accept"} => peer[p] \in 1 .. p - 1
  /\ step[p] = "connect" => peer[p] \in p + 1 .. N
  /\ step[p] = "connected" => peer[p] = N + 1
  /\ step[p] = "listen" => sock[p] = 1

\* The sockets of p's loop over party i that p is through with.
Covered(p, i) ==
  IF peer[p] < i THEN 0 ELSE IF peer[p] = i THEN sock[p] - 1 ELSE threads[p]

\* Each of them has been accepted, if p listens for i.
Accepts(q, p) == Len(attached[q][p]) = IF p < q THEN Covered(q, p) ELSE 0

\* What p connected to q, in the order in which q takes it.
Line(p, q) == attached[q][p] \o pending[<<q, p>>]

\* Socket k of p to q was given up, for a k up to n.
GaveUpBy(p, q, n) == \E k \in 1 .. n : <<p, q, k>> \in gaveUp

LineInv(p, q) ==
  /\ \A j \in 1 .. Len(Line(p, q)) : Line(p, q)[j] = <<p, j>> \/ GaveUpBy(p, q, j)
  /\ Covered(p, q) = Len(Line(p, q)) \/ GaveUpBy(p, q, Len(Line(p, q)) + 1)

\* Every socket tried was given up or stands in the line.
CountInv(p, q) ==
  /\ IsFiniteSet(GaveUpOn(p, q))
  /\ Len(Line(p, q)) + Cardinality(GaveUpOn(p, q)) = Covered(p, q)
  /\ \A g \in GaveUpOn(p, q) : g[3] <= Covered(p, q)

\* A party listens for those below it up to the one its loop is at.
Listened(q, i) == peer[q] > i \/ (peer[q] = i /\ step[q] = "accept")

OpenInv(q, i) == step[q] # "ended" /\ Listened(q, i) => <<q, i>> \in open

MeshInv ==
  /\ MeshType
  /\ \A p \in Party : InLoop(p)
  /\ \A p, q \in Party : Accepts(q, p)
  /\ \A p, q \in Party : p < q => LineInv(p, q) /\ CountInv(p, q) /\ OpenInv(q, p)

-----------------------------------------------------------------------------
(***************************************************************************)
(* The steps of the mesh.                                                  *)
(***************************************************************************)

\* Every step of an experiment is at most one step of the mesh.
LEMMA MeshSteps ==
  ASSUME [Next]_launchVars
  PROVE  \/ UNCHANGED meshVars
         \/ \E p \in Party : \/ M!Start(p) \/ M!Listen(p) \/ M!Accept(p)
                             \/ M!Connect(p) \/ M!GiveUp(p) \/ M!End(p)
  BY DEF Next, launchVars, Coordinating, Connecting, Refused, Computing, Die, Alongside, M!Step

\* The other party after peer[p]: no party but p itself is left out.
LEMMA NextPeerIsNext ==
  ASSUME MeshType, NEW p \in Party, peer[p] \in 0 .. N, peer[p] # p
  PROVE  /\ M!NextPeer(p) \in 1 .. N + 1 /\ M!NextPeer(p) # p /\ M!NextPeer(p) > peer[p]
         /\ \A i \in Party : i # p => (i < M!NextPeer(p) <=> i <= peer[p])
<1>1. p \in Int /\ N \in Int /\ p >= 1 /\ p <= N /\ peer[p] \in Int /\ peer[p] >= 0 /\ peer[p] <= N
  BY LaunchSizes DEF Party
<1>2. \A i \in Party : i \in Int
  BY DEF Party
<1>3. CASE peer[p] + 1 = p
  <2>1. M!NextPeer(p) = p + 1
    BY <1>3 DEF M!NextPeer
  <2> QED BY <1>1, <1>2, <1>3, <2>1
<1>4. CASE peer[p] + 1 # p
  <2>1. M!NextPeer(p) = peer[p] + 1
    BY <1>4 DEF M!NextPeer
  <2> QED BY <1>1, <1>2, <1>4, <2>1
<1> QED BY <1>3, <1>4

\* p has got one socket further in its loops, or has started.
WentOn(p) ==
  /\ step' \in [Party -> {"down", "listen", "accept", "connect", "connected", "ended"}]
  /\ peer' \in [Party -> 0 .. N + 1] /\ sock' \in [Party -> Nat \ {0}]
  /\ InLoop(p)'
  /\ \A q \in Party : q # p => step'[q] = step[q] /\ peer'[q] = peer[q] /\ sock'[q] = sock[q]
  /\ \A i \in Party : i # p =>
       Covered(p, i)' = IF i = peer[p] THEN Covered(p, i) + 1 ELSE Covered(p, i)
  /\ \A i \in Party : i < p /\ Listened(p, i)' => Listened(p, i)
  /\ step'[p] # "ended"

\* GoOn gets it there at the start and at the end of each loop ...
LEMMA GoOnCovers ==
  ASSUME MeshType, NEW p \in Party, InLoop(p), M!GoOn(p), UNCHANGED threads,
         \/ step[p] = "down"
         \/ step[p] \in {"accept", "connect"} /\ sock[p] = threads[p]
  PROVE  WentOn(p)
<1> DEFINE i == M!NextPeer(p)
<1>1. /\ peer' = [peer EXCEPT ![p] = i]
      /\ step' = [step EXCEPT ![p] = IF i > N THEN "connected" ELSE IF i < p THEN "listen" ELSE "connect"]
      /\ sock' = [sock EXCEPT ![p] = 1]
  BY DEF M!GoOn, M!LoopOver
<1>2. /\ threads[p] \in Nat \ {0} /\ sock[p] \in Nat \ {0} /\ p \in Int /\ N \in Nat /\ p \in 1 .. N
      /\ peer \in [Party -> 0 .. N + 1]
      /\ step \in [Party -> {"down", "listen", "accept", "connect", "connected", "ended"}]
      /\ sock \in [Party -> Nat \ {0}]
  <2>1. p \in Int /\ N \in Nat /\ p \in 1 .. N
    BY LaunchSizes DEF Party
  <2>2. threads[p] \in Nat \ {0} /\ sock[p] \in Nat \ {0}
    BY DEF MeshType
  <2> QED BY <2>1, <2>2 DEF MeshType
<1>3. peer[p] \in 0 .. N /\ peer[p] # p
  <2>1. peer[p] = 0 \/ peer[p] \in 1 .. p - 1 \/ peer[p] \in p + 1 .. N
    BY DEF InLoop
  <2>2. peer[p] # p
    BY DEF InLoop
  <2>3. p \in 1 .. N /\ N \in Nat
    BY <1>2
  <2>4. peer[p] \in 0 .. N
    <3> DEFINE x == peer[p]
    <3>1. x = 0 \/ x \in 1 .. p - 1 \/ x \in p + 1 .. N
      BY <2>1
    <3> HIDE DEF x
    <3>2. x \in 0 .. N
      BY <2>3, <3>1
    <3> QED BY <3>2 DEF x
  <2> QED BY <2>2, <2>4
<1>4. /\ i \in 1 .. N + 1 /\ i # p /\ i > peer[p]
      /\ \A j \in Party : j # p => (j < i <=> j <= peer[p])
  BY <1>3, NextPeerIsNext
<1> HIDE DEF i
<1>5. peer'[p] = i /\ sock'[p] = 1
      /\ step'[p] = IF i > N THEN "connected" ELSE IF i < p THEN "listen" ELSE "connect"
  BY <1>1, <1>2
<1>6. /\ step' \in [Party -> {"listen", "accept", "connect", "connected", "down", "ended"}]
      /\ peer' \in [Party -> 0 .. N + 1] /\ sock' \in [Party -> Nat \ {0}]
  BY <1>1, <1>2, <1>4
<1>7. \A q \in Party : q # p => step'[q] = step[q] /\ peer'[q] = peer[q] /\ sock'[q] = sock[q]
  BY <1>1, <1>2
<1>8. InLoop(p)'
  BY <1>2, <1>4, <1>5 DEF InLoop
<1>9. ASSUME NEW j \in Party, j # p
      PROVE  Covered(p, j)' = IF j = peer[p] THEN Covered(p, j) + 1 ELSE Covered(p, j)
  <2>1. j \in Int /\ j > 0 /\ threads'[p] = threads[p]
    BY LaunchSizes DEF Party
  <2>2. Covered(p, j)' = IF j <= peer[p] THEN threads[p] ELSE 0
    BY <1>4, <1>5, <1>9, <2>1 DEF Covered
  <2> QED BY <1>2, <1>3, <2>1, <2>2 DEF Covered, InLoop
<1>10. ASSUME NEW j \in Party, j < p, Listened(p, j)' PROVE Listened(p, j)
  <2>1. j \in Int /\ j > 0 /\ j # p
    BY <1>2, <1>10 DEF Party
  <2>2. j <= peer[p]
    BY <1>4, <1>5, <1>10, <2>1 DEF Listened
  <2>3. peer[p] = j => step[p] = "accept"
    BY <1>2, <1>10, <2>1 DEF InLoop
  <2> QED BY <1>3, <2>1, <2>2, <2>3 DEF Listened
<1>11. step'[p] # "ended"
  BY <1>5
<1> QED BY <1>6, <1>7, <1>8, <1>9, <1>10, <1>11 DEF WentOn

\* ... and NextSocket after each socket.
LEMMA NextSocketCovers ==
  ASSUME MeshType, NEW p \in Party, InLoop(p), M!NextSocket(p), UNCHANGED threads,
         step[p] \in {"accept", "connect"}
  PROVE  WentOn(p)
<1>1. CASE sock[p] = threads[p]
  BY <1>1, GoOnCovers DEF M!NextSocket
<1>2. CASE sock[p] # threads[p]
  <2>1. sock' = [sock EXCEPT ![p] = @ + 1] /\ UNCHANGED <<step, peer>>
    BY <1>2 DEF M!NextSocket
  <2>2. threads[p] \in Nat \ {0} /\ sock[p] \in Nat \ {0} /\ sock[p] < threads[p] /\ peer[p] \in Int
    BY <1>2, LaunchSizes DEF MeshType, InLoop
  <2>3. sock' \in [Party -> Nat \ {0}] /\ sock'[p] = sock[p] + 1
        /\ \A q \in Party : q # p => sock'[q] = sock[q]
    BY <2>1, <2>2 DEF MeshType
  <2>4. InLoop(p)'
    BY <2>1, <2>2, <2>3 DEF InLoop
  <2>5. \A i \in Party : i # p =>
          Covered(p, i)' = IF i = peer[p] THEN Covered(p, i) + 1 ELSE Covered(p, i)
    BY <2>1, <2>2, <2>3 DEF Covered
  <2>6. \A i \in Party : Listened(p, i)' => Listened(p, i)
    BY <2>1 DEF Listened
  <2> QED BY <2>1, <2>3, <2>4, <2>5, <2>6 DEF MeshType, WentOn
<1> QED BY <1>1, <1>2

\* The loops of the others stay where they are, and so do the open ports.
LEMMA OthersStay ==
  ASSUME MeshInv, NEW p \in Party, WentOn(p), step[p] # "ended", UNCHANGED threads, open \subseteq open'
  PROVE  /\ \A q \in Party : InLoop(q)'
         /\ \A q, i \in Party : q # i =>
              Covered(q, i)' = IF q = p /\ i = peer[p] THEN Covered(q, i) + 1 ELSE Covered(q, i)
         /\ \A q, i \in Party : i < q => OpenInv(q, i)'
<1>1. ASSUME NEW q \in Party, q # p
      PROVE  InLoop(q)' /\ \A i \in Party : /\ Covered(q, i)' = Covered(q, i)
                                            /\ Listened(q, i)' = Listened(q, i)
  <2>1. step'[q] = step[q] /\ peer'[q] = peer[q] /\ sock'[q] = sock[q] /\ threads'[q] = threads[q]
    BY <1>1 DEF WentOn
  <2> QED BY <2>1 DEF InLoop, Covered, Listened, MeshInv
<1>2. ASSUME NEW q \in Party, NEW i \in Party, i < q PROVE OpenInv(q, i)'
  <2>1. CASE q = p
    BY <1>2, <2>1 DEF OpenInv, WentOn, MeshInv
  <2>2. CASE q # p
    <3>1. step'[q] = step[q] /\ Listened(q, i)' = Listened(q, i)
      BY <1>1, <2>2 DEF WentOn
    <3> QED BY <1>2, <3>1 DEF OpenInv, MeshInv
  <2> QED BY <2>1, <2>2
<1> QED BY <1>1, <1>2 DEF WentOn

\* Steps that connect and accept nothing.
LEMMA NothingMoves ==
  ASSUME MeshInv, MeshType', \A q \in Party : InLoop(q)', UNCHANGED <<pending, attached, gaveUp>>,
         \A q, i \in Party : q # i => Covered(q, i)' = Covered(q, i),
         \A q, i \in Party : i < q => OpenInv(q, i)'
  PROVE  MeshInv'
<1>0. \A q \in Party : q \in Int
  BY DEF Party
<1>1. \A p, q \in Party : Accepts(q, p)'
  BY <1>0 DEF Accepts, MeshInv
<1>2. ASSUME NEW p \in Party, NEW q \in Party, p < q PROVE LineInv(p, q)' /\ CountInv(p, q)'
  <2>1. /\ Line(p, q)' = Line(p, q) /\ GaveUpOn(p, q)' = GaveUpOn(p, q)
        /\ Covered(p, q)' = Covered(p, q)
        /\ \A n : GaveUpBy(p, q, n)' = GaveUpBy(p, q, n)
    BY <1>0, <1>2 DEF Line, GaveUpOn, GaveUpBy
  <2> QED BY <1>2, <2>1 DEF LineInv, CountInv, MeshInv
<1> QED BY <1>1, <1>2 DEF MeshInv

LEMMA StartKeeps ==
  ASSUME MeshInv, NEW p \in Party, M!Start(p)
  PROVE  MeshInv'
<1>1. WentOn(p) /\ step[p] = "down" /\ peer[p] = 0
  BY GoOnCovers DEF M!Start, MeshInv, InLoop
<1>2. UNCHANGED <<threads, open, pending, attached, gaveUp>>
  BY DEF M!Start
<1>3. MeshType'
  BY <1>1, <1>2 DEF MeshType, MeshInv, WentOn
<1>4. \A q \in Party : q # 0
  BY DEF Party
<1> QED BY <1>1, <1>2, <1>3, <1>4, OthersStay, NothingMoves

LEMMA ListenKeeps ==
  ASSUME MeshInv, NEW p \in Party, M!Listen(p)
  PROVE  MeshInv'
<1>1. /\ step[p] = "listen" /\ step' = [step EXCEPT ![p] = "accept"]
      /\ open' = open \cup {<<p, peer[p]>>}
      /\ UNCHANGED <<threads, peer, sock, pending, attached, gaveUp>>
  BY DEF M!Listen, M!PortOf
<1>2. peer[p] \in 1 .. p - 1 /\ peer[p] \in Party /\ p \in Int
  <2>1. peer[p] \in 1 .. p - 1 /\ p \in 1 .. N /\ N \in Nat
    BY <1>1, LaunchSizes DEF MeshInv, InLoop, Party
  <2> QED BY <2>1 DEF Party
<1>3. MeshType'
  BY <1>1, <1>2 DEF MeshInv, MeshType
<1>4. \A q \in Party : q # p => step'[q] = step[q]
  BY <1>1 DEF MeshInv, MeshType
<1>5. step'[p] = "accept"
  BY <1>1 DEF MeshInv, MeshType
<1>6. ASSUME NEW q \in Party PROVE InLoop(q)'
  BY <1>1, <1>2, <1>4, <1>5 DEF MeshInv, InLoop
<1>7. \A q, i \in Party : Covered(q, i)' = Covered(q, i)
  BY <1>1 DEF Covered
<1>8. ASSUME NEW q \in Party, NEW i \in Party, i < q PROVE OpenInv(q, i)'
  <2>1. CASE q = p /\ i = peer[p]
    BY <1>1, <2>1 DEF OpenInv
  <2>2. CASE ~(q = p /\ i = peer[p])
    <3>1. Listened(q, i)' => Listened(q, i)
      BY <1>1, <1>4, <2>2 DEF Listened
    <3> QED BY <1>1, <1>4, <1>8, <3>1 DEF OpenInv, MeshInv
  <2> QED BY <2>1, <2>2
<1> QED BY <1>1, <1>3, <1>6, <1>7, <1>8, NothingMoves

LEMMA EndKeeps ==
  ASSUME MeshInv, NEW p \in Party, M!End(p)
  PROVE  MeshInv'
<1>1. /\ step' = [step EXCEPT ![p] = "ended"]
      /\ open' = open \ {<<p, i>> : i \in Party}
      /\ UNCHANGED <<threads, peer, sock, pending, attached, gaveUp>>
  BY DEF M!End, M!PortOf, M!Party, Party
<1>2. step'[p] = "ended" /\ \A q \in Party : q # p => step'[q] = step[q]
  BY <1>1 DEF MeshInv, MeshType
<1>3. MeshType'
  BY <1>1 DEF MeshInv, MeshType
<1>4. ASSUME NEW q \in Party PROVE InLoop(q)'
  BY <1>1, <1>2 DEF MeshInv, InLoop
<1>5. \A q, i \in Party : Covered(q, i)' = Covered(q, i)
  BY <1>1 DEF Covered
<1>6. ASSUME NEW q \in Party, NEW i \in Party, i < q PROVE OpenInv(q, i)'
  <2>1. CASE q = p
    BY <1>2, <2>1 DEF OpenInv
  <2>2. CASE q # p
    <3>1. step'[q] = step[q] /\ Listened(q, i)' = Listened(q, i)
      BY <1>1, <1>2, <2>2 DEF Listened
    <3>2. <<q, i>> \in open => <<q, i>> \in open'
      BY <1>1, <2>2
    <3> QED BY <1>6, <3>1, <3>2 DEF OpenInv, MeshInv
  <2> QED BY <2>1, <2>2
<1> QED BY <1>1, <1>3, <1>4, <1>5, <1>6, NothingMoves

\* A socket that is accepted stays where it is in the line.
LEMMA LineOnAccept ==
  ASSUME NEW S, NEW s \in Seq(S), NEW t \in Seq(S), t # <<>>
  PROVE  /\ Append(s, Head(t)) \o Tail(t) = s \o t
         /\ Append(s, Head(t)) \in Seq(S) /\ Tail(t) \in Seq(S)
         /\ Len(Append(s, Head(t))) = Len(s) + 1
<1>1. Append(s, Head(t)) \in Seq(S) /\ Tail(t) \in Seq(S) /\ Len(Append(s, Head(t))) = Len(s) + 1
  OBVIOUS
<1>2. Append(s, Head(t)) = s \o <<Head(t)>> /\ <<Head(t)>> \in Seq(S)
  OBVIOUS
<1>3. <<Head(t)>> \o Tail(t) = t
  BY HeadTailProperties
<1>4. (s \o <<Head(t)>>) \o Tail(t) = s \o (<<Head(t)>> \o Tail(t))
  BY <1>1, <1>2, ConcatAssociative
<1> QED BY <1>1, <1>2, <1>3, <1>4

\* One that is connected is the last one of its line.
LEMMA LineOnConnect ==
  ASSUME NEW S, NEW s \in Seq(S), NEW t \in Seq(S), NEW e \in S
  PROVE  s \o Append(t, e) = Append(s \o t, e)
<1>1. Append(t, e) = t \o <<e>> /\ <<e>> \in Seq(S)
  BY AppendIsConcat
<1>2. s \o (t \o <<e>>) = (s \o t) \o <<e>>
  BY <1>1, ConcatAssociative
<1>3. s \o t \in Seq(S)
  OBVIOUS
<1>4. Append(s \o t, e) = (s \o t) \o <<e>>
  BY <1>3, AppendIsConcat
<1> QED BY <1>1, <1>2, <1>4

LEMMA AcceptKeeps ==
  ASSUME MeshInv, NEW p \in Party, M!Accept(p)
  PROVE  MeshInv'
<1> DEFINE i == peer[p]
           att == attached[p][i]
           pend == pending[<<p, i>>]
<1>1. /\ step[p] = "accept" /\ pend # <<>>
      /\ attached' = [attached EXCEPT ![p][i] = Append(@, Head(pend))]
      /\ pending' = [pending EXCEPT ![<<p, i>>] = Tail(@)]
      /\ UNCHANGED <<threads, open, gaveUp>>
  BY DEF M!Accept, M!PortOf
<1>2. WentOn(p)
  BY <1>1, NextSocketCovers DEF M!Accept, MeshInv
<1>3. i \in Party /\ i < p /\ i # p
  <2>1. i \in 1 .. p - 1 /\ p \in 1 .. N /\ N \in Nat
    BY <1>1, LaunchSizes DEF MeshInv, InLoop, Party
  <2> QED BY <2>1 DEF Party
<1>4. att \in Seq(Socket) /\ pend \in Seq(Socket)
  BY <1>3 DEF MeshInv, MeshType
<1>5. /\ \A q \in Party : InLoop(q)'
      /\ \A q, j \in Party : q # j =>
           Covered(q, j)' = IF q = p /\ j = i THEN Covered(q, j) + 1 ELSE Covered(q, j)
      /\ \A q, j \in Party : j < q => OpenInv(q, j)'
  BY <1>1, <1>2, OthersStay
<1> HIDE DEF i
<1>6. /\ attached'[p][i] = Append(att, Head(pend)) /\ pending'[<<p, i>>] = Tail(pend)
      /\ \A q, j \in Party : <<q, j>> # <<p, i>> =>
           attached'[q][j] = attached[q][j] /\ pending'[<<q, j>>] = pending[<<q, j>>]
  BY <1>1, <1>3 DEF MeshInv, MeshType
<1>7. /\ Append(att, Head(pend)) \o Tail(pend) = att \o pend
      /\ Append(att, Head(pend)) \in Seq(Socket) /\ Tail(pend) \in Seq(Socket)
      /\ Len(Append(att, Head(pend))) = Len(att) + 1
  BY <1>1, <1>4, LineOnAccept
<1>8. MeshType'
  <2>1. attached' \in [Party -> [Party -> Seq(Socket)]] /\ pending' \in [Party \X Party -> Seq(Socket)]
    BY <1>1, <1>3, <1>7 DEF MeshInv, MeshType
  <2> QED BY <1>1, <1>2, <2>1 DEF MeshInv, MeshType, WentOn
<1>9. ASSUME NEW q \in Party, NEW j \in Party PROVE Accepts(q, j)'
  <2>1. CASE q = p /\ j = i
    BY <1>3, <1>5, <1>6, <1>7, <2>1 DEF Accepts, MeshInv
  <2>2. CASE <<q, j>> # <<p, i>>
    <3>1. attached'[q][j] = attached[q][j]
      BY <1>6, <2>2
    <3>2. j < q => q # j
      BY DEF Party
    <3>3. j < q => Covered(q, j)' = Covered(q, j)
      BY <1>5, <2>2, <3>2
    <3> QED BY <3>1, <3>3 DEF Accepts, MeshInv
  <2> QED BY <2>1, <2>2
<1>10. ASSUME NEW a \in Party, NEW b \in Party, a < b PROVE LineInv(a, b)' /\ CountInv(a, b)'
  <2>1. Line(a, b)' = Line(a, b)
    BY <1>6, <1>7 DEF Line
  <2>2. Covered(a, b)' = Covered(a, b)
    BY <1>3, <1>5, <1>10 DEF Party
  <2>3. GaveUpOn(a, b)' = GaveUpOn(a, b) /\ \A n : GaveUpBy(a, b, n)' = GaveUpBy(a, b, n)
    BY <1>1 DEF GaveUpOn, GaveUpBy
  <2> QED BY <1>10, <2>1, <2>2, <2>3 DEF LineInv, CountInv, MeshInv
<1> QED BY <1>5, <1>8, <1>9, <1>10 DEF MeshInv

LEMMA ConnectKeeps ==
  ASSUME MeshInv, NEW p \in Party, M!Connect(p)
  PROVE  MeshInv'
<1> DEFINE i == peer[p]
           e == <<p, sock[p]>>
           pend == pending[<<i, p>>]
<1>1. /\ step[p] = "connect" /\ pending' = [pending EXCEPT ![<<i, p>>] = Append(@, e)]
      /\ UNCHANGED <<threads, open, attached, gaveUp>>
  BY DEF M!Connect, M!PortOf
<1>2. WentOn(p)
  BY <1>1, NextSocketCovers DEF M!Connect, MeshInv
<1>3. i \in Party /\ p < i /\ i # p
  <2>1. i \in p + 1 .. N /\ p \in 1 .. N /\ N \in Nat
    BY <1>1, LaunchSizes DEF MeshInv, InLoop, Party
  <2> QED BY <2>1 DEF Party
<1>4. e \in Socket /\ pend \in Seq(Socket) /\ attached[i][p] \in Seq(Socket)
  BY <1>3 DEF MeshInv, MeshType, Socket
<1>5. /\ \A q \in Party : InLoop(q)'
      /\ \A q, j \in Party : q # j =>
           Covered(q, j)' = IF q = p /\ j = i THEN Covered(q, j) + 1 ELSE Covered(q, j)
      /\ \A q, j \in Party : j < q => OpenInv(q, j)'
  BY <1>1, <1>2, OthersStay
<1>6. Covered(p, i) = sock[p] - 1 /\ sock[p] \in Nat
  <2>1. i \in Int
    BY <1>3 DEF Party
  <2>2. sock[p] \in Nat
    BY DEF MeshInv, MeshType
  <2> QED BY <2>1, <2>2 DEF Covered
<1> HIDE DEF i, e
<1>7. /\ pending'[<<i, p>>] = Append(pend, e)
      /\ \A q, j \in Party : <<q, j>> # <<i, p>> => pending'[<<q, j>>] = pending[<<q, j>>]
  BY <1>1, <1>3 DEF MeshInv, MeshType
<1>8. MeshType'
  <2>1. pending' \in [Party \X Party -> Seq(Socket)]
    BY <1>1, <1>3, <1>4 DEF MeshInv, MeshType
  <2> QED BY <1>1, <1>2, <2>1 DEF MeshInv, MeshType, WentOn
<1>9. ASSUME NEW q \in Party, NEW j \in Party PROVE Accepts(q, j)'
  <2>1. j < q => q # j /\ ~(q = p /\ j = i)
    BY <1>3 DEF Party
  <2>2. j < q => Covered(q, j)' = Covered(q, j)
    BY <1>5, <2>1
  <2> QED BY <1>1, <2>2 DEF Accepts, MeshInv
<1>10. ASSUME NEW a \in Party, NEW b \in Party, a < b PROVE LineInv(a, b)' /\ CountInv(a, b)'
  <2>1. /\ GaveUpOn(a, b)' = GaveUpOn(a, b) /\ \A n : GaveUpBy(a, b, n)' = GaveUpBy(a, b, n)
        /\ LineInv(a, b) /\ CountInv(a, b)
    BY <1>1, <1>10 DEF GaveUpOn, GaveUpBy, MeshInv
  <2>2. a # b
    BY <1>10 DEF Party
  <2>3. CASE ~(a = p /\ b = i)
    <3>1. Line(a, b)' = Line(a, b) /\ Covered(a, b)' = Covered(a, b)
      BY <1>1, <1>5, <1>7, <2>2, <2>3 DEF Line
    <3> QED BY <2>1, <3>1 DEF LineInv, CountInv
  <2>4. CASE a = p /\ b = i
    <3> DEFINE L == Line(a, b)
               n == Len(L)
               c == Covered(a, b)
    <3>1. L \in Seq(Socket) /\ Line(a, b)' = Append(L, e)
      <4>1. L = attached[i][p] \o pend /\ Line(a, b)' = attached[i][p] \o Append(pend, e)
        BY <1>1, <1>7, <2>4 DEF Line
      <4> DEFINE att == attached[i][p]
      <4>2. att \in Seq(Socket) /\ pend \in Seq(Socket) /\ e \in Socket
        BY <1>4
      <4> HIDE DEF att, pend
      <4>3. att \o Append(pend, e) = Append(att \o pend, e)
        BY <4>2, LineOnConnect
      <4>4. att \o pend \in Seq(Socket)
        BY <4>2
      <4> QED BY <4>1, <4>3, <4>4 DEF att
    <3>2. Covered(a, b)' = c + 1 /\ c + 1 = sock[p] /\ c \in Int
      BY <1>5, <1>6, <2>2, <2>4
    <3> HIDE DEF L, c
    <3>3. n \in Nat /\ Len(Append(L, e)) = n + 1 /\ Append(L, e)[n + 1] = e
          /\ \A j \in 1 .. n : Append(L, e)[j] = L[j]
      BY <3>1, <1>4
    <3> HIDE DEF n
    <3>4. \A j \in 1 .. n : L[j] = <<a, j>> \/ GaveUpBy(a, b, j)
      BY <2>1 DEF LineInv, L, n
    <3>5. c = n \/ GaveUpBy(a, b, n + 1)
      BY <2>1 DEF LineInv, L, n, c
    <3>6. Append(L, e)[n + 1] = <<a, n + 1>> \/ GaveUpBy(a, b, n + 1)
      BY <2>4, <3>2, <3>3, <3>5 DEF e
    <3>7. GaveUpBy(a, b, n + 1) => GaveUpBy(a, b, n + 1 + 1)
      <4>1. \A k \in 1 .. n + 1 : k \in 1 .. n + 1 + 1
        BY <3>3
      <4> QED BY <4>1 DEF GaveUpBy
    <3>8. \A j \in 1 .. n + 1 : Append(L, e)[j] = <<a, j>> \/ GaveUpBy(a, b, j)
      <4>1. \A j \in 1 .. n + 1 : j = n + 1 \/ j \in 1 .. n
        BY <3>3
      <4> QED BY <4>1, <3>3, <3>4, <3>6
    <3>9. c + 1 = n + 1 \/ GaveUpBy(a, b, n + 1 + 1)
      BY <3>5, <3>7
    <3>10. LineInv(a, b)'
      BY <2>1, <3>1, <3>2, <3>3, <3>8, <3>9 DEF LineInv
    <3>11. /\ IsFiniteSet(GaveUpOn(a, b)) /\ n + Cardinality(GaveUpOn(a, b)) = c
           /\ \A g \in GaveUpOn(a, b) : g[3] <= c
      BY <2>1 DEF CountInv, L, n, c
    <3>12. Cardinality(GaveUpOn(a, b)) \in Nat
      BY <3>11, FS_CardinalityType
    <3>13. \A g \in GaveUpOn(a, b) : g[3] \in Int
      BY DEF MeshInv, MeshType, GaveUpOn
    <3>14. CountInv(a, b)'
      BY <2>1, <3>1, <3>2, <3>3, <3>11, <3>12, <3>13 DEF CountInv
    <3> QED BY <3>10, <3>14
  <2> QED BY <2>3, <2>4
<1> QED BY <1>5, <1>8, <1>9, <1>10 DEF MeshInv

LEMMA GiveUpKeeps ==
  ASSUME MeshInv, NEW p \in Party, M!GiveUp(p)
  PROVE  MeshInv'
<1> DEFINE i == peer[p]
           g == <<p, i, sock[p]>>
<1>1. /\ step[p] = "connect" /\ gaveUp' = gaveUp \cup {g}
      /\ UNCHANGED <<threads, open, pending, attached>>
  BY DEF M!GiveUp
<1>2. WentOn(p)
  BY <1>1, NextSocketCovers DEF M!GiveUp, MeshInv
<1>3. i \in Party /\ p < i /\ i # p
  <2>1. i \in p + 1 .. N /\ p \in 1 .. N /\ N \in Nat
    BY <1>1, LaunchSizes DEF MeshInv, InLoop, Party
  <2> QED BY <2>1 DEF Party
<1>4. sock[p] \in Nat \ {0}
  BY DEF MeshInv, MeshType
<1>5. /\ \A q \in Party : InLoop(q)'
      /\ \A q, j \in Party : q # j =>
           Covered(q, j)' = IF q = p /\ j = i THEN Covered(q, j) + 1 ELSE Covered(q, j)
      /\ \A q, j \in Party : j < q => OpenInv(q, j)'
  BY <1>1, <1>2, OthersStay
<1>6. Covered(p, i) = sock[p] - 1
  <2>1. i \in Int
    BY <1>3 DEF Party
  <2> QED BY <1>4, <2>1 DEF Covered
<1> HIDE DEF i
<1>7. MeshType'
  <2>1. g \in Party \X Party \X (Nat \ {0})
    BY <1>3, <1>4
  <2>2. gaveUp' \subseteq Party \X Party \X (Nat \ {0})
    BY <1>1, <2>1 DEF MeshInv, MeshType
  <2> QED BY <1>1, <1>2, <2>2 DEF MeshInv, MeshType, WentOn
<1>8. ASSUME NEW q \in Party, NEW j \in Party PROVE Accepts(q, j)'
  <2>1. j < q => q # j /\ ~(q = p /\ j = i)
    BY <1>3 DEF Party
  <2>2. j < q => Covered(q, j)' = Covered(q, j)
    BY <1>5, <2>1
  <2> QED BY <1>1, <2>2 DEF Accepts, MeshInv
<1>9. ASSUME NEW a \in Party, NEW b \in Party, a < b PROVE LineInv(a, b)' /\ CountInv(a, b)'
  <2> DEFINE L == Line(a, b)
             n == Len(L)
             c == Covered(a, b)
             G == GaveUpOn(a, b)
  <2>1. LineInv(a, b) /\ CountInv(a, b) /\ L' = L
    BY <1>1, <1>9 DEF MeshInv, Line
  <2>2. a # b
    BY <1>9 DEF Party
  <2>3. \A m : GaveUpBy(a, b, m) => GaveUpBy(a, b, m)'
    BY <1>1 DEF GaveUpBy
  <2>4. CASE ~(a = p /\ b = i)
    <3>1. Covered(a, b)' = Covered(a, b)
      BY <1>5, <2>2, <2>4
    <3>2. GaveUpOn(a, b)' = GaveUpOn(a, b)
      BY <1>1, <2>4 DEF GaveUpOn
    <3> QED BY <2>1, <2>3, <3>1, <3>2 DEF LineInv, CountInv
  <2>5. CASE a = p /\ b = i
    <3>1. PICK k \in Nat : k = n
      <4>1. attached[b][a] \in Seq(Socket) /\ pending[<<b, a>>] \in Seq(Socket)
        BY DEF MeshInv, MeshType
      <4>2. Line(a, b) \in Seq(Socket)
        BY <4>1 DEF Line
      <4> QED BY <4>2
    <3>2. PICK d \in Int : d = c /\ d + 1 = sock[p]
      BY <1>4, <1>6, <2>5
    <3>3. Covered(a, b)' = d + 1
      BY <1>5, <2>2, <2>5, <3>2
    <3>4. GaveUpOn(a, b)' = G \cup {g}
      BY <1>1, <2>5 DEF GaveUpOn
    <3>5. /\ \A j \in 1 .. k : L[j] = <<a, j>> \/ GaveUpBy(a, b, j)
          /\ d = k \/ GaveUpBy(a, b, k + 1)
          /\ IsFiniteSet(G) /\ k + Cardinality(G) = d
          /\ \A x \in G : x[3] <= d
      BY <2>1, <3>1, <3>2 DEF LineInv, CountInv
    <3>6. Len(Line(a, b)') = k /\ Line(a, b)' = L
      BY <2>1, <3>1
    <3>7. g = <<a, b, d + 1>>
      BY <2>5, <3>2
    <3>8. \A x \in G : x[3] \in Int
      BY DEF MeshInv, MeshType, GaveUpOn
    <3> HIDE DEF L, n, c, G, g
    <3>9. g[3] = d + 1
      BY <3>7
    <3>10. g \notin G
      BY <3>5, <3>9
    <3>11. /\ IsFiniteSet(G \cup {g}) /\ Cardinality(G \cup {g}) = Cardinality(G) + 1
           /\ Cardinality(G) \in Nat
      BY <3>5, <3>10, FS_AddElement, FS_CardinalityType
    <3>12. d + 1 = k \/ GaveUpBy(a, b, k + 1)'
      <4>1. CASE d = k
        <5>1. k + 1 \in 1 .. k + 1
          OBVIOUS
        <5>2. <<a, b, k + 1>> \in gaveUp'
          BY <1>1, <3>7, <4>1
        <5> QED BY <5>1, <5>2 DEF GaveUpBy
      <4>2. CASE GaveUpBy(a, b, k + 1)
        BY <2>3, <4>2
      <4> QED BY <3>5, <4>1, <4>2
    <3>13. LineInv(a, b)'
      BY <2>3, <3>3, <3>5, <3>6, <3>12 DEF LineInv
    <3>14. \A x \in G \cup {g} : x[3] <= d + 1
      BY <3>5, <3>8, <3>9
    <3>15. CountInv(a, b)'
      BY <3>3, <3>4, <3>5, <3>6, <3>11, <3>14 DEF CountInv
    <3> QED BY <3>13, <3>15
  <2> QED BY <2>4, <2>5
<1> QED BY <1>5, <1>7, <1>8, <1>9 DEF MeshInv

-----------------------------------------------------------------------------
(***************************************************************************)
(* The invariant.                                                          *)
(***************************************************************************)

\* A party with a core has a thread.
LEMMA SomeThreads ==
  ASSUME NEW c \in Cores
  PROVE  M!CommThreads(c) \in Nat \ {0}
BY LaunchSizes DEF M!CommThreads

LEMMA InitMesh ==
  ASSUME Init
  PROVE  MeshInv
<1>1. /\ threads \in [Party -> {M!CommThreads(c) : c \in Cores}]
      /\ step = [p \in Party |-> "down"] /\ peer = [p \in Party |-> 0] /\ sock = [p \in Party |-> 1]
      /\ open = {} /\ pending = [port \in M!Port |-> <<>>]
      /\ attached = [p \in Party |-> [i \in Party |-> <<>>]] /\ gaveUp = {}
  BY DEF Init, M!Init, M!Party, Party
<1>2. M!Port = Party \X Party
  BY DEF M!Port, M!PortOf, M!Party, Party
<1>3. threads \in [Party -> Nat \ {0}]
  BY <1>1, SomeThreads
<1>4. N \in Nat /\ \A p \in Party : p \in Int /\ p > 0
  BY LaunchSizes DEF Party
<1>5. MeshType
  <2>1. <<>> \in Seq(Socket)
    OBVIOUS
  <2>2. pending \in [Party \X Party -> Seq(Socket)]
    BY <1>1, <1>2, <2>1
  <2>3. peer \in [Party -> 0 .. N + 1] /\ sock \in [Party -> Nat \ {0}]
    BY <1>1, <1>4
  <2> QED BY <1>1, <1>3, <2>1, <2>2, <2>3 DEF MeshType
<1>6. ASSUME NEW p \in Party PROVE InLoop(p)
  BY <1>1, <1>3, <1>4 DEF InLoop
<1>7. \A p, q \in Party : Covered(p, q) = 0
  BY <1>1, <1>4 DEF Covered
<1>8. \A p, q \in Party : attached[q][p] = <<>> /\ pending[<<q, p>>] = <<>> /\ GaveUpOn(p, q) = {}
  BY <1>1, <1>2 DEF GaveUpOn
<1>9. ASSUME NEW p \in Party, NEW q \in Party PROVE Accepts(q, p)
  <2>1. attached[q][p] = <<>> /\ Covered(q, p) = 0
    BY <1>7, <1>8
  <2>2. Len(attached[q][p]) = 0
    BY <2>1
  <2> QED BY <2>1, <2>2 DEF Accepts
<1>10. ASSUME NEW p \in Party, NEW q \in Party PROVE LineInv(p, q) /\ CountInv(p, q) /\ OpenInv(q, p)
  <2>0. attached[q][p] = <<>> /\ pending[<<q, p>>] = <<>> /\ GaveUpOn(p, q) = {} /\ Covered(p, q) = 0
    BY <1>7, <1>8
  <2>1. Line(p, q) = <<>> \o <<>> /\ <<>> \o <<>> = <<>>
    BY <2>0 DEF Line
  <2>2. Len(Line(p, q)) = 0
    BY <2>1
  <2>3. LineInv(p, q)
    BY <2>0, <2>2 DEF LineInv
  <2>4. CountInv(p, q)
    BY <2>0, <2>2, FS_EmptySet DEF CountInv
  <2>5. OpenInv(q, p)
    BY <1>1, <1>4 DEF OpenInv, Listened
  <2> QED BY <2>3, <2>4, <2>5
<1> QED BY <1>5, <1>6, <1>9, <1>10 DEF MeshInv

LEMMA MeshInductive ==
  ASSUME MeshInv, [Next]_launchVars
  PROVE  MeshInv'
<1>1. CASE UNCHANGED meshVars
  <2>1. UNCHANGED <<threads, step, peer, sock, open, pending, attached, gaveUp>>
    BY <1>1 DEF meshVars
  <2>2. MeshType'
    BY <2>1 DEF MeshInv, MeshType
  <2>3. \A q \in Party : InLoop(q)'
    BY <2>1 DEF MeshInv, InLoop
  <2>4. \A q, i \in Party : Covered(q, i)' = Covered(q, i)
    BY <2>1 DEF Covered
  <2>5. \A q, i \in Party : i < q => OpenInv(q, i)'
    BY <2>1 DEF MeshInv, OpenInv, Listened
  <2> QED BY <2>1, <2>2, <2>3, <2>4, <2>5, NothingMoves
<1>2. CASE \E p \in Party : \/ M!Start(p) \/ M!Listen(p) \/ M!Accept(p)
                            \/ M!Connect(p) \/ M!GiveUp(p) \/ M!End(p)
  BY <1>2, StartKeeps, ListenKeeps, AcceptKeeps, ConnectKeeps, GiveUpKeeps, EndKeeps
<1> QED BY <1>1, <1>2, MeshSteps

\* MeshInv is an invariant of every experiment.
THEOREM MeshInvariant == Spec => []MeshInv
<1>1. Init => MeshInv
  BY InitMesh
<1>2. MeshInv /\ [Next]_launchVars => MeshInv'
  BY MeshInductive
<1> QED BY <1>1, <1>2, PTL DEF Spec

-----------------------------------------------------------------------------
(***************************************************************************)
(* What it says of the mesh.                                               *)
(***************************************************************************)

LEMMA SmallestExists ==
  ASSUME NEW S \in SUBSET Party, S # {}
  PROVE  \E p \in S : \A q \in S : p <= q
<1>1. S \subseteq Nat
  BY DEF Party
<1>2. IsWellFoundedOn(OpToRel(<, Nat), Nat)
  BY NatLessThanWellFounded
<1>3. PICK p \in S : \A q \in S : <<q, p>> \notin OpToRel(<, Nat)
  BY <1>1, <1>2, WFMin
<1>4. ASSUME NEW q \in S PROVE p <= q
  <2>1. q \in Nat /\ p \in Nat
    BY <1>1
  <2>2. <<q, p>> \notin {ss \in Nat \X Nat : ss[1] < ss[2]}
    BY <1>3 DEF OpToRel
  <2>3. ~(q < p)
    BY <2>1, <2>2
  <2> QED BY <2>1, <2>3
<1> QED BY <1>4

\* Socket j of a party is linked to socket j of the other one, unless one of the
\* connects up to it was given up (connectToAllParties, listen and connect).
THEOREM SocketsAlwaysMeet == Spec => []SocketsMeet
<1>1. MeshInv => SocketsMeet
  <2> SUFFICES ASSUME MeshInv, NEW q \in Party, NEW p \in Party, NEW j \in DOMAIN attached[q][p]
               PROVE  attached[q][p][j] = <<p, j>> \/ \E k \in 1 .. j : <<p, q, k>> \in gaveUp
    BY DEF SocketsMeet
  <2>1. attached[q][p] \in Seq(Socket) /\ pending[<<q, p>>] \in Seq(Socket)
    BY DEF MeshInv, MeshType
  <2>2. j \in 1 .. Len(attached[q][p])
    BY <2>1
  <2>3. p < q
    BY <2>1, <2>2 DEF MeshInv, Accepts
  <2>4. j \in 1 .. Len(Line(p, q)) /\ Line(p, q)[j] = attached[q][p][j]
    <3> DEFINE s == attached[q][p]
               t == pending[<<q, p>>]
    <3>1. s \in Seq(Socket) /\ t \in Seq(Socket) /\ j \in 1 .. Len(s)
      BY <2>1, <2>2
    <3>2. Line(p, q) = s \o t
      BY DEF Line
    <3> HIDE DEF s, t
    <3>3. j \in 1 .. Len(s \o t) /\ (s \o t)[j] = s[j]
      BY <3>1
    <3> QED BY <3>2, <3>3 DEF s
  <2>5. LineInv(p, q)
    BY <2>3 DEF MeshInv
  <2> QED BY <2>4, <2>5 DEF LineInv, GaveUpBy
<1> QED BY <1>1, MeshInvariant, PTL

\* Nobody has all its connections when one of them was given up or the other
\* machine has fewer cores (connectToAllParties makes nothing up).
THEOREM ShortPartiesWait == Spec => []ShortOfSockets
<1>1. MeshInv => ShortOfSockets
  <2> SUFFICES ASSUME MeshInv PROVE ShortOfSockets
    OBVIOUS
  <2> SUFFICES ASSUME NEW p \in Party, NEW q \in Party, p < q, step[q] = "connected"
               PROVE  threads[q] <= threads[p] - Cardinality(GaveUpOn(p, q))
    <3>1. ASSUME NEW a \in Party, NEW b \in Party, a < b
          PROVE  threads[a] \in Nat /\ threads[b] \in Nat /\ Cardinality(GaveUpOn(a, b)) \in Nat
      <4>1. threads[a] \in Nat /\ threads[b] \in Nat
        BY DEF MeshInv, MeshType
      <4>2. IsFiniteSet(GaveUpOn(a, b))
        BY <3>1 DEF MeshInv, CountInv
      <4> QED BY <4>1, <4>2, FS_CardinalityType
    <3> QED BY <3>1 DEF ShortOfSockets
  <2>1. attached[q][p] \in Seq(Socket) /\ pending[<<q, p>>] \in Seq(Socket)
    BY DEF MeshInv, MeshType
  <2>2. /\ p \in Int /\ N \in Int /\ p <= N
        /\ threads[p] \in Nat /\ threads[q] \in Nat /\ sock[p] \in Nat /\ peer[p] \in Int
    <3>1. p \in Int /\ N \in Int /\ p <= N
      BY LaunchSizes DEF Party
    <3>2. threads[p] \in Nat /\ threads[q] \in Nat /\ sock[p] \in Nat
      BY DEF MeshInv, MeshType
    <3>3. peer[p] \in 0 .. N + 1
      BY DEF MeshInv, MeshType
    <3> QED BY <3>1, <3>2, <3>3
  <2>3. Len(attached[q][p]) = threads[q]
    <3>1. peer[q] = N + 1
      BY DEF MeshInv, InLoop
    <3>2. Covered(q, p) = threads[q]
      BY <2>2, <3>1 DEF Covered
    <3> QED BY <3>2 DEF MeshInv, Accepts
  <2>4. Len(Line(p, q)) = Len(attached[q][p]) + Len(pending[<<q, p>>]) /\ Len(pending[<<q, p>>]) \in Nat
    BY <2>1 DEF Line
  <2>5. Len(Line(p, q)) + Cardinality(GaveUpOn(p, q)) = Covered(p, q)
        /\ Cardinality(GaveUpOn(p, q)) \in Nat
    BY FS_CardinalityType DEF MeshInv, CountInv
  <2>6. Covered(p, q) <= threads[p]
    BY <2>2 DEF Covered, MeshInv, InLoop
  <2>7. Covered(p, q) \in Int
    BY <2>2 DEF Covered
  <2> DEFINE g == Cardinality(GaveUpOn(p, q))
             x == Len(pending[<<q, p>>])
             c == Covered(p, q)
  <2>8. threads[q] + x + g = c /\ x \in Nat /\ g \in Int /\ c \in Int /\ c <= threads[p]
    BY <2>3, <2>4, <2>5, <2>6, <2>7
  <2> HIDE DEF g, x, c
  <2>9. threads[q] <= threads[p] - g
    BY <2>2, <2>8
  <2> QED BY <2>9 DEF g
<1> QED BY <1>1, MeshInvariant, PTL

\* The order of the two loops of connectToAllParties lets no parties wait for
\* each other in a circle: the lowest of them does not, or the one it waits for.
THEOREM NeverInACircle == Spec => []NoCircleOfWaits
<1>1. MeshInv => NoCircleOfWaits
  <2> SUFFICES ASSUME MeshInv PROVE NoCircleOfWaits
    OBVIOUS
  <2> SUFFICES ASSUME NEW S \in (SUBSET Party) \ {{}}
               PROVE  \E p \in S : BlockedOnPeer(p) => peer[p] \notin S
    BY DEF NoCircleOfWaits
  <2>0. S \in SUBSET Party /\ S # {}
    OBVIOUS
  <2>1. PICK p \in S : \A q \in S : p <= q
    BY <2>0, SmallestExists
  <2>2. /\ \A q \in Party : q \in Int /\ peer[q] \in Int
        /\ \A q \in S : q \in Party
    <3>1. \A q \in Party : q \in Int
      BY DEF Party
    <3>2. \A q \in Party : peer[q] \in 0 .. N + 1
      BY DEF MeshInv, MeshType
    <3> QED BY <3>1, <3>2
  <2>3. \A q \in Party : /\ step[q] = "accept" => peer[q] < q
                         /\ step[q] = "connect" => peer[q] > q
    BY <2>2, LaunchSizes DEF MeshInv, InLoop, Party
  <2>4. CASE BlockedOnPeer(p) /\ peer[p] \in S
    <3> DEFINE k == peer[p]
    <3>1. step[p] = "connect" /\ <<k, p>> \notin open
      BY <2>1, <2>2, <2>3, <2>4 DEF BlockedOnPeer
    <3>2. k \in Party /\ k > p
      BY <2>2, <2>3, <2>4, <3>1
    <3> HIDE DEF k
    <3>3. CASE BlockedOnPeer(k)
      <4>1. step[k] # "ended" /\ (step[k] = "accept" \/ step[k] = "connect")
        BY <3>3 DEF BlockedOnPeer
      <4>2. ~Listened(k, p)
        BY <2>2, <3>1, <3>2, <4>1 DEF MeshInv, OpenInv
      <4>3. step[k] = "accept" /\ peer[k] < p
        BY <2>2, <2>3, <3>2, <4>1, <4>2 DEF Listened
      <4>4. peer[k] \notin S
        BY <2>1, <2>2, <3>2, <4>3
      <4> QED BY <2>4, <4>4 DEF k
    <3> QED BY <2>4, <3>3 DEF k
  <2> QED BY <2>1, <2>4
<1> QED BY <1>1, MeshInvariant, PTL

-----------------------------------------------------------------------------
(***************************************************************************)
(* The coordinator.  A party says five things to it, the last two in one   *)
(* send, and is told three or four.  Where the coordinator's loops are fixes how many of the former   *)
(* it has taken (ReadFrom) and how many of the latter it has sent          *)
(* (SentTo); where the party is fixes how many it has said (Said) and      *)
(* taken (Heard).  What lies on the socket is the difference.  A dead      *)
(* party says and takes no more, a coordinator that died neither.          *)
(***************************************************************************)
Loop == {"accept", "elements", "seed", "strategy", "sync", "go", "results", "done", "died"}
PartyState == {"connect", "id", "elements", "seed", "strategy", "sync", "go", "run",
               "result", "sending", "exited", "dead"}
FromParty == {"id", "sync", "result", "sending", "padding"}
ToParty == {"elements", "seed", "strategy", "go"}

CoordType ==
  /\ strategic \in BOOLEAN
  /\ loop \in Loop /\ index \in Party
  /\ connected \subseteq Party /\ accepted \subseteq Party
  /\ state \in [Party -> PartyState]
  /\ toParty \in [Party -> Seq(ToParty)]
  /\ toServer \in [Party -> Seq(FromParty)]
  /\ got \in [Party -> Seq(ToParty \cup {"nothing"})]
  /\ results \in [Party -> Seq(FromParty)]

\* The k-th thing a party says.
Says(k) == IF k = 1 THEN "id" ELSE IF k = 2 THEN "sync" ELSE IF k = 3 THEN "result"
           ELSE IF k = 4 THEN "sending" ELSE "padding"

\* How many of them the coordinator is through with.
ReadFrom(p) ==
  CASE loop = "accept" -> IF p \in accepted THEN 1 ELSE 0
    [] loop \in {"elements", "seed", "strategy"} -> 1
    [] loop = "sync" -> IF p < index THEN 2 ELSE 1
    [] loop = "go" -> 2
    [] loop = "results" -> IF p < index THEN 4
                           ELSE IF p = index /\ results[p] # <<>> THEN 3 ELSE 2
    [] OTHER -> 4

\* How many of them p has said, if it lives.
Said(p) ==
  CASE state[p] \in {"connect", "id"} -> 0
    [] state[p] \in {"elements", "seed", "strategy", "sync"} -> 1
    [] state[p] \in {"go", "run", "result"} -> 2
    [] state[p] = "sending" -> 3
    [] OTHER -> 5

\* What the coordinator has not yet read of them; with a SendingInfo there is
\* always its padding.
Outbox(p) ==
  /\ ReadFrom(p) + Len(toServer[p]) <= 5
  /\ \A i \in 1 .. Len(toServer[p]) : toServer[p][i] = Says(ReadFrom(p) + i)
  /\ state[p] # "dead" => ReadFrom(p) + Len(toServer[p]) = Said(p)
  /\ \A i \in 1 .. Len(toServer[p]) : toServer[p][i] = "sending" => i < Len(toServer[p])

\* How many things a party is told, and the k-th of them.
Told == IF strategic THEN 4 ELSE 3
Tells(k) == IF k = 1 THEN "elements" ELSE IF k = 2 THEN "seed"
            ELSE IF k = 3 /\ strategic THEN "strategy" ELSE "go"

\* How many of them the coordinator has sent to p.
SentTo(p) ==
  LET now == IF p < index THEN 1 ELSE 0
  IN  CASE loop = "accept" -> 0
        [] loop = "elements" -> now
        [] loop = "seed" -> 1 + now
        [] loop = "strategy" -> 2 + now
        [] loop = "sync" -> Told - 1
        [] loop = "go" -> Told - 1 + now
        [] OTHER -> Told

\* How many p has taken, if it lives; from a dead coordinator it takes nothings.
Heard(p) ==
  CASE state[p] \in {"connect", "id", "elements"} -> 0
    [] state[p] = "seed" -> 1
    [] state[p] = "strategy" -> 2
    [] state[p] \in {"sync", "go"} -> Told - 1
    [] OTHER -> Told

\* n of them p has taken, the next ones are on the way.
InboxFrom(p, n) ==
  /\ n + Len(toParty[p]) <= Told
  /\ \A i \in 1 .. n : got[p][i] = Tells(i)
  /\ \A i \in 1 .. Len(toParty[p]) : toParty[p][i] = Tells(n + i)
  /\ n < Len(got[p]) => /\ loop = "died" /\ toParty[p] = <<>>
                        /\ \A i \in n + 1 .. Len(got[p]) : got[p][i] = "nothing"
  /\ loop # "died" => n + Len(toParty[p]) = SentTo(p)

Inbox(p) ==
  /\ \E n \in 0 .. Len(got[p]) : InboxFrom(p, n)
  /\ state[p] # "dead" => Len(got[p]) = Heard(p)

\* What it has read as the results of p, and what it leaves behind.
ResultOfInv(p) ==
  /\ ReadFrom(p) <= 2 => results[p] = <<>>
  /\ ReadFrom(p) = 3 => results[p] = <<"result">>
  /\ ReadFrom(p) = 4 =>
       \/ results[p] = <<"result", "sending">> /\ toServer[p] = <<"padding">>
       \/ results[p] \in {<<>>, <<"result">>} /\ toServer[p] = <<>> /\ state[p] = "dead"

\* Nobody turns to the coordinator before it is through with the mesh, and
\* nothing but a death ends the coordinator.
LinkInv ==
  /\ \A p \in Party : state[p] \notin {"connect", "dead"} => peer[p] = N + 1
  /\ loop = "died" => \E p \in Party : state[p] = "dead"
  /\ loop = "accept" => index = 1
  /\ ~strategic => loop # "strategy" /\ \A p \in Party : state[p] # "strategy"

CoordInv ==
  /\ CoordType
  /\ \A p \in Party : Inbox(p)
  /\ loop # "died" => \A p \in Party : Outbox(p) /\ ResultOfInv(p)
  /\ LinkInv

-----------------------------------------------------------------------------
(***************************************************************************)
(* Where the loops and the parties go on.                                  *)
(***************************************************************************)

LEMMA AfterIs ==
  ASSUME NEW seq, NEW i \in DOMAIN seq, \A j \in DOMAIN seq : seq[j] = seq[i] => j = i
  PROVE  C!After(seq, seq[i]) = seq[i + 1]
<1>1. (CHOOSE j \in DOMAIN seq : seq[j] = seq[i]) = i
  OBVIOUS
<1> QED BY <1>1 DEF C!After

LEMMA AfterSteps ==
  /\ C!After(C!Steps, "id") = "elements"
  /\ C!After(C!Steps, "elements") = "seed"
  /\ C!After(C!Steps, "seed") = IF strategic THEN "strategy" ELSE "sync"
  /\ strategic => C!After(C!Steps, "strategy") = "sync"
  /\ C!After(C!Steps, "sync") = "go"
  /\ C!After(C!Steps, "go") = "run"
  /\ C!After(C!Steps, "run") = "result"
  /\ C!After(C!Steps, "result") = "sending"
  /\ C!After(C!Steps, "sending") = "exited"
<1>1. CASE strategic
  <2> DEFINE s == <<"connect", "id", "elements", "seed", "strategy", "sync", "go", "run",
                    "result", "sending", "exited">>
  <2>1. C!Steps = s
    BY <1>1 DEF C!Steps
  <2>2. /\ DOMAIN s = 1 .. 11
        /\ s[2] = "id" /\ s[3] = "elements" /\ s[4] = "seed" /\ s[5] = "strategy"
        /\ s[6] = "sync" /\ s[7] = "go" /\ s[8] = "run"
        /\ s[9] = "result" /\ s[10] = "sending" /\ s[11] = "exited"
    OBVIOUS
  <2>3. \A i, j \in 1 .. 11 : s[j] = s[i] => j = i
    OBVIOUS
  <2> HIDE DEF s
  <2>4. \A i \in 2 .. 10 : C!After(s, s[i]) = s[i + 1]
    <3>1. \A i \in 2 .. 10 : i \in 1 .. 11
      OBVIOUS
    <3> QED BY <2>2, <2>3, <3>1, AfterIs
  <2> QED BY <1>1, <2>1, <2>2, <2>4
<1>2. CASE ~strategic
  <2> DEFINE s == <<"connect", "id", "elements", "seed", "sync", "go", "run",
                    "result", "sending", "exited">>
  <2>1. C!Steps = s
    BY <1>2 DEF C!Steps
  <2>2. /\ DOMAIN s = 1 .. 10
        /\ s[2] = "id" /\ s[3] = "elements" /\ s[4] = "seed"
        /\ s[5] = "sync" /\ s[6] = "go" /\ s[7] = "run"
        /\ s[8] = "result" /\ s[9] = "sending" /\ s[10] = "exited"
    OBVIOUS
  <2>3. \A i, j \in 1 .. 10 : s[j] = s[i] => j = i
    OBVIOUS
  <2> HIDE DEF s
  <2>4. \A i \in 2 .. 9 : C!After(s, s[i]) = s[i + 1]
    <3>1. \A i \in 2 .. 9 : i \in 1 .. 10
      OBVIOUS
    <3> QED BY <2>2, <2>3, <3>1, AfterIs
  <2> QED BY <1>2, <2>1, <2>2, <2>4
<1> QED BY <1>1, <1>2

LEMMA AfterLoops ==
  /\ C!After(C!Loops, "elements") = "seed"
  /\ C!After(C!Loops, "seed") = IF strategic THEN "strategy" ELSE "sync"
  /\ strategic => C!After(C!Loops, "strategy") = "sync"
  /\ C!After(C!Loops, "sync") = "go"
  /\ C!After(C!Loops, "go") = "results"
<1>1. CASE strategic
  <2> DEFINE s == <<"elements", "seed", "strategy", "sync", "go", "results">>
  <2>1. C!Loops = s
    BY <1>1 DEF C!Loops
  <2>2. /\ DOMAIN s = 1 .. 6
        /\ s[1] = "elements" /\ s[2] = "seed" /\ s[3] = "strategy"
        /\ s[4] = "sync" /\ s[5] = "go" /\ s[6] = "results"
    OBVIOUS
  <2>3. \A i, j \in 1 .. 6 : s[j] = s[i] => j = i
    OBVIOUS
  <2> HIDE DEF s
  <2>4. \A i \in 1 .. 5 : C!After(s, s[i]) = s[i + 1]
    <3>1. \A i \in 1 .. 5 : i \in 1 .. 6
      OBVIOUS
    <3> QED BY <2>2, <2>3, <3>1, AfterIs
  <2> QED BY <1>1, <2>1, <2>2, <2>4
<1>2. CASE ~strategic
  <2> DEFINE s == <<"elements", "seed", "sync", "go", "results">>
  <2>1. C!Loops = s
    BY <1>2 DEF C!Loops
  <2>2. /\ DOMAIN s = 1 .. 5
        /\ s[1] = "elements" /\ s[2] = "seed" /\ s[3] = "sync" /\ s[4] = "go" /\ s[5] = "results"
    OBVIOUS
  <2>3. \A i, j \in 1 .. 5 : s[j] = s[i] => j = i
    OBVIOUS
  <2> HIDE DEF s
  <2>4. \A i \in 1 .. 4 : C!After(s, s[i]) = s[i + 1]
    <3>1. \A i \in 1 .. 4 : i \in 1 .. 5
      OBVIOUS
    <3> QED BY <2>2, <2>3, <3>1, AfterIs
  <2> QED BY <1>2, <2>1, <2>2, <2>4
<1> QED BY <1>1, <1>2

\* The coordinator is through with one more party of its loop: it has sent it or
\* read from it one more of the things it does in turn.
LEMMA NextIndexMoves ==
  ASSUME CoordType, LinkInv, C!NextIndex, UNCHANGED <<strategic, accepted>>,
         loop \in {"elements", "seed", "strategy", "sync", "go", "results"},
         \A p \in Party : loop # "results" \/ p > index => results'[p] = <<>> /\ results[p] = <<>>
  PROVE  /\ index' \in Party /\ loop' \in Loop \ {"accept", "died"}
         /\ ~strategic => loop' # "strategy"
         /\ loop' = "done" => loop = "results" /\ index = N
         /\ \A p \in Party :
              /\ ReadFrom(p)' = IF p = index /\ loop = "sync" THEN 2
                               ELSE IF p = index /\ loop = "results" THEN 4 ELSE ReadFrom(p)
              /\ SentTo(p)' = IF p = index /\ loop \in C!Receiving THEN SentTo(p) + 1 ELSE SentTo(p)
<1>1. /\ N \in Nat /\ N >= 2 /\ index \in 1 .. N
      /\ \A p \in Party : p \in Int /\ 1 <= p /\ p <= N
      /\ strategic \in BOOLEAN /\ (~strategic => loop # "strategy")
  BY LaunchSizes DEF CoordType, LinkInv, Party
<1>2. CASE index < N
  <2>1. index' = index + 1 /\ loop' = loop
    BY <1>2 DEF C!NextIndex
  <2>2. index' \in Party /\ loop' \in Loop \ {"accept", "died"}
    BY <1>1, <1>2, <2>1 DEF Party, Loop
  <2>3. ASSUME NEW p \in Party
        PROVE  (p < index + 1) = (p < index \/ p = index)
    BY <1>1
  <2>4. ASSUME NEW p \in Party
        PROVE  /\ ReadFrom(p)' = IF p = index /\ loop = "sync" THEN 2
                               ELSE IF p = index /\ loop = "results" THEN 4 ELSE ReadFrom(p)
               /\ SentTo(p)' = IF p = index /\ loop \in C!Receiving THEN SentTo(p) + 1 ELSE SentTo(p)
    BY <1>1, <2>1, <2>3 DEF ReadFrom, SentTo, Told, C!Receiving
  <2> QED BY <1>1, <2>1, <2>2, <2>4
<1>3. CASE ~(index < N)
  <2>1. index' = 1 /\ index = N /\ loop' = IF loop = "results" THEN "done" ELSE C!After(C!Loops, loop)
    BY <1>1, <1>3 DEF C!NextIndex
  <2>2. \A p \in Party : ~(p < 1) /\ (p < index <=> p # index)
    BY <1>1, <2>1
  <2>3. 1 \in Party
    BY <1>1 DEF Party
  <2>4. /\ loop = "elements" => loop' = "seed"
        /\ loop = "seed" => loop' = IF strategic THEN "strategy" ELSE "sync"
        /\ loop = "strategy" => loop' = "sync"
        /\ loop = "sync" => loop' = "go"
        /\ loop = "go" => loop' = "results"
        /\ loop = "results" => loop' = "done"
    BY <1>1, <2>1, AfterLoops
  <2>5. ASSUME NEW p \in Party
        PROVE  ReadFrom(p)' = IF p = index /\ loop = "sync" THEN 2
                               ELSE IF p = index /\ loop = "results" THEN 4 ELSE ReadFrom(p)
    BY <1>1, <2>1, <2>2, <2>4 DEF ReadFrom
  <2>6. ASSUME NEW p \in Party
        PROVE  SentTo(p)' = IF p = index /\ loop \in C!Receiving THEN SentTo(p) + 1 ELSE SentTo(p)
    BY <1>1, <2>1, <2>2, <2>4 DEF SentTo, Told, C!Receiving
  <2> QED BY <1>1, <2>1, <2>3, <2>4, <2>5, <2>6 DEF Loop
<1> QED BY <1>2, <1>3

LEMMA NothingReadYet ==
  ASSUME CoordInv, NEW p \in Party, loop \notin {"died", "done"}, loop # "results" \/ p > index
  PROVE  results[p] = <<>>
<1>1. index \in Int /\ p \in Int
  BY LaunchSizes DEF CoordInv, CoordType, Party
<1>2. ReadFrom(p) <= 2
  <2>1. loop \in Loop
    BY DEF CoordInv, CoordType
  <2> QED BY <1>1, <2>1 DEF ReadFrom, Loop
<1> QED BY <1>2 DEF CoordInv, ResultOfInv

LEMMA PlacesType ==
  ASSUME CoordType, NEW p \in Party
  PROVE  /\ ReadFrom(p) \in 0 .. 4 /\ Said(p) \in 0 .. 5 /\ Told \in {3, 4}
         /\ SentTo(p) \in Int /\ Heard(p) \in Int
<1>1. ReadFrom(p) \in 0 .. 4
  BY DEF ReadFrom
<1>2. Said(p) \in 0 .. 5
  BY DEF Said
<1>3. Told \in {3, 4}
  BY DEF Told
<1>4. SentTo(p) \in Int
  BY <1>3 DEF SentTo
<1>5. Heard(p) \in Int
  BY <1>3 DEF Heard
<1> QED BY <1>1, <1>2, <1>3, <1>4, <1>5

-----------------------------------------------------------------------------
(***************************************************************************)
(* The steps of a party.                                                   *)
(***************************************************************************)

\* What concerns the other parties and the coordinator stays as it is.
LEMMA PartyMoves ==
  ASSUME CoordInv, NEW p \in Party, state[p] \notin {"exited", "dead"}, CoordType',
         UNCHANGED <<strategic, loop, index, accepted, results, peer>>,
         \A q \in Party : q # p => /\ state'[q] = state[q] /\ toServer'[q] = toServer[q]
                                   /\ toParty'[q] = toParty[q] /\ got'[q] = got[q],
         Inbox(p)', loop # "died" => Outbox(p)',
         state'[p] \notin {"connect", "dead"} => peer[p] = N + 1,
         ~strategic => state'[p] # "strategy"
  PROVE  CoordInv'
<1>1. /\ \A q \in Party : ReadFrom(q)' = ReadFrom(q) /\ SentTo(q)' = SentTo(q)
      /\ Told' = Told /\ \A k : Tells(k)' = Tells(k)
  BY DEF ReadFrom, SentTo, Told, Tells
<1>2. ASSUME NEW q \in Party, q # p
      PROVE  Inbox(q)' /\ (loop # "died" => Outbox(q)' /\ ResultOfInv(q)')
  <2>1. /\ state'[q] = state[q] /\ toServer'[q] = toServer[q]
        /\ toParty'[q] = toParty[q] /\ got'[q] = got[q]
    BY <1>2
  <2>2. Said(q)' = Said(q) /\ Heard(q)' = Heard(q)
    BY <1>1, <2>1 DEF Said, Heard
  <2>3. \A n : InboxFrom(q, n) => InboxFrom(q, n)'
    BY <1>1, <2>1 DEF InboxFrom
  <2>4. Inbox(q)'
    BY <2>1, <2>2, <2>3 DEF Inbox, CoordInv
  <2>5. loop # "died" => Outbox(q)'
    BY <1>1, <2>1, <2>2 DEF Outbox, CoordInv
  <2>6. loop # "died" => ResultOfInv(q)'
    BY <1>1, <2>1 DEF ResultOfInv, CoordInv
  <2> QED BY <2>4, <2>5, <2>6
<1>3. loop # "died" => ResultOfInv(p)'
  <2> SUFFICES ASSUME loop # "died" PROVE ResultOfInv(p)'
    OBVIOUS
  <2>1. ReadFrom(p) # 4
    <3> SUFFICES ASSUME ReadFrom(p) = 4 PROVE FALSE
      OBVIOUS
    <3>1. toServer[p] = <<"padding">> /\ ResultOfInv(p) /\ Outbox(p)
      BY DEF CoordInv, ResultOfInv
    <3>2. Len(toServer[p]) = 1
      BY <3>1
    <3>3. Said(p) = 5
      BY <3>1, <3>2 DEF Outbox
    <3> QED BY <3>3 DEF Said, CoordInv, CoordType, PartyState
  <2>2. ReadFrom(p)' = ReadFrom(p) /\ results'[p] = results[p] /\ ResultOfInv(p)
    BY <1>1 DEF CoordInv
  <2> QED BY <2>1, <2>2 DEF ResultOfInv
<1>4. LinkInv'
  <2>1. \A q \in Party : state[q] = "dead" => state'[q] = "dead"
    OBVIOUS
  <2>2. \A q \in Party : state'[q] \notin {"connect", "dead"} => peer'[q] = N + 1
    BY DEF CoordInv, LinkInv
  <2> QED BY <2>1, <2>2 DEF CoordInv, LinkInv
<1> QED BY <1>2, <1>3, <1>4 DEF CoordInv

LEMMA ConnectKeepsCoord ==
  ASSUME CoordInv, MeshInv, NEW p \in Party, step[p] = "connected", C!PartyConnect(p), UNCHANGED peer
  PROVE  CoordInv'
<1>1. /\ state[p] = "connect" /\ state' = [state EXCEPT ![p] = "id"]
      /\ connected' \in {connected, connected \cup {p}}
      /\ UNCHANGED <<strategic, loop, index, accepted, toParty, toServer, got, results>>
  BY DEF C!PartyConnect
<1>2. state'[p] = "id" /\ \A q \in Party : q # p => state'[q] = state[q]
  BY <1>1 DEF CoordInv, CoordType
<1>3. CoordType'
  BY <1>1 DEF CoordInv, CoordType, PartyState
<1>4. /\ ReadFrom(p)' = ReadFrom(p) /\ SentTo(p)' = SentTo(p) /\ Said(p)' = Said(p)
      /\ Heard(p)' = Heard(p) /\ Told' = Told /\ \A k : Tells(k)' = Tells(k)
  BY <1>1, <1>2 DEF ReadFrom, SentTo, Told, Tells, Said, Heard
<1>5. Inbox(p)'
  <2>1. \A n : InboxFrom(p, n) => InboxFrom(p, n)'
    BY <1>1, <1>4 DEF InboxFrom
  <2> QED BY <1>1, <1>4, <2>1 DEF Inbox, CoordInv
<1>6. loop # "died" => Outbox(p)'
  BY <1>1, <1>4 DEF Outbox, CoordInv
<1>7. peer[p] = N + 1
  BY DEF MeshInv, InLoop
<1> QED BY <1>1, <1>2, <1>3, <1>5, <1>6, <1>7, PartyMoves

LEMMA DieKeepsCoord ==
  ASSUME CoordInv, NEW p \in Party, C!Die(p), UNCHANGED peer
  PROVE  CoordInv'
<1>1. /\ state[p] \notin {"exited", "dead"} /\ state' = [state EXCEPT ![p] = "dead"]
      /\ UNCHANGED <<strategic, loop, index, connected, accepted, toParty, toServer, got, results>>
  BY DEF C!Die, C!Gone
<1>2. state'[p] = "dead" /\ \A q \in Party : q # p => state'[q] = state[q]
  BY <1>1 DEF CoordInv, CoordType
<1>3. CoordType'
  BY <1>1 DEF CoordInv, CoordType, PartyState
<1>4. /\ ReadFrom(p)' = ReadFrom(p) /\ SentTo(p)' = SentTo(p)
      /\ Told' = Told /\ \A k : Tells(k)' = Tells(k)
  BY <1>1 DEF ReadFrom, SentTo, Told, Tells
<1>5. Inbox(p)'
  <2>1. \A n : InboxFrom(p, n) => InboxFrom(p, n)'
    BY <1>1, <1>4 DEF InboxFrom
  <2> QED BY <1>1, <1>2, <2>1 DEF Inbox, CoordInv
<1>6. loop # "died" => Outbox(p)'
  BY <1>1, <1>2, <1>4 DEF Outbox, CoordInv
<1> QED BY <1>1, <1>2, <1>3, <1>5, <1>6, PartyMoves

\* id, sync and the two structs are the next thing to say, to a coordinator that
\* lives.
LEMMA SayKeepsCoord ==
  ASSUME CoordInv, NEW p \in Party, UNCHANGED peer,
         NEW what \in C!Sending, C!Say(p, what),
         NEW next \in PartyState, C!Sent(p, next),
         UNCHANGED <<strategic, loop, index, connected, accepted, toParty, got, results>>,
         state[p] = what, what = Says(Said(p) + 1),
         next \notin {"dead", "strategy"},
         state'[p] # "dead" => Said(p)' = Said(p) + Len(C!Bytes(what)) /\ Heard(p)' = Heard(p)
  PROVE  CoordInv'
<1>1. toServer' = [toServer EXCEPT ![p] = @ \o C!Bytes(what)]
      /\ \/ state' = [state EXCEPT ![p] = next]
         \/ loop = "died" /\ state' = [state EXCEPT ![p] = "dead"]
  BY DEF C!Say, C!Sent
<1>2. /\ state'[p] # "strategy" /\ state[p] \notin {"exited", "dead"}
      /\ loop # "died" => state'[p] # "dead"
      /\ \A q \in Party : q # p => state'[q] = state[q]
  BY <1>1 DEF CoordInv, CoordType, C!Sending
<1> DEFINE b == C!Bytes(what)
<1>3. /\ b \in Seq(FromParty) /\ Len(b) \in {1, 2} /\ b[1] = what
      /\ what = "sending" => Len(b) = 2 /\ b[2] = "padding"
      /\ what # "sending" => Len(b) = 1
  <2>1. what \in FromParty /\ "padding" \in FromParty
    BY DEF FromParty, C!Sending
  <2>2. CASE what = "sending"
    BY <2>1, <2>2 DEF C!Bytes
  <2>3. CASE what # "sending"
    BY <2>1, <2>3 DEF C!Bytes
  <2> QED BY <2>2, <2>3
<1> HIDE DEF b
<1>4. CoordType'
  <2>1. state' \in [Party -> PartyState]
    BY <1>1 DEF CoordInv, CoordType, PartyState
  <2>2. toServer' \in [Party -> Seq(FromParty)]
    <3>1. toServer' = [toServer EXCEPT ![p] = toServer[p] \o b]
      BY <1>1 DEF b
    <3>2. toServer[p] \o b \in Seq(FromParty)
      BY <1>3 DEF CoordInv, CoordType
    <3> QED BY <3>1, <3>2 DEF CoordInv, CoordType
  <2> QED BY <2>1, <2>2 DEF CoordInv, CoordType
<1>5. /\ ReadFrom(p)' = ReadFrom(p) /\ SentTo(p)' = SentTo(p)
      /\ Told' = Told /\ \A k : Tells(k)' = Tells(k)
  BY DEF ReadFrom, SentTo, Told, Tells
<1>6. Inbox(p)'
  <2>1. \A n : InboxFrom(p, n) => InboxFrom(p, n)'
    BY <1>5 DEF InboxFrom
  <2> QED BY <1>2, <2>1 DEF Inbox, CoordInv
<1>7. ASSUME loop # "died" PROVE Outbox(p)'
  <2> DEFINE t == toServer[p]
             k == ReadFrom(p)
             u == t \o b
  <2>1. t \in Seq(FromParty) /\ toServer'[p] = u
    BY <1>1 DEF CoordInv, CoordType, b
  <2>2. k \in 0 .. 4 /\ Said(p) \in 0 .. 5 /\ Said(p)' \in 0 .. 5
    <3>1. Said(p)' \in 0 .. 5
      BY DEF Said
    <3> QED BY <3>1, PlacesType DEF CoordInv
  <2>3. /\ k + Len(t) = Said(p)
        /\ \A i \in 1 .. Len(t) : t[i] = Says(k + i)
    BY <1>2, <1>7 DEF Outbox, CoordInv
  <2>4. Said(p)' = Said(p) + Len(b)
    BY <1>2, <1>7 DEF b
  <2>5. ReadFrom(p)' = k
    BY <1>5
  <2> HIDE DEF t, k
  <2>6. /\ Len(t) \in Nat /\ Len(u) = Len(t) + Len(b)
        /\ \A i \in 1 .. Len(t) : u[i] = t[i]
        /\ u[Len(t) + 1] = b[1]
        /\ Len(b) = 2 => u[Len(t) + 2] = b[2]
    BY <1>3, <2>1
  <2> HIDE DEF u
  <2>7. /\ b[1] = Says(k + (Len(t) + 1))
        /\ Len(b) = 2 => b[2] = Says(k + (Len(t) + 2))
    <3>1. b[1] = Says(k + (Len(t) + 1))
      BY <1>3, <2>2, <2>3, <2>6
    <3>2. ASSUME Len(b) = 2 PROVE b[2] = Says(k + (Len(t) + 2))
      <4>1. what = "sending" /\ b[2] = "padding"
        BY <1>3, <3>2
      <4>2. k + (Len(t) + 1) = Said(p) + 1 /\ k + (Len(t) + 2) = Said(p) + 2
        BY <2>2, <2>3, <2>6
      <4>3. Said(p) + 1 = 4
        BY <4>1, <2>2 DEF Says
      <4>4. k + (Len(t) + 2) = 5
        BY <4>2, <4>3, <2>2
      <4> QED BY <4>1, <4>4 DEF Says
    <3> QED BY <3>1, <3>2
  <2>8. \A i \in 1 .. Len(u) : i \in 1 .. Len(t) \/ i = Len(t) + 1 \/ (i = Len(t) + 2 /\ Len(b) = 2)
    <3>1. CASE Len(b) = 1
      BY <2>6, <3>1
    <3>2. CASE Len(b) = 2
      BY <2>6, <3>2
    <3> QED BY <1>3, <3>1, <3>2
  <2>9. \A i \in 1 .. Len(u) : u[i] = Says(k + i)
    BY <2>3, <2>6, <2>7, <2>8
  <2>10. k + Len(u) = Said(p)' /\ k + Len(u) <= 5
    BY <1>3, <2>2, <2>3, <2>4, <2>6
  <2>11. \A i \in 1 .. Len(u) : u[i] = "sending" => i < Len(u)
    <3> SUFFICES ASSUME NEW i \in 1 .. Len(u), u[i] = "sending" PROVE i < Len(u)
      OBVIOUS
    <3>1. CASE i \in 1 .. Len(t)
      BY <1>3, <2>6, <3>1
    <3>2. CASE i = Len(t) + 1
      <4>1. Len(b) = 2
        BY <1>3, <2>6, <3>2
      <4> QED BY <4>1, <2>6, <3>2
    <3>3. CASE i = Len(t) + 2 /\ Len(b) = 2
      <4>1. u[i] = "padding"
        BY <1>3, <2>6, <3>3
      <4> QED BY <4>1
    <3> QED BY <2>8, <3>1, <3>2, <3>3
  <2> QED BY <2>1, <2>5, <2>9, <2>10, <2>11 DEF Outbox
<1>8. peer[p] = N + 1
  BY <1>2 DEF CoordInv, LinkInv, C!Sending
<1>9. \A q \in Party : q # p => /\ toServer'[q] = toServer[q] /\ toParty'[q] = toParty[q]
                                /\ got'[q] = got[q]
  BY <1>1 DEF CoordInv, CoordType
<1> QED BY <1>2, <1>4, <1>6, <1>7, <1>8, <1>9, PartyMoves

LEMMA SendKeepsCoord ==
  ASSUME CoordInv, NEW p \in Party, C!PartySend(p), UNCHANGED peer
  PROVE  CoordInv'
<1> DEFINE what == state[p]
           next == C!After(C!Steps, what)
<1>0. /\ UNCHANGED <<strategic, loop, index, connected, accepted, toParty, got, results>>
      /\ what \in C!Sending /\ C!Say(p, what) /\ C!Sent(p, next)
  BY DEF C!PartySend
<1>1. Told' = Told
  BY <1>0 DEF Told
<1>2. \/ what = "id" /\ next = "elements"
      \/ what = "sync" /\ next = "go"
      \/ what = "result" /\ next = "sending"
      \/ what = "sending" /\ next = "exited"
  BY <1>0, AfterSteps DEF C!Sending
<1>3. state'[p] \in {next, "dead"}
  BY <1>0 DEF C!Sent, CoordInv, CoordType
<1>4. Len(C!Bytes(what)) = IF what = "sending" THEN 2 ELSE 1
  BY DEF C!Bytes
<1> HIDE DEF next
<1>5. what = Says(Said(p) + 1)
  BY <1>2 DEF Says, Said
<1>6. state'[p] # "dead" => Said(p)' = Said(p) + Len(C!Bytes(what)) /\ Heard(p)' = Heard(p)
  BY <1>1, <1>2, <1>3, <1>4 DEF Said, Heard
<1>7. next \in PartyState /\ next \notin {"dead", "strategy"}
  BY <1>2 DEF PartyState
<1> QED BY <1>0, <1>5, <1>6, <1>7, SayKeepsCoord

\* run says nothing to the coordinator.
LEMMA RunKeepsCoord ==
  ASSUME CoordInv, NEW p \in Party, C!PartyRun(p), UNCHANGED peer
  PROVE  CoordInv'
<1>1. /\ state[p] = "run"
      /\ state' = [state EXCEPT ![p] = "result"] \/ state' = [state EXCEPT ![p] = "dead"]
      /\ UNCHANGED <<strategic, loop, index, connected, accepted, toParty, toServer, got, results>>
  BY AfterSteps DEF C!PartyRun
<1>2. state'[p] \in {"result", "dead"} /\ \A q \in Party : q # p => state'[q] = state[q]
  BY <1>1 DEF CoordInv, CoordType
<1>3. CoordType'
  BY <1>1 DEF CoordInv, CoordType, PartyState
<1>4. /\ ReadFrom(p)' = ReadFrom(p) /\ SentTo(p)' = SentTo(p)
      /\ Told' = Told /\ \A k : Tells(k)' = Tells(k)
  BY <1>1 DEF ReadFrom, SentTo, Told, Tells
<1>5. state'[p] # "dead" => Said(p)' = Said(p) /\ Heard(p)' = Heard(p)
  BY <1>1, <1>2, <1>4 DEF Said, Heard
<1>6. Inbox(p)'
  <2>1. \A n : InboxFrom(p, n) => InboxFrom(p, n)'
    BY <1>1, <1>4 DEF InboxFrom
  <2> QED BY <1>1, <1>5, <2>1 DEF Inbox, CoordInv
<1>7. loop # "died" => Outbox(p)'
  BY <1>1, <1>4, <1>5 DEF Outbox, CoordInv
<1>8. peer[p] = N + 1
  BY <1>1 DEF CoordInv, LinkInv
<1> QED BY <1>1, <1>2, <1>3, <1>6, <1>7, <1>8, PartyMoves

\* What a Receive returns is the next thing told, or nothing.
LEMMA ReceiveKeepsCoord ==
  ASSUME CoordInv, NEW p \in Party, C!PartyReceive(p), UNCHANGED peer
  PROVE  CoordInv'
<1> DEFINE g == got[p]
           t == toParty[p]
<1>1. /\ state[p] \in ToParty /\ state' = [state EXCEPT ![p] = C!After(C!Steps, state[p])]
      /\ \/ /\ t # <<>> /\ got' = [got EXCEPT ![p] = Append(@, Head(t))]
            /\ toParty' = [toParty EXCEPT ![p] = Tail(@)]
         \/ /\ t = <<>> /\ loop = "died" /\ got' = [got EXCEPT ![p] = Append(@, "nothing")]
            /\ UNCHANGED toParty
      /\ UNCHANGED <<strategic, loop, index, connected, accepted, toServer, results>>
  BY DEF C!PartyReceive, C!Receiving, ToParty
<1>2. /\ t \in Seq(ToParty) /\ g \in Seq(ToParty \cup {"nothing"})
      /\ strategic \in BOOLEAN /\ (~strategic => state[p] # "strategy")
  BY DEF CoordInv, CoordType, LinkInv
<1>3. /\ state'[p] = C!After(C!Steps, state[p])
      /\ \A q \in Party : q # p => /\ state'[q] = state[q] /\ toServer'[q] = toServer[q]
                                   /\ toParty'[q] = toParty[q] /\ got'[q] = got[q]
  BY <1>1 DEF CoordInv, CoordType
<1>4. /\ state'[p] \in PartyState \ {"connect", "dead"} /\ (~strategic => state'[p] # "strategy")
      /\ Heard(p)' = Heard(p) + 1 /\ Said(p)' = Said(p)
  <2>1. CASE state[p] = "elements"
    BY <1>1, <1>3, <2>1, AfterSteps DEF PartyState, Heard, Said
  <2>2. CASE state[p] = "seed"
    BY <1>1, <1>2, <1>3, <2>2, AfterSteps DEF PartyState, Heard, Said, Told
  <2>3. CASE state[p] = "strategy"
    BY <1>1, <1>2, <1>3, <2>3, AfterSteps DEF PartyState, Heard, Said, Told
  <2>4. CASE state[p] = "go"
    BY <1>1, <1>2, <1>3, <2>4, AfterSteps DEF PartyState, Heard, Said, Told
  <2> QED BY <1>1, <2>1, <2>2, <2>3, <2>4 DEF ToParty
<1>5. CoordType'
  <2>1. state' \in [Party -> PartyState]
    BY <1>1, <1>3, <1>4 DEF CoordInv, CoordType
  <2>2. \A q \in Party : toParty'[q] \in Seq(ToParty) /\ got'[q] \in Seq(ToParty \cup {"nothing"})
    <3>1. CASE t # <<>>
      <4>1. /\ Tail(t) \in Seq(ToParty) /\ Append(g, Head(t)) \in Seq(ToParty \cup {"nothing"})
        BY <1>2, <3>1
      <4>2. toParty'[p] = Tail(t) /\ got'[p] = Append(g, Head(t))
        BY <1>1, <3>1 DEF CoordInv, CoordType
      <4>3. toParty'[p] \in Seq(ToParty) /\ got'[p] \in Seq(ToParty \cup {"nothing"})
        BY <4>1, <4>2
      <4> QED BY <1>3, <4>3 DEF CoordInv, CoordType
    <3>2. CASE t = <<>>
      <4>1. Append(g, "nothing") \in Seq(ToParty \cup {"nothing"})
        BY <1>2
      <4>2. toParty'[p] = t /\ got'[p] = Append(g, "nothing")
        BY <1>1, <3>2 DEF CoordInv, CoordType
      <4>3. toParty'[p] \in Seq(ToParty) /\ got'[p] \in Seq(ToParty \cup {"nothing"})
        BY <1>2, <4>1, <4>2
      <4> QED BY <1>3, <4>3 DEF CoordInv, CoordType
    <3> QED BY <3>1, <3>2
  <2>3. toParty' \in [Party -> Seq(ToParty)] /\ got' \in [Party -> Seq(ToParty \cup {"nothing"})]
    BY <1>1, <2>2 DEF CoordInv, CoordType
  <2> QED BY <1>1, <2>1, <2>3 DEF CoordInv, CoordType
<1>6. /\ ReadFrom(p)' = ReadFrom(p) /\ SentTo(p)' = SentTo(p)
      /\ Told' = Told /\ \A k : Tells(k)' = Tells(k)
  BY <1>1 DEF ReadFrom, SentTo, Told, Tells
<1>7. PICK n \in 0 .. Len(g) : InboxFrom(p, n)
  BY DEF CoordInv, Inbox
<1>8. Told \in {3, 4} /\ SentTo(p) \in Int /\ Heard(p) \in Int /\ Len(g) \in Nat /\ Len(g) = Heard(p)
  BY <1>1, <1>2, PlacesType DEF CoordInv, Inbox, ToParty
<1>9. Inbox(p)'
  <2>1. CASE t # <<>>
    <3>1. toParty'[p] = Tail(t) /\ got'[p] = Append(g, Head(t))
      BY <1>1, <2>1 DEF CoordInv, CoordType
    <3>2. /\ n + Len(t) <= Told /\ \A i \in 1 .. n : g[i] = Tells(i)
          /\ \A i \in 1 .. Len(t) : t[i] = Tells(n + i)
          /\ n = Len(g)
          /\ loop # "died" => n + Len(t) = SentTo(p)
      BY <1>7, <1>8, <2>1 DEF InboxFrom
    <3> HIDE DEF g, t
    <3>3. /\ Len(t) \in Nat \ {0} /\ Head(t) = t[1] /\ Len(Tail(t)) = Len(t) - 1
          /\ \A i \in 1 .. Len(t) - 1 : Tail(t)[i] = t[i + 1]
      BY <1>2, <2>1
    <3>4. Head(t) \in ToParty \cup {"nothing"}
      BY <1>2, <2>1
    <3>5. /\ Len(Append(g, Head(t))) = n + 1 /\ Append(g, Head(t))[n + 1] = Head(t)
          /\ \A i \in 1 .. n : Append(g, Head(t))[i] = g[i]
      BY <1>2, <3>2, <3>4
    <3>6. Head(t) = Tells(n + 1)
      BY <3>2, <3>3
    <3>7. \A i \in 1 .. n + 1 : Append(g, Head(t))[i] = Tells(i)
      <4>1. \A i \in 1 .. n + 1 : i \in 1 .. n \/ i = n + 1
        OBVIOUS
      <4> QED BY <4>1, <3>2, <3>5, <3>6
    <3>8. \A i \in 1 .. Len(t) - 1 : Tail(t)[i] = Tells(n + 1 + i)
      <4> SUFFICES ASSUME NEW i \in 1 .. Len(t) - 1 PROVE Tail(t)[i] = Tells(n + 1 + i)
        OBVIOUS
      <4>1. i + 1 \in 1 .. Len(t) /\ n + (i + 1) = n + 1 + i
        BY <3>3
      <4> QED BY <4>1, <3>2, <3>3
    <3>9. n + 1 + Len(Tail(t)) = n + Len(t)
      BY <3>3
    <3>10. InboxFrom(p, n + 1)'
      BY <1>1, <1>6, <3>1, <3>2, <3>3, <3>5, <3>7, <3>8, <3>9 DEF InboxFrom
    <3>11. n + 1 \in 0 .. Len(got[p])' /\ Len(got[p])' = Heard(p)'
      BY <1>4, <1>8, <3>1, <3>2, <3>5
    <3> QED BY <3>10, <3>11 DEF Inbox
  <2>2. CASE t = <<>>
    <3>1. toParty'[p] = t /\ got'[p] = Append(g, "nothing") /\ loop = "died" /\ loop' = "died"
      BY <1>1, <2>2 DEF CoordInv, CoordType
    <3>2. /\ n + Len(t) <= Told /\ \A i \in 1 .. n : g[i] = Tells(i)
          /\ \A i \in n + 1 .. Len(g) : g[i] = "nothing"
      BY <1>7, <1>8 DEF InboxFrom
    <3>3. Len(t) = 0
      BY <2>2
    <3> HIDE DEF g, t
    <3>4. /\ Len(Append(g, "nothing")) = Len(g) + 1 /\ Append(g, "nothing")[Len(g) + 1] = "nothing"
          /\ \A i \in 1 .. Len(g) : Append(g, "nothing")[i] = g[i]
      BY <1>2
    <3>5. \A i \in 1 .. n : Append(g, "nothing")[i] = Tells(i)
      <4>1. \A i \in 1 .. n : i \in 1 .. Len(g)
        BY <1>8
      <4> QED BY <3>2, <3>4, <4>1
    <3>6. \A i \in n + 1 .. Len(g) + 1 : Append(g, "nothing")[i] = "nothing"
      <4>1. \A i \in n + 1 .. Len(g) + 1 : i = Len(g) + 1 \/ (i \in n + 1 .. Len(g) /\ i \in 1 .. Len(g))
        BY <1>8
      <4> QED BY <3>2, <3>4, <4>1
    <3>7. InboxFrom(p, n)'
      BY <1>6, <2>2, <3>1, <3>2, <3>3, <3>4, <3>5, <3>6 DEF InboxFrom
    <3>8. n \in 0 .. Len(got[p])' /\ Len(got[p])' = Heard(p)'
      BY <1>4, <1>8, <3>1, <3>4
    <3> QED BY <3>7, <3>8 DEF Inbox
  <2> QED BY <2>1, <2>2
<1>10. loop # "died" => Outbox(p)'
  BY <1>1, <1>4, <1>6 DEF Outbox, CoordInv, ToParty
<1>11. peer[p] = N + 1 /\ state[p] # "dead"
  BY <1>1 DEF CoordInv, LinkInv, ToParty
<1>12. state[p] \notin {"exited", "dead"}
  BY <1>1 DEF ToParty
<1> QED BY <1>1, <1>3, <1>4, <1>5, <1>9, <1>10, <1>11, <1>12, PartyMoves

-----------------------------------------------------------------------------
(***************************************************************************)
(* The steps of the coordinator.                                           *)
(***************************************************************************)

\* It dies when a party died.
LEMMA CrashKeepsCoord ==
  ASSUME CoordInv, loop' = "died", \E p \in Party : state[p] = "dead",
         UNCHANGED <<strategic, index, connected, accepted, state, toParty, toServer, got, results, peer>>
  PROVE  CoordInv'
<1>1. CoordType'
  BY DEF CoordInv, CoordType, Loop
<1>2. ASSUME NEW p \in Party PROVE Inbox(p)'
  <2>1. Told' = Told /\ (\A k : Tells(k)' = Tells(k)) /\ Heard(p)' = Heard(p)
    BY DEF Told, Tells, Heard
  <2>2. \A n : InboxFrom(p, n) => InboxFrom(p, n)'
    BY <2>1 DEF InboxFrom
  <2> QED BY <2>1, <2>2 DEF Inbox, CoordInv
<1> QED BY <1>1, <1>2 DEF CoordInv, LinkInv

\* It reads what the party at the other end of the socket said next, or finds
\* that the party is dead and has said no more.
LEMMA ReadKeepsCoord ==
  ASSUME CoordInv, NEW p \in Party, loop \notin {"died", "done"}, CoordType', loop' # "died",
         UNCHANGED <<strategic, connected, state, toParty, got, peer>>,
         loop' = "accept" => index' = 1, ~strategic => loop' # "strategy",
         \A q \in Party : SentTo(q)' = SentTo(q),
         \A q \in Party : q # p => /\ ReadFrom(q)' = ReadFrom(q) /\ toServer'[q] = toServer[q]
                                   /\ results'[q] = results[q],
         ReadFrom(p) <= 3,
         \/ /\ toServer[p] # <<>> /\ toServer'[p] = Tail(toServer[p])
            /\ ReadFrom(p)' = ReadFrom(p) + 1
         \/ /\ toServer[p] = <<>> /\ toServer'[p] = <<>> /\ C!Gone(p)
            /\ ReadFrom(p)' \in 1 .. 4,
         ResultOfInv(p)'
  PROVE  CoordInv'
<1>1. Told' = Told /\ (\A k : Tells(k)' = Tells(k)) /\ \A q \in Party : Heard(q)' = Heard(q) /\ Said(q)' = Said(q)
  BY DEF Told, Tells, Heard, Said
<1>2. ASSUME NEW q \in Party PROVE Inbox(q)'
  <2>1. \A n : InboxFrom(q, n) => InboxFrom(q, n)'
    BY <1>1 DEF InboxFrom, CoordInv
  <2> QED BY <1>1, <2>1 DEF Inbox, CoordInv
<1>3. ASSUME NEW q \in Party, q # p PROVE Outbox(q)' /\ ResultOfInv(q)'
  <2>1. /\ ReadFrom(q)' = ReadFrom(q) /\ toServer'[q] = toServer[q] /\ state'[q] = state[q]
        /\ results'[q] = results[q]
    BY <1>3
  <2>2. Outbox(q) /\ ResultOfInv(q) /\ Said(q)' = Said(q)
    BY <1>1 DEF CoordInv
  <2>3. Outbox(q)'
    BY <2>1, <2>2 DEF Outbox
  <2>4. ResultOfInv(q)'
    BY <2>1, <2>2 DEF ResultOfInv
  <2> QED BY <2>3, <2>4
<1> DEFINE t == toServer[p]
           k == ReadFrom(p)
<1>4. /\ t \in Seq(FromParty) /\ k \in 0 .. 3 /\ Said(p) \in 0 .. 5
      /\ k + Len(t) <= 5
      /\ \A i \in 1 .. Len(t) : t[i] = Says(k + i)
      /\ state[p] # "dead" => k + Len(t) = Said(p)
      /\ \A i \in 1 .. Len(t) : t[i] = "sending" => i < Len(t)
  <2>1. k \in 0 .. 4 /\ Said(p) \in 0 .. 5
    BY PlacesType DEF CoordInv
  <2>2. Outbox(p) /\ t \in Seq(FromParty)
    BY DEF CoordInv, CoordType
  <2> QED BY <2>1, <2>2 DEF Outbox
<1>5. Outbox(p)'
  <2>1. CASE t # <<>> /\ toServer'[p] = Tail(t) /\ ReadFrom(p)' = k + 1
    <3> HIDE DEF t, k
    <3>1. /\ Len(t) \in Nat \ {0} /\ Len(Tail(t)) = Len(t) - 1
          /\ \A i \in 1 .. Len(t) - 1 : Tail(t)[i] = t[i + 1]
      BY <1>4, <2>1
    <3>2. \A i \in 1 .. Len(t) - 1 : Tail(t)[i] = Says(k + 1 + i)
      <4> SUFFICES ASSUME NEW i \in 1 .. Len(t) - 1 PROVE Tail(t)[i] = Says(k + 1 + i)
        OBVIOUS
      <4>1. i + 1 \in 1 .. Len(t) /\ k + (i + 1) = k + 1 + i
        BY <1>4, <3>1
      <4> QED BY <4>1, <1>4, <3>1
    <3>3. k + 1 + Len(Tail(t)) = k + Len(t)
      BY <1>4, <3>1
    <3>4. \A i \in 1 .. Len(t) - 1 : Tail(t)[i] = "sending" => i < Len(t) - 1
      <4> SUFFICES ASSUME NEW i \in 1 .. Len(t) - 1, Tail(t)[i] = "sending" PROVE i < Len(t) - 1
        OBVIOUS
      <4>1. i + 1 \in 1 .. Len(t) /\ t[i + 1] = "sending"
        BY <3>1
      <4>2. i + 1 < Len(t)
        BY <4>1, <1>4
      <4> QED BY <4>2, <3>1
    <3> QED BY <1>1, <1>4, <2>1, <3>1, <3>2, <3>3, <3>4 DEF Outbox
  <2>2. CASE t = <<>> /\ toServer'[p] = <<>> /\ C!Gone(p) /\ ReadFrom(p)' \in 1 .. 4
    <3>1. Len(t) = 0 /\ Len(toServer'[p]) = 0
      BY <2>2
    <3>2. state[p] = "dead"
      <4>1. state[p] = "exited" => Said(p) = 5
        BY DEF Said
      <4> QED BY <1>4, <2>2, <3>1, <4>1 DEF C!Gone
    <3> QED BY <2>2, <3>1, <3>2 DEF Outbox
  <2> QED BY <2>1, <2>2
<1> QED BY <1>2, <1>3, <1>5 DEF CoordInv, LinkInv

LEMMA AcceptKeepsCoord ==
  ASSUME CoordInv, C!AcceptParty, UNCHANGED peer
  PROVE  CoordInv'
<1>1. PICK p \in Party :
        /\ p \notin accepted /\ loop = "accept"
        /\ \/ /\ toServer[p] # <<>>
              /\ accepted' = accepted \cup {p}
              /\ toServer' = [toServer EXCEPT ![p] = Tail(@)]
              /\ loop' = IF accepted' = Party THEN "elements" ELSE loop
              /\ UNCHANGED index
           \/ state[p] = "dead" /\ loop' = "died" /\ UNCHANGED <<index, accepted, toServer>>
        /\ UNCHANGED <<strategic, connected, state, toParty, got, results>>
  <2>1. PICK p \in connected \ accepted :
          \/ /\ toServer[p] # <<>>
             /\ accepted' = accepted \cup {p}
             /\ toServer' = [toServer EXCEPT ![p] = Tail(@)]
             /\ loop' = IF accepted' = C!Party THEN "elements" ELSE loop
             /\ UNCHANGED index
          \/ state[p] = "dead" /\ loop' = "died" /\ UNCHANGED <<index, accepted, toServer>>
    BY DEF C!AcceptParty, C!Crash
  <2>2. p \in Party
    BY DEF CoordInv, CoordType
  <2>3. loop = "accept" /\ UNCHANGED <<strategic, connected, state, toParty, got, results>>
    BY DEF C!AcceptParty
  <2> QED BY <2>1, <2>2, <2>3 DEF C!Party, Party
<1>2. CASE loop' = "died"
  <2>1. state[p] = "dead" /\ UNCHANGED <<index, accepted, toServer>>
    BY <1>1, <1>2
  <2> QED BY <1>1, <1>2, <2>1, CrashKeepsCoord
<1>3. CASE loop' # "died"
  <2>1. /\ toServer[p] # <<>> /\ accepted' = accepted \cup {p} /\ index' = 1 /\ index = 1
        /\ toServer' = [toServer EXCEPT ![p] = Tail(@)]
        /\ loop' = IF accepted' = Party THEN "elements" ELSE "accept"
    BY <1>1, <1>3 DEF CoordInv, LinkInv
  <2>2. toServer'[p] = Tail(toServer[p]) /\ \A q \in Party : q # p => toServer'[q] = toServer[q]
    BY <2>1 DEF CoordInv, CoordType
  <2>3. CoordType'
    <3>1. toServer' \in [Party -> Seq(FromParty)]
      <4>1. Tail(toServer[p]) \in Seq(FromParty)
        BY <2>1 DEF CoordInv, CoordType
      <4> QED BY <2>1, <4>1 DEF CoordInv, CoordType
    <3>2. loop' \in Loop /\ accepted' \subseteq Party
      BY <2>1 DEF CoordInv, CoordType, Loop
    <3> QED BY <1>1, <2>1, <3>1, <3>2 DEF CoordInv, CoordType
  <2>4. \A q \in Party : q \in Int /\ ~(q < 1)
    BY DEF Party
  <2>5. \A q \in Party : SentTo(q)' = SentTo(q)
    BY <1>1, <2>1, <2>4 DEF SentTo
  <2>6. \A q \in Party : ReadFrom(q)' = IF q = p THEN ReadFrom(q) + 1 ELSE ReadFrom(q)
    BY <1>1, <2>1 DEF ReadFrom
  <2>7. ReadFrom(p) = 0
    BY <1>1 DEF ReadFrom
  <2>8. ResultOfInv(p)'
    BY <1>1, <2>6, <2>7 DEF ResultOfInv, CoordInv
  <2> QED BY <1>1, <1>3, <2>1, <2>2, <2>3, <2>5, <2>6, <2>7, <2>8, ReadKeepsCoord
<1> QED BY <1>2, <1>3

LEMMA SendToKeepsCoord ==
  ASSUME CoordInv, C!SendTo, UNCHANGED peer
  PROVE  CoordInv'
<1> PICK p \in Party : p = index
  BY DEF CoordInv, CoordType
<1> DEFINE t == toParty[p]
<1>1. /\ loop \in ToParty
      /\ \/ toParty' = [toParty EXCEPT ![p] = Append(@, loop)] /\ C!NextIndex
         \/ C!Gone(p) /\ loop' = "died" /\ UNCHANGED <<index, toParty>>
      /\ UNCHANGED <<strategic, connected, accepted, state, toServer, got, results>>
  BY DEF C!SendTo, C!Crash, C!Receiving, ToParty, CoordInv, CoordType
<1>2. /\ t \in Seq(ToParty) /\ Told \in {3, 4} /\ SentTo(p) \in Int /\ Len(got[p]) \in Nat
      /\ strategic \in BOOLEAN /\ (~strategic => loop # "strategy") /\ loop # "died"
  BY <1>1, PlacesType DEF CoordInv, CoordType, LinkInv, ToParty
<1>3. SentTo(p) + 1 <= Told /\ loop = Tells(SentTo(p) + 1)
  <2>1. ~(p < index)
    BY <1>1 DEF Party
  <2> QED BY <1>1, <1>2, <2>1 DEF SentTo, Told, Tells, ToParty
<1>4. \A q \in Party : \E n \in Nat : InboxFrom(q, n) /\ n = Len(got[q]) /\ n + Len(toParty[q]) = SentTo(q)
  <2> SUFFICES ASSUME NEW q \in Party
               PROVE  \E n \in Nat : InboxFrom(q, n) /\ n = Len(got[q]) /\ n + Len(toParty[q]) = SentTo(q)
    OBVIOUS
  <2>1. PICK n \in 0 .. Len(got[q]) : InboxFrom(q, n)
    BY DEF CoordInv, Inbox
  <2>2. Len(got[q]) \in Nat
    BY DEF CoordInv, CoordType
  <2>3. n = Len(got[q]) /\ n + Len(toParty[q]) = SentTo(q)
    BY <1>2, <2>1, <2>2 DEF InboxFrom
  <2> QED BY <2>1, <2>2, <2>3
<1> HIDE DEF t
<1>5. CASE C!Gone(p) /\ loop' = "died" /\ UNCHANGED <<index, toParty>>
  <2>1. PICK n \in Nat : n = Len(got[p]) /\ n + Len(toParty[p]) = SentTo(p)
    BY <1>1, <1>4
  <2>2. Len(toParty[p]) \in Nat
    BY <1>1 DEF CoordInv, CoordType
  <2>3. Len(got[p]) < Told
    <3> DEFINE x == Len(toParty[p])
               y == SentTo(p)
    <3>1. n + x = y /\ x \in Nat
      BY <2>1, <2>2
    <3>2. y \in Int /\ y + 1 <= Told
      BY <1>2, <1>3
    <3>3. Told \in Int
      BY <1>2
    <3> HIDE DEF x, y
    <3>4. n < Told
      BY <3>1, <3>2, <3>3
    <3> QED BY <2>1, <3>4
  <2>4. state[p] # "exited"
    <3>1. state[p] = "exited" => Len(got[p]) = Told
      BY <1>1 DEF CoordInv, Inbox, Heard
    <3> QED BY <1>2, <2>3, <3>1
  <2>5. state[p] = "dead"
    BY <1>5, <2>4 DEF C!Gone
  <2> QED BY <1>1, <1>5, <2>5, CrashKeepsCoord
<1>6. CASE toParty' = [toParty EXCEPT ![p] = Append(@, loop)] /\ C!NextIndex
  <2>1. /\ index' \in Party /\ loop' \in Loop \ {"accept", "died"} /\ (~strategic => loop' # "strategy")
        /\ \A q \in Party : ReadFrom(q)' = ReadFrom(q)
        /\ \A q \in Party : SentTo(q)' = IF q = p THEN SentTo(q) + 1 ELSE SentTo(q)
    <3>1. /\ loop \in {"elements", "seed", "strategy", "sync", "go", "results"}
          /\ loop \notin {"sync", "results"} /\ loop \in C!Receiving
      BY <1>1 DEF ToParty, C!Receiving
    <3>2. CoordType /\ LinkInv /\ UNCHANGED <<strategic, accepted>>
      BY <1>1 DEF CoordInv
    <3>3. \A q \in Party : loop # "results" \/ q > index => results'[q] = <<>> /\ results[q] = <<>>
      BY <1>1, NothingReadYet DEF ToParty
    <3> QED BY <1>6, <3>1, <3>2, <3>3, NextIndexMoves DEF C!Receiving
  <2>2. toParty'[p] = Append(t, loop) /\ \A q \in Party : q # p => toParty'[q] = toParty[q]
    BY <1>1, <1>6 DEF CoordInv, CoordType, t
  <2>3. CoordType'
    <3>1. toParty' \in [Party -> Seq(ToParty)]
      <4>1. Append(t, loop) \in Seq(ToParty)
        BY <1>1, <1>2
      <4> QED BY <1>1, <1>6, <4>1 DEF CoordInv, CoordType, t
    <3> QED BY <1>1, <2>1, <3>1 DEF CoordInv, CoordType
  <2>4. /\ Told' = Told /\ (\A k : Tells(k)' = Tells(k))
        /\ \A q \in Party : Heard(q)' = Heard(q) /\ Said(q)' = Said(q)
    BY <1>1 DEF Told, Tells, Heard, Said
  <2>5. ASSUME NEW q \in Party PROVE Inbox(q)'
    <3>1. PICK n \in Nat : InboxFrom(q, n) /\ n = Len(got[q]) /\ n + Len(toParty[q]) = SentTo(q)
      BY <1>4
    <3>2. CASE q # p
      <4>1. InboxFrom(q, n)'
        <5>1. /\ toParty'[q] = toParty[q] /\ got'[q] = got[q] /\ SentTo(q)' = SentTo(q)
              /\ Told' = Told /\ \A k : Tells(k)' = Tells(k)
          BY <1>1, <2>1, <2>2, <2>4, <3>2
        <5>2. ~(n < Len(got[q]))
          BY <3>1
        <5>3. /\ n + Len(toParty[q]) <= Told
              /\ \A i \in 1 .. n : got[q][i] = Tells(i)
              /\ \A i \in 1 .. Len(toParty[q]) : toParty[q][i] = Tells(n + i)
          BY <3>1 DEF InboxFrom
        <5> QED BY <3>1, <5>1, <5>2, <5>3 DEF InboxFrom
      <4>2. n \in 0 .. Len(got[q])'
        BY <1>1, <3>1
      <4> QED BY <1>1, <2>4, <4>1, <4>2 DEF Inbox, CoordInv
    <3>3. CASE q = p
      <4>1. /\ Len(Append(t, loop)) = Len(t) + 1 /\ Append(t, loop)[Len(t) + 1] = loop
            /\ Len(t) \in Nat /\ \A i \in 1 .. Len(t) : Append(t, loop)[i] = t[i]
        BY <1>1, <1>2
      <4>2. /\ \A i \in 1 .. n : got[p][i] = Tells(i)
            /\ \A i \in 1 .. Len(t) : t[i] = Tells(n + i)
            /\ n + Len(t) = SentTo(p) /\ n = Len(got[p])
        BY <3>1, <3>3 DEF InboxFrom, t
      <4>3. n + (Len(t) + 1) = SentTo(p) + 1
        <5> DEFINE x == Len(t)
                   y == SentTo(p)
        <5>1. n + x = y /\ x \in Int
          BY <4>1, <4>2
        <5> HIDE DEF x, y
        <5>2. n + (x + 1) = y + 1
          BY <5>1
        <5> QED BY <5>2 DEF x, y
      <4>4. \A i \in 1 .. Len(t) + 1 : Append(t, loop)[i] = Tells(n + i)
        <5>1. \A i \in 1 .. Len(t) + 1 : i \in 1 .. Len(t) \/ i = Len(t) + 1
          BY <4>1
        <5> QED BY <1>3, <4>1, <4>2, <4>3, <5>1
      <4>5. SentTo(p)' = SentTo(p) + 1
        BY <1>1, <2>1
      <4>6. InboxFrom(p, n)'
        <5>1. got'[p] = got[p] /\ toParty'[p] = Append(t, loop)
          BY <1>1, <2>2
        <5>2. ~(n < Len(got[p]))
          BY <4>2
        <5>3. n + Len(Append(t, loop)) = SentTo(p)' /\ n + Len(Append(t, loop)) <= Told
          BY <1>3, <4>1, <4>3, <4>5
        <5>4. \A i \in 1 .. Len(Append(t, loop)) : Append(t, loop)[i] = Tells(n + i)
          BY <4>1, <4>4
        <5> QED BY <2>4, <4>2, <5>1, <5>2, <5>3, <5>4 DEF InboxFrom
      <4>7. n \in 0 .. Len(got[p])'
        BY <1>1, <4>2
      <4> QED BY <1>1, <2>4, <3>3, <4>6, <4>7 DEF Inbox, CoordInv
    <3> QED BY <3>2, <3>3
  <2>6. ASSUME NEW q \in Party PROVE Outbox(q)' /\ ResultOfInv(q)'
    BY <1>1, <1>2, <2>1, <2>4 DEF Outbox, ResultOfInv, CoordInv
  <2>7. LinkInv'
    BY <1>1, <2>1 DEF LinkInv, CoordInv
  <2> QED BY <1>1, <1>2, <2>3, <2>5, <2>6, <2>7 DEF CoordInv
<1> QED BY <1>1, <1>5, <1>6

LEMMA SyncFromKeepsCoord ==
  ASSUME CoordInv, C!SyncFrom, UNCHANGED peer
  PROVE  CoordInv'
<1> PICK p \in Party : p = index
  BY DEF CoordInv, CoordType
<1>1. /\ loop = "sync"
      /\ \/ /\ toServer[p] # <<>> /\ C!NextIndex
            /\ toServer' = [toServer EXCEPT ![p] = Tail(@)]
         \/ /\ toServer[p] = <<>> /\ C!Gone(p) /\ UNCHANGED toServer
            /\ C!NextIndex \/ (loop' = "died" /\ UNCHANGED index)
      /\ UNCHANGED <<strategic, connected, accepted, state, toParty, got, results>>
  BY DEF C!SyncFrom, C!Crash
<1>2. ReadFrom(p) = 1
  <2>1. ~(p < index)
    BY DEF Party
  <2> QED BY <1>1, <2>1 DEF ReadFrom
<1>3. CASE loop' = "died" /\ UNCHANGED index /\ toServer[p] = <<>> /\ C!Gone(p) /\ UNCHANGED toServer
  <2>1. Len(toServer[p]) = 0
    BY <1>3
  <2>2. state[p] # "exited"
    BY <1>1, <1>2, <2>1 DEF CoordInv, Outbox, Said
  <2>3. state[p] = "dead"
    BY <1>3, <2>2 DEF C!Gone
  <2> QED BY <1>1, <1>3, <2>3, CrashKeepsCoord
<1>4. CASE C!NextIndex
  <2>1. /\ index' \in Party /\ loop' \in Loop \ {"accept", "died"} /\ (~strategic => loop' # "strategy")
        /\ \A q \in Party : SentTo(q)' = SentTo(q)
        /\ \A q \in Party : q # p => ReadFrom(q)' = ReadFrom(q)
        /\ ReadFrom(p)' = ReadFrom(p) + 1
    <3>1. loop \in {"elements", "seed", "strategy", "sync", "go", "results"} /\ loop \notin C!Receiving
      BY <1>1 DEF C!Receiving
    <3>2. CoordType /\ LinkInv /\ UNCHANGED <<strategic, accepted>>
      BY <1>1 DEF CoordInv
    <3>3. \A q \in Party : loop # "results" \/ q > index => results'[q] = <<>> /\ results[q] = <<>>
      BY <1>1, NothingReadYet
    <3>4. ReadFrom(p)' = 2
      BY <1>1, <1>4, <3>1, <3>2, <3>3, NextIndexMoves
    <3> QED BY <1>1, <1>2, <1>4, <3>1, <3>2, <3>3, <3>4, NextIndexMoves
  <2>2. /\ \A q \in Party : q # p => toServer'[q] = toServer[q]
        /\ toServer' \in [Party -> Seq(FromParty)]
        /\ \/ toServer[p] # <<>> /\ toServer'[p] = Tail(toServer[p])
           \/ toServer[p] = <<>> /\ toServer'[p] = <<>> /\ C!Gone(p)
    <3>1. CASE toServer[p] # <<>> /\ toServer' = [toServer EXCEPT ![p] = Tail(@)]
      <4>1. Tail(toServer[p]) \in Seq(FromParty)
        BY <3>1 DEF CoordInv, CoordType
      <4> QED BY <3>1, <4>1 DEF CoordInv, CoordType
    <3>2. CASE toServer[p] = <<>> /\ C!Gone(p) /\ UNCHANGED toServer
      BY <3>2 DEF CoordInv, CoordType
    <3> QED BY <1>1, <3>1, <3>2
  <2>3. CoordType'
    BY <1>1, <2>1, <2>2 DEF CoordInv, CoordType
  <2>4. ResultOfInv(p)'
    BY <1>1, <1>2, <2>1 DEF ResultOfInv, CoordInv
  <2> QED BY <1>1, <1>2, <2>1, <2>2, <2>3, <2>4, ReadKeepsCoord
<1> QED BY <1>1, <1>3, <1>4

\* The first of the two receives.
LEMMA FirstReadKeepsCoord ==
  ASSUME CoordInv, C!ResultOf, UNCHANGED peer, toServer[index] # <<>>, results[index] = <<>>
  PROVE  CoordInv'
<1> PICK p \in Party : p = index
  BY DEF CoordInv, CoordType
<1>1. /\ loop = "results" /\ toServer[p] # <<>> /\ results[p] = <<>>
      /\ results' = [results EXCEPT ![p] = Append(@, Head(toServer[p]))]
      /\ toServer' = [toServer EXCEPT ![p] = Tail(@)]
      /\ UNCHANGED <<strategic, loop, index, connected, accepted, state, toParty, got>>
  BY DEF C!ResultOf
<1>2. p \in Int /\ ~(p < index)
  BY DEF Party
<1>3. ReadFrom(p) = 2
  BY <1>1, <1>2 DEF ReadFrom
<1>4. /\ toServer[p] \in Seq(FromParty) /\ Head(toServer[p]) = "result"
      /\ Tail(toServer[p]) \in Seq(FromParty)
  <2>1. toServer[p] \in Seq(FromParty) /\ Outbox(p)
    BY <1>1 DEF CoordInv, CoordType
  <2>2. 1 \in 1 .. Len(toServer[p]) /\ Head(toServer[p]) = toServer[p][1]
    BY <1>1, <2>1
  <2>3. toServer[p][1] = Says(3)
    BY <1>3, <2>1, <2>2 DEF Outbox
  <2> QED BY <1>1, <2>1, <2>2, <2>3 DEF Says
<1>5. /\ results'[p] = <<"result">> /\ toServer'[p] = Tail(toServer[p])
      /\ \A q \in Party : q # p => results'[q] = results[q] /\ toServer'[q] = toServer[q]
      /\ results' \in [Party -> Seq(FromParty)] /\ toServer' \in [Party -> Seq(FromParty)]
  <2>1. Append(<<>>, "result") = <<"result">> /\ "result" \in FromParty
    BY DEF FromParty
  <2>2. results' = [results EXCEPT ![p] = <<"result">>]
    BY <1>1, <1>4, <2>1
  <2>3. <<"result">> \in Seq(FromParty)
    BY <2>1
  <2> QED BY <1>1, <1>4, <2>2, <2>3 DEF CoordInv, CoordType
<1>6. CoordType'
  BY <1>1, <1>5 DEF CoordInv, CoordType
<1>7. /\ ReadFrom(p)' = 3
      /\ \A q \in Party : q # p => ReadFrom(q)' = ReadFrom(q)
      /\ \A q \in Party : SentTo(q)' = SentTo(q)
  <2>1. results'[p] # <<>>
    BY <1>5
  <2> QED BY <1>1, <1>2, <1>5, <2>1 DEF ReadFrom, SentTo, Told
<1>8. ResultOfInv(p)'
  BY <1>5, <1>7 DEF ResultOfInv
<1>9. /\ loop \notin {"died", "done"} /\ loop' \notin {"died", "accept", "strategy"}
      /\ UNCHANGED <<strategic, connected, state, toParty, got, peer>>
      /\ ReadFrom(p) <= 3 /\ ReadFrom(p)' = ReadFrom(p) + 1
  BY <1>1, <1>3, <1>7
<1> QED BY <1>1, <1>5, <1>6, <1>7, <1>8, <1>9, ReadKeepsCoord

\* The second one, which leaves the padding.
LEMMA SecondReadKeepsCoord ==
  ASSUME CoordInv, C!ResultOf, UNCHANGED peer, toServer[index] # <<>>, results[index] # <<>>
  PROVE  CoordInv'
<1> PICK p \in Party : p = index
  BY DEF CoordInv, CoordType
<1>1. /\ loop = "results" /\ toServer[p] # <<>> /\ results[p] # <<>> /\ C!NextIndex
      /\ results' = [results EXCEPT ![p] = Append(@, Head(toServer[p]))]
      /\ toServer' = [toServer EXCEPT ![p] = Tail(@)]
      /\ UNCHANGED <<strategic, connected, accepted, state, toParty, got>>
  BY DEF C!ResultOf
<1>2. p \in Int /\ ~(p < index)
  BY DEF Party
<1>3. ReadFrom(p) = 3 /\ results[p] = <<"result">>
  <2>1. ReadFrom(p) = 3
    BY <1>1, <1>2 DEF ReadFrom
  <2> QED BY <1>1, <2>1 DEF CoordInv, ResultOfInv
<1>4. Head(toServer[p]) = "sending" /\ Tail(toServer[p]) = <<"padding">>
  <2> DEFINE t == toServer[p]
  <2>1. t \in Seq(FromParty) /\ t # <<>>
    BY <1>1 DEF CoordInv, CoordType
  <2>2. /\ 3 + Len(t) <= 5
        /\ \A i \in 1 .. Len(t) : t[i] = Says(3 + i)
        /\ \A i \in 1 .. Len(t) : t[i] = "sending" => i < Len(t)
    BY <1>1, <1>3 DEF CoordInv, Outbox
  <2> HIDE DEF t
  <2>3. Len(t) \in Nat /\ Len(t) >= 1 /\ Len(t) <= 2
    BY <2>1, <2>2
  <2>4. 1 \in 1 .. Len(t)
    BY <2>3
  <2>5. t[1] = Says(4)
    BY <2>2, <2>4
  <2>6. t[1] = "sending"
    BY <2>5 DEF Says
  <2>7. 1 < Len(t)
    BY <2>2, <2>4, <2>6
  <2>8. Len(t) = 2 /\ 2 \in 1 .. Len(t)
    <3>1. \A n \in Nat : n <= 2 /\ 1 < n => n = 2
      OBVIOUS
    <3>2. Len(t) = 2
      BY <2>3, <2>7, <3>1
    <3> QED BY <3>2
  <2>9. t[2] = Says(5)
    BY <2>2, <2>8
  <2>10. t[2] = "padding"
    BY <2>9 DEF Says
  <2>11. Tail(t) \in Seq(FromParty) /\ Len(Tail(t)) = 1 /\ Tail(t)[1] = t[2] /\ Head(t) = t[1]
    BY <2>1, <2>8
  <2>12. Tail(t) = <<"padding">>
    <3> DEFINE u == Tail(t)
    <3>1. u \in Seq(FromParty) /\ Len(u) = 1 /\ u[1] = "padding"
      BY <2>10, <2>11
    <3>2. <<"padding">> \in Seq(FromParty) /\ Len(<<"padding">>) = 1 /\ <<"padding">>[1] = "padding"
      BY DEF FromParty
    <3> HIDE DEF u
    <3>3. \A i \in 1 .. Len(u) : u[i] = <<"padding">>[i]
      BY <3>1, <3>2
    <3>4. u = <<"padding">>
      BY <3>1, <3>2, <3>3, SeqEqual
    <3> QED BY <3>4 DEF u
  <2> QED BY <2>6, <2>11, <2>12 DEF t
<1>5. /\ results'[p] = <<"result", "sending">> /\ toServer'[p] = Tail(toServer[p])
      /\ \A q \in Party : q # p => results'[q] = results[q] /\ toServer'[q] = toServer[q]
      /\ results' \in [Party -> Seq(FromParty)] /\ toServer' \in [Party -> Seq(FromParty)]
  <2>1. Append(<<"result">>, "sending") = <<"result", "sending">>
    <3> DEFINE u == Append(<<"result">>, "sending")
               v == <<"result", "sending">>
    <3>1. /\ u \in Seq(FromParty) /\ Len(u) = 2 /\ u[1] = "result" /\ u[2] = "sending"
          /\ v \in Seq(FromParty) /\ Len(v) = 2 /\ v[1] = "result" /\ v[2] = "sending"
      BY DEF FromParty
    <3> HIDE DEF u, v
    <3>2. \A i \in 1 .. Len(u) : u[i] = v[i]
      BY <3>1
    <3>3. u = v
      BY <3>1, <3>2, SeqEqual
    <3> QED BY <3>3 DEF u, v
  <2>2. results' = [results EXCEPT ![p] = <<"result", "sending">>]
    BY <1>1, <1>3, <1>4, <2>1
  <2>3. toServer' = [toServer EXCEPT ![p] = <<"padding">>]
    BY <1>1, <1>4
  <2>4. <<"result", "sending">> \in Seq(FromParty) /\ <<"padding">> \in Seq(FromParty)
    BY DEF FromParty
  <2> QED BY <1>4, <2>2, <2>3, <2>4 DEF CoordInv, CoordType
<1>6. /\ index' \in Party /\ loop' \in Loop \ {"accept", "died"} /\ (~strategic => loop' # "strategy")
      /\ \A q \in Party : SentTo(q)' = SentTo(q)
      /\ \A q \in Party : q # p => ReadFrom(q)' = ReadFrom(q)
      /\ ReadFrom(p)' = 4
  <2>1. loop \in {"elements", "seed", "strategy", "sync", "go", "results"} /\ loop \notin C!Receiving
    BY <1>1 DEF C!Receiving
  <2>2. CoordType /\ LinkInv /\ UNCHANGED <<strategic, accepted>>
    BY <1>1 DEF CoordInv
  <2>3. \A q \in Party : loop # "results" \/ q > index => results'[q] = <<>> /\ results[q] = <<>>
    BY <1>1, <1>2, <1>5, NothingReadYet
  <2> QED BY <1>1, <2>1, <2>2, <2>3, NextIndexMoves
<1>7. CoordType'
  BY <1>1, <1>5, <1>6 DEF CoordInv, CoordType
<1>8. ResultOfInv(p)'
  BY <1>4, <1>5, <1>6 DEF ResultOfInv
<1>9. /\ loop \notin {"died", "done"} /\ loop' \notin {"died", "accept"}
      /\ UNCHANGED <<strategic, connected, state, toParty, got, peer>>
      /\ ReadFrom(p) <= 3 /\ ReadFrom(p)' = ReadFrom(p) + 1
  BY <1>1, <1>3, <1>6
<1> QED BY <1>1, <1>5, <1>6, <1>7, <1>8, <1>9, ReadKeepsCoord

\* Neither of them: the party has died.
LEMMA NoReadKeepsCoord ==
  ASSUME CoordInv, C!ResultOf, UNCHANGED peer, toServer[index] = <<>>
  PROVE  CoordInv'
<1> PICK p \in Party : p = index
  BY DEF CoordInv, CoordType
<1>1. /\ loop = "results" /\ toServer[p] = <<>> /\ C!NextIndex /\ C!Gone(p)
      /\ UNCHANGED <<strategic, connected, accepted, state, toParty, toServer, got, results>>
  BY DEF C!ResultOf
<1>2. p \in Int /\ ~(p < index)
  BY DEF Party
<1>3. ReadFrom(p) = IF results[p] # <<>> THEN 3 ELSE 2
  BY <1>1, <1>2 DEF ReadFrom
<1>4. results[p] \in {<<>>, <<"result">>}
  BY <1>1, <1>3 DEF CoordInv, ResultOfInv
<1>5. state[p] = "dead"
  <2>1. Len(toServer[p]) = 0
    BY <1>1
  <2>2. state[p] # "dead" => ReadFrom(p) = Said(p)
    BY <1>1, <1>3, <2>1 DEF CoordInv, Outbox
  <2>3. state[p] = "exited" => Said(p) = 5
    BY DEF Said
  <2> QED BY <1>1, <1>3, <2>2, <2>3 DEF C!Gone
<1>6. /\ index' \in Party /\ loop' \in Loop \ {"accept", "died"} /\ (~strategic => loop' # "strategy")
      /\ \A q \in Party : SentTo(q)' = SentTo(q)
      /\ \A q \in Party : q # p => ReadFrom(q)' = ReadFrom(q)
      /\ ReadFrom(p)' = 4
  <2>1. loop \in {"elements", "seed", "strategy", "sync", "go", "results"} /\ loop \notin C!Receiving
    BY <1>1 DEF C!Receiving
  <2>2. CoordType /\ LinkInv /\ UNCHANGED <<strategic, accepted>>
    BY <1>1 DEF CoordInv
  <2>3. \A q \in Party : loop # "results" \/ q > index => results'[q] = <<>> /\ results[q] = <<>>
    BY <1>1, NothingReadYet
  <2> QED BY <1>1, <2>1, <2>2, <2>3, NextIndexMoves
<1>7. CoordType'
  BY <1>1, <1>6 DEF CoordInv, CoordType
<1>8. ResultOfInv(p)'
  BY <1>1, <1>4, <1>5, <1>6 DEF ResultOfInv
<1> QED BY <1>1, <1>3, <1>6, <1>7, <1>8, ReadKeepsCoord

LEMMA ResultOfKeepsCoord ==
  ASSUME CoordInv, C!ResultOf, UNCHANGED peer
  PROVE  CoordInv'
  BY FirstReadKeepsCoord, SecondReadKeepsCoord, NoReadKeepsCoord

-----------------------------------------------------------------------------
(***************************************************************************)
(* The invariant.                                                          *)
(***************************************************************************)

LEMMA InitCoord ==
  ASSUME Init
  PROVE  CoordInv
<1>1. /\ strategic \in BOOLEAN /\ loop = "accept" /\ index = 1 /\ connected = {} /\ accepted = {}
      /\ state = [p \in Party |-> "connect"]
      /\ toParty = [p \in Party |-> <<>>] /\ toServer = [p \in Party |-> <<>>]
      /\ got = [p \in Party |-> <<>>] /\ results = [p \in Party |-> <<>>]
  BY DEF Init, C!Init, C!Party, Party
<1>2. CoordType
  <2>1. 1 \in Party
    BY LaunchSizes DEF Party
  <2>2. \A S : <<>> \in Seq(S)
    OBVIOUS
  <2>3. toParty \in [Party -> Seq(ToParty)] /\ toServer \in [Party -> Seq(FromParty)]
        /\ got \in [Party -> Seq(ToParty \cup {"nothing"})]
        /\ results \in [Party -> Seq(FromParty)]
    BY <1>1, <2>2
  <2> QED BY <1>1, <2>1, <2>3 DEF CoordType, Loop, PartyState
<1>3. ASSUME NEW p \in Party PROVE Inbox(p) /\ Outbox(p) /\ ResultOfInv(p)
  <2>1. /\ toParty[p] = <<>> /\ toServer[p] = <<>> /\ got[p] = <<>> /\ state[p] = "connect"
        /\ Len(toParty[p]) = 0 /\ Len(toServer[p]) = 0 /\ Len(got[p]) = 0
    <3>1. toParty[p] = <<>> /\ toServer[p] = <<>> /\ got[p] = <<>> /\ state[p] = "connect"
      BY <1>1
    <3> QED BY <3>1
  <2>2. ReadFrom(p) = 0 /\ SentTo(p) = 0 /\ Said(p) = 0 /\ Heard(p) = 0 /\ Told \in {3, 4}
    BY <1>1, <2>1 DEF ReadFrom, SentTo, Said, Heard, Told
  <2>6. ResultOfInv(p)
    BY <1>1, <2>2 DEF ResultOfInv
  <2>3. InboxFrom(p, 0)
    BY <2>1, <2>2 DEF InboxFrom
  <2>4. Inbox(p)
    BY <2>1, <2>2, <2>3 DEF Inbox
  <2>5. Outbox(p)
    BY <2>1, <2>2 DEF Outbox
  <2> QED BY <2>4, <2>5, <2>6
<1>4. LinkInv
  BY <1>1 DEF LinkInv
<1> QED BY <1>1, <1>2, <1>3, <1>4 DEF CoordInv

\* Only what the coordinator knows of a party says where its loops are.
LEMMA MeshStepKeepsCoord ==
  ASSUME CoordInv, MeshInv, NEW p \in Party, UNCHANGED coordVars,
         M!Step(p) \/ M!GiveUp(p)
  PROVE  CoordInv'
<1>1. UNCHANGED <<strategic, loop, index, connected, accepted, state, toParty, toServer, got, results>>
  BY DEF coordVars
<1>2. \A q \in Party : q # p => peer'[q] = peer[q]
  <2>1. \/ \E i : peer' = [peer EXCEPT ![p] = i]
        \/ peer' = peer
    BY DEF M!Step, M!Start, M!Listen, M!Accept, M!Connect, M!GiveUp, M!NextSocket, M!GoOn
  <2> QED BY <2>1 DEF MeshInv, MeshType
<1>3. state[p] \in {"connect", "dead"}
  <2>1. step[p] \in {"down", "listen", "accept", "connect"}
    BY DEF M!Step, M!Start, M!Listen, M!Accept, M!Connect, M!GiveUp
  <2>2. peer[p] # N + 1
    <3>1. p \in 1 .. N /\ N \in Nat
      BY LaunchSizes DEF Party
    <3>2. peer[p] = 0 \/ peer[p] \in 1 .. p - 1 \/ peer[p] \in p + 1 .. N
      BY <2>1 DEF MeshInv, InLoop
    <3> DEFINE x == peer[p]
    <3>3. x = 0 \/ x \in 1 .. p - 1 \/ x \in p + 1 .. N
      BY <3>2
    <3> HIDE DEF x
    <3>4. x # N + 1
      BY <3>1, <3>3
    <3> QED BY <3>4 DEF x
  <2> QED BY <2>2 DEF CoordInv, LinkInv
<1>4. LinkInv'
  <2>1. \A q \in Party : state'[q] \notin {"connect", "dead"} => peer'[q] = N + 1
    BY <1>1, <1>2, <1>3 DEF CoordInv, LinkInv
  <2> QED BY <1>1, <2>1 DEF CoordInv, LinkInv
<1>5. CoordType'
  BY <1>1 DEF CoordInv, CoordType
<1>6. ASSUME NEW q \in Party PROVE Inbox(q)' /\ (loop' # "died" => Outbox(q)' /\ ResultOfInv(q)')
  <2>1. /\ Inbox(q)' = Inbox(q) /\ Outbox(q)' = Outbox(q) /\ ResultOfInv(q)' = ResultOfInv(q)
    BY <1>1 DEF Inbox, InboxFrom, Outbox, ResultOfInv, Told, Tells, SentTo, ReadFrom, Said, Heard
  <2> QED BY <1>1, <2>1 DEF CoordInv
<1> QED BY <1>4, <1>5, <1>6 DEF CoordInv

LEMMA CoordInductive ==
  ASSUME CoordInv, MeshInv, [Next]_launchVars
  PROVE  CoordInv'
<1>1. CASE UNCHANGED launchVars
  <2>1. UNCHANGED <<strategic, loop, index, connected, accepted, state, toParty, toServer, got, results, peer>>
    BY <1>1 DEF launchVars, coordVars, meshVars
  <2>2. CoordType' /\ LinkInv'
    BY <2>1 DEF CoordInv, CoordType, LinkInv
  <2>3. ASSUME NEW q \in Party PROVE Inbox(q)' /\ (loop' # "died" => Outbox(q)' /\ ResultOfInv(q)')
    <3>1. /\ Inbox(q)' = Inbox(q) /\ Outbox(q)' = Outbox(q) /\ ResultOfInv(q)' = ResultOfInv(q)
      BY <2>1 DEF Inbox, InboxFrom, Outbox, ResultOfInv, Told, Tells, SentTo, ReadFrom, Said, Heard
    <3> QED BY <2>1, <3>1 DEF CoordInv
  <2> QED BY <2>2, <2>3 DEF CoordInv
<1>2. CASE Coordinating
  <2>1. UNCHANGED peer
    BY <1>2 DEF Coordinating, meshVars
  <2> QED BY <1>2, <2>1, AcceptKeepsCoord, SendToKeepsCoord, SyncFromKeepsCoord, ResultOfKeepsCoord
       DEF Coordinating, C!CoordinatorStep
<1>3. ASSUME NEW p \in Party, Connecting(p) \/ Refused(p) PROVE CoordInv'
  BY <1>3, MeshStepKeepsCoord DEF Connecting, Refused
<1>4. ASSUME NEW p \in Party, Computing(p) \/ Die(p) PROVE CoordInv'
  <2>1. UNCHANGED peer
    BY <1>4 DEF Computing, Die, Alongside, M!End, meshVars
  <2>2. CASE Computing(p)
    BY <2>1, <2>2, ConnectKeepsCoord, SendKeepsCoord, ReceiveKeepsCoord, RunKeepsCoord
       DEF Computing, C!PartyStep
  <2>3. CASE Die(p)
    BY <2>1, <2>3, DieKeepsCoord DEF Die
  <2> QED BY <1>4, <2>2, <2>3
<1> QED BY <1>1, <1>2, <1>3, <1>4 DEF Next

\* CoordInv is an invariant of every experiment, by that of the mesh.
THEOREM CoordInvariant == Spec => [](MeshInv /\ CoordInv)
<1>1. Init => CoordInv
  BY InitCoord
<1>2. MeshInv /\ CoordInv /\ [Next]_launchVars => CoordInv'
  BY CoordInductive
<1> QED BY <1>1, <1>2, MeshInvariant, PTL DEF Spec

-----------------------------------------------------------------------------
(***************************************************************************)
(* What it says of an experiment.                                          *)
(***************************************************************************)

\* The two sides of the coordinator's sockets never get out of step: each Receive
\* of BaseMPSIParty and PsiParty returns what it is for (runMPPSI's loops are in
\* the order in which the constructors receive), until the coordinator has died.
THEOREM ReceivesInStep == Spec => []ReceivesWhatItExpects
<1>1. CoordInv => ReceivesWhatItExpects
  <2> SUFFICES ASSUME CoordInv PROVE ReceivesWhatItExpects
    OBVIOUS
  <2> DEFINE expected == IF strategic THEN <<"elements", "seed", "strategy", "go">>
                         ELSE <<"elements", "seed", "go">>
  <2>1. \A i \in 1 .. Told : expected[i] = Tells(i)
    <3>1. CASE strategic
      <4>1. \A i \in 1 .. 4 : i = 1 \/ i = 2 \/ i = 3 \/ i = 4
        OBVIOUS
      <4> QED BY <3>1, <4>1 DEF Told, Tells
    <3>2. CASE ~strategic
      <4>1. \A i \in 1 .. 3 : i = 1 \/ i = 2 \/ i = 3
        OBVIOUS
      <4> QED BY <3>2, <4>1 DEF Told, Tells
    <3> QED BY <3>1, <3>2
  <2> HIDE DEF expected
  <2>2. ASSUME NEW p \in Party
        PROVE  \E n \in 0 .. Len(got[p]) :
                 /\ \A i \in 1 .. n : got[p][i] = expected[i]
                 /\ \A i \in n + 1 .. Len(got[p]) : got[p][i] = "nothing" /\ loop = "died"
    <3>1. PICK n \in 0 .. Len(got[p]) : InboxFrom(p, n)
      BY DEF CoordInv, Inbox
    <3>2. Len(toParty[p]) \in Nat /\ Len(got[p]) \in Nat /\ Told \in {3, 4}
      BY PlacesType DEF CoordInv, CoordType
    <3>3. n <= Told
      BY <3>1, <3>2 DEF InboxFrom
    <3>4. \A i \in 1 .. n : i \in 1 .. Told
      BY <3>2, <3>3
    <3>5. \A i \in 1 .. n : got[p][i] = expected[i]
      BY <2>1, <3>1, <3>4 DEF InboxFrom
    <3>6. \A i \in n + 1 .. Len(got[p]) : got[p][i] = "nothing" /\ loop = "died"
      <4>1. ASSUME NEW i \in n + 1 .. Len(got[p]) PROVE n < Len(got[p])
        BY <3>2
      <4> QED BY <3>1, <4>1 DEF InboxFrom
    <3> QED BY <3>5, <3>6
  <2> QED BY <2>2 DEF ReceivesWhatItExpects, expected
<1> QED BY <1>1, CoordInvariant, PTL

\* When the coordinator is through, it has read both structs of everybody alive
\* and at most the first of a party that died before it sent the second; what it
\* read is what it took it for, and only padding is left (the last loop of
\* runMPPSI against runAndLog).
THEOREM ResultsComplete == Spec => []ResultsOfTheLiving
<1>1. CoordInv => ResultsOfTheLiving
  <2> SUFFICES ASSUME CoordInv, loop = "done", NEW p \in Party
               PROVE  /\ state[p] # "dead" => results[p] = <<"result", "sending">>
                      /\ \/ results[p] \in {<<>>, <<"result">>} /\ toServer[p] = <<>>
                         \/ results[p] = <<"result", "sending">> /\ toServer[p] = <<"padding">>
    BY DEF ResultsOfTheLiving
  <2>1. ReadFrom(p) = 4 /\ ResultOfInv(p)
    BY DEF ReadFrom, CoordInv
  <2> QED BY <2>1 DEF ResultOfInv
<1> QED BY <1>1, CoordInvariant, PTL

\* Without a death nobody begins to compute before everybody is there with its
\* input and its connections (the loops "sync" and "go" of runMPPSI, after
\* connectToAllParties).
THEOREM RunTogether == Spec => []RunsTogether
<1>1. CoordInv /\ MeshInv => RunsTogether
  <2> SUFFICES ASSUME CoordInv, MeshInv, \A p \in Party : state[p] # "dead",
                      NEW p \in Party, NEW q \in Party, state[p] \in Released
               PROVE  /\ state[q] \in Released \cup {"go"}
                      /\ p < q => Len(attached[q][p]) = threads[q]
    BY DEF RunsTogether
  <2>1. loop # "died"
    BY DEF CoordInv, LinkInv
  <2>2. loop \in {"go", "results", "done"}
    <3>1. PICK n \in 0 .. Len(got[p]) : InboxFrom(p, n)
      BY DEF CoordInv, Inbox
    <3>2. Len(got[p]) = Told
      BY DEF CoordInv, Inbox, Heard, Released
    <3>3. Len(toParty[p]) \in Nat /\ Told \in {3, 4}
      BY SMTT(30), PlacesType DEF CoordInv, CoordType
    <3>4. n = Told /\ n + Len(toParty[p]) = SentTo(p)
      BY <2>1, <3>1, <3>2, <3>3 DEF InboxFrom
    <3>5. SentTo(p) >= Told
      BY <3>3, <3>4
    <3>6. loop \in Loop /\ (~strategic => loop # "strategy")
      BY DEF CoordInv, CoordType, LinkInv
    <3> QED BY <2>1, <3>5, <3>6 DEF SentTo, Told, Loop
  <2>3. state[q] \in Released \cup {"go"}
    <3>1. ReadFrom(q) >= 2
      BY <2>2 DEF ReadFrom
    <3>2. ReadFrom(q) + Len(toServer[q]) = Said(q) /\ Len(toServer[q]) \in Nat
      BY <2>1 DEF CoordInv, CoordType, Outbox
    <3>3. ReadFrom(q) \in 0 .. 4 /\ Said(q) \in 0 .. 5
      BY PlacesType DEF CoordInv
    <3>4. Said(q) >= 2
      BY <3>1, <3>2, <3>3
    <3>5. state[q] \in PartyState
      BY DEF CoordInv, CoordType
    <3> QED BY <3>4, <3>5 DEF Said, PartyState, Released
  <2>4. ASSUME p < q PROVE Len(attached[q][p]) = threads[q]
    <3>1. peer[q] = N + 1
      BY <2>3 DEF CoordInv, LinkInv, Released
    <3>2. p \in Int /\ p <= N /\ N \in Int
      BY LaunchSizes DEF Party
    <3>3. Covered(q, p) = threads[q]
      BY <3>1, <3>2 DEF Covered
    <3> QED BY <2>4, <3>3 DEF MeshInv, Accepts
  <2> QED BY <2>3, <2>4
<1> QED BY <1>1, CoordInvariant, PTL
=============================================================================
