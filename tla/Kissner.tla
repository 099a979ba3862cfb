------------------------------ MODULE Kissner ------------------------------
(***************************************************************************)
(* The protocol of KissnerParty over threshold Paillier (KISSNER_MPSI):    *)
(* the leader's parameters, the sharing of the key, every party's          *)
(* encrypted polynomial to the parties above it, the sum of the blinded    *)
(* polynomials around the ring, and its joint decryption, coefficient by   *)
(* coefficient.                                                            *)
(*                                                                         *)
(* A connection holds capacity numbers, as many as the buffers the kernel  *)
(* gives it; CSocket::Send blocks when they are full.  A ciphertext is the *)
(* set of the blinded polynomials it is the sum of: <<p, i>> is the        *)
(* polynomial of party i times the random polynomial party p drew for it.  *)
(* The arithmetic of Paillier is left out.                                 *)
(***************************************************************************)
EXTENDS Integers, Sequences, FiniteSets

CONSTANTS N,         (* numofparties                                       *)
          Leader,    (* leaderid                                           *)
          SetSize,   (* m_setSize                                          *)
          Capacities (* what a connection may hold                         *)

Party == 1 .. N

ASSUME KissnerSizes == /\ N \in Nat /\ N >= 2 /\ Leader \in Party
                       /\ SetSize \in Nat \ {0} /\ Capacities \subseteq Nat \ {0}

VARIABLES
  capacity,   (* numbers that fit into one connection, the same all along  *)
  chan,       (* chan[p][q]: numbers in flight from p to q                 *)
  phase,      (* where KissnerParty::run is                                *)
  turn,       (* position of its loop over the other parties               *)
  coef,       (* position of its loop over the coefficients                *)
  share,      (* parties whose value is in m_share                         *)
  polys,      (* <<i, c>>: coefficient c of party i's polynomial is here   *)
  ring,       (* the coefficients received from the previous party         *)
  keys,       (* parties whose pubKey the leader has                       *)
  answers,    (* decs of the current ciphertext                            *)
  decrypted   (* decryptedPoly                                             *)

kVars == <<capacity, chan, phase, turn, coef, share, polys, ring, keys, answers, decrypted>>

Number(kind, c, body) == [kind |-> kind, coef |-> c, body |-> body]

Init ==
  /\ capacity \in Capacities
  /\ chan = [p \in Party |-> [q \in Party |-> <<>>]]
  /\ phase = [p \in Party |-> "params"]
  /\ turn = [p \in Party |-> 1]
  /\ coef = [p \in Party |-> 0]
  /\ share = [p \in Party |-> {p}]
  /\ polys = [p \in Party |-> {<<p, c>> : c \in 0 .. SetSize}]
  /\ ring = [p \in Party |-> <<>>]
  /\ keys = {Leader}
  /\ answers = {}
  /\ decrypted = <<>>

-----------------------------------------------------------------------------
\* The i-th party of a loop over m_parties.
Other(p, i) == IF i < p THEN i ELSE i + 1
\* The i-th party of the two loops of makeSharedPolynomial: p+1, ..., N to
\* send to, then 1, ..., p-1 to receive from.
Cyclic(p, i) == ((p + i - 1) % N) + 1
Previous(p) == IF p = 1 THEN N ELSE p - 1
Following(p) == (p % N) + 1

Send(p, q, m) ==
  /\ Len(chan[p][q]) < capacity
  /\ chan' = [chan EXCEPT ![p][q] = Append(@, m)]

\* Receive waits for a number of the peer and takes it.
Receive(p, q) ==
  /\ chan[q][p] # <<>>
  /\ chan' = [chan EXCEPT ![q][p] = Tail(@)]

Incoming(p, q) == Head(chan[q][p])

\* The loop over the other parties goes on, or the next phase starts.
NextTurn(p, after) ==
  /\ turn' = [turn EXCEPT ![p] = IF @ = N - 1 THEN 1 ELSE @ + 1]
  /\ phase' = [phase EXCEPT ![p] = IF turn[p] = N - 1 THEN after ELSE @]

\* The loop over the coefficients 0, ..., last goes on, or the next phase starts.
NextCoef(p, last, after) ==
  /\ coef' = [coef EXCEPT ![p] = IF @ = last THEN 0 ELSE @ + 1]
  /\ phase' = [phase EXCEPT ![p] = IF coef[p] = last THEN after ELSE @]

-----------------------------------------------------------------------------
(***************************************************************************)
(* PaillierParty::initPaiilier and secretShare.  The four numbers of the   *)
(* parameters are one here.                                                *)
(***************************************************************************)

\* Variant: secretShare receives before it sends.
SharingStart_Receives == "shareReceive"
SharingStart == "shareSend"

Params(p) ==
  /\ phase[p] = "params"
  /\ IF p = Leader
     THEN Send(p, Other(p, turn[p]), Number("params", 0, {})) /\ NextTurn(p, SharingStart)
     ELSE /\ Receive(p, Leader)
          /\ phase' = [phase EXCEPT ![p] = SharingStart]
          /\ UNCHANGED turn
  /\ UNCHANGED <<capacity, coef, share, polys, ring, keys, answers, decrypted>>

ShareSend(p) ==
  /\ phase[p] = "shareSend"
  /\ Send(p, Other(p, turn[p]), Number("share", 0, {p}))
  /\ NextTurn(p, "shareReceive")
  /\ UNCHANGED <<capacity, coef, share, polys, ring, keys, answers, decrypted>>

\* Variant: the sum is not carried from one value to the next.
ShareReceive_NoSum(p) ==
  /\ phase[p] = "shareReceive"
  /\ Receive(p, Other(p, turn[p]))
  /\ share' = [share EXCEPT ![p] = {p} \cup Incoming(p, Other(p, turn[p])).body]
  /\ NextTurn(p, "poly")
  /\ UNCHANGED <<capacity, coef, polys, ring, keys, answers, decrypted>>

ShareReceive(p) ==
  /\ phase[p] = "shareReceive"
  /\ Receive(p, Other(p, turn[p]))
  /\ share' = [share EXCEPT ![p] = @ \cup Incoming(p, Other(p, turn[p])).body]
  /\ NextTurn(p, "poly")
  /\ UNCHANGED <<capacity, coef, polys, ring, keys, answers, decrypted>>

-----------------------------------------------------------------------------
(***************************************************************************)
(* KissnerParty::makeSharedPolynomial.                                     *)
(***************************************************************************)

\* Variant: the leader waits for the ring as the followers do.
AfterPoly_Waits(p) == "ringReceive"
AfterPoly(p) == IF p = Leader THEN "ringSend" ELSE "ringReceive"

\* One coefficient of one iteration of either loop.
Poly(p) ==
  /\ phase[p] = "poly"
  /\ LET q == Cyclic(p, turn[p])
     IN  IF q > p
         THEN Send(p, q, Number("poly", coef[p], {p})) /\ UNCHANGED polys
         ELSE /\ Receive(p, q)
              /\ polys' = [polys EXCEPT ![p] = @ \cup {<<q, Incoming(p, q).coef>>}]
  /\ coef' = [coef EXCEPT ![p] = IF @ = SetSize THEN 0 ELSE @ + 1]
  /\ IF coef[p] = SetSize THEN NextTurn(p, AfterPoly(p)) ELSE UNCHANGED <<turn, phase>>
  /\ UNCHANGED <<capacity, share, ring, keys, answers, decrypted>>

\* sumPoly: the polynomials it has, each blinded by a random polynomial.
Shared(p) == {<<p, i>> : i \in {j \in Party : {<<j, c>> : c \in 0 .. SetSize} \subseteq polys[p]}}

-----------------------------------------------------------------------------
(***************************************************************************)
(* makeDecryptedPolynomialAsLeader and makeDecryptedPolynomialAsFollower.  *)
(***************************************************************************)
Degree == 2 * SetSize

\* Variant: a follower passes on what it received.
RingCoef_NotAdded(p) == IF p = Leader THEN Shared(p) ELSE ring[p][coef[p] + 1]

\* addEncPolys, for the coefficient to be sent.
RingCoef(p) == IF p = Leader THEN Shared(p) ELSE ring[p][coef[p] + 1] \cup Shared(p)

\* Variant: the public key is sent before the last coefficient.
RingSend_KeyEarly(p) ==
  /\ phase[p] = "ringSend"
  /\ Send(p, Following(p), IF coef[p] = Degree - 1 /\ p # Leader THEN Number("key", 0, {p})
                           ELSE Number("ring", coef[p], RingCoef(p)))
  /\ NextCoef(p, Degree, IF p = Leader THEN "ringReceive" ELSE "key")
  /\ UNCHANGED <<capacity, turn, share, polys, ring, keys, answers, decrypted>>

RingSend(p) ==
  /\ phase[p] = "ringSend"
  /\ Send(p, Following(p), Number("ring", coef[p], RingCoef(p)))
  /\ NextCoef(p, Degree, IF p = Leader THEN "ringReceive" ELSE "key")
  /\ UNCHANGED <<capacity, turn, share, polys, ring, keys, answers, decrypted>>

RingReceive(p) ==
  /\ phase[p] = "ringReceive"
  /\ Receive(p, Previous(p))
  /\ ring' = [ring EXCEPT ![p] = Append(@, Incoming(p, Previous(p)).body)]
  /\ NextCoef(p, Degree, IF p = Leader THEN "keys" ELSE "ringSend")
  /\ UNCHANGED <<capacity, turn, share, polys, keys, answers, decrypted>>

\* A follower's public key.
KeySend(p) ==
  /\ phase[p] = "key"
  /\ Send(p, Leader, Number("key", 0, {p}))
  /\ phase' = [phase EXCEPT ![p] = "cipher"]
  /\ UNCHANGED <<capacity, turn, coef, share, polys, ring, keys, answers, decrypted>>

KeysReceive ==
  /\ phase[Leader] = "keys"
  /\ Receive(Leader, Other(Leader, turn[Leader]))
  /\ keys' = keys \cup Incoming(Leader, Other(Leader, turn[Leader])).body
  /\ NextTurn(Leader, "ask")
  /\ UNCHANGED <<capacity, coef, share, polys, ring, answers, decrypted>>

\* The leader sends one coefficient of finalPoly to every follower.
Ask ==
  /\ phase[Leader] = "ask"
  /\ Send(Leader, Other(Leader, turn[Leader]),
          Number("cipher", coef[Leader], ring[Leader][coef[Leader] + 1]))
  /\ answers' = {[party |-> Leader, coef |-> coef[Leader]]}
  /\ NextTurn(Leader, "collect")
  /\ UNCHANGED <<capacity, coef, share, polys, ring, keys, decrypted>>

\* Variant: the answer of the first follower is enough.
Collect_First ==
  /\ phase[Leader] = "collect"
  /\ LET q == Other(Leader, turn[Leader])
     IN  /\ Receive(Leader, q)
         /\ answers' = answers \cup {[party |-> q, coef |-> Incoming(Leader, q).coef]}
  /\ turn' = [turn EXCEPT ![Leader] = (@ % (N - 1)) + 1]
  /\ decrypted' = Append(decrypted, answers')
  /\ NextCoef(Leader, Degree, "done")
  /\ UNCHANGED <<capacity, share, polys, ring, keys>>

\* The leader receives one partial decryption; the last one completes decs.
Collect ==
  /\ phase[Leader] = "collect"
  /\ LET q == Other(Leader, turn[Leader])
     IN  /\ Receive(Leader, q)
         /\ answers' = answers \cup {[party |-> q, coef |-> Incoming(Leader, q).coef]}
  /\ IF turn[Leader] < N - 1
     THEN /\ turn' = [turn EXCEPT ![Leader] = @ + 1]
          /\ UNCHANGED <<coef, phase, decrypted>>
     ELSE /\ turn' = [turn EXCEPT ![Leader] = 1]
          /\ decrypted' = Append(decrypted, answers')
          /\ coef' = [coef EXCEPT ![Leader] = @ + 1]
          /\ phase' = [phase EXCEPT ![Leader] = IF coef[Leader] = Degree THEN "done" ELSE "ask"]
  /\ UNCHANGED <<capacity, share, polys, ring, keys>>

\* A follower receives a ciphertext ...
Cipher(p) ==
  /\ phase[p] = "cipher"
  /\ Receive(p, Leader)
  /\ coef' = [coef EXCEPT ![p] = Incoming(p, Leader).coef]
  /\ phase' = [phase EXCEPT ![p] = "decrypt"]
  /\ UNCHANGED <<capacity, turn, share, polys, ring, keys, answers, decrypted>>

\* ... and answers with its partial decryption.
Decrypt(p) ==
  /\ phase[p] = "decrypt"
  /\ Send(p, Leader, Number("answer", coef[p], {p}))
  /\ phase' = [phase EXCEPT ![p] = IF coef[p] = Degree THEN "done" ELSE "cipher"]
  /\ UNCHANGED <<capacity, turn, coef, share, polys, ring, keys, answers, decrypted>>

FollowerStep(p) == p # Leader /\ (KeySend(p) \/ Cipher(p) \/ Decrypt(p))

LeaderStep(p) == p = Leader /\ (KeysReceive \/ Ask \/ Collect)

Step(p) == \/ Params(p) \/ ShareSend(p) \/ ShareReceive(p) \/ Poly(p)
           \/ RingSend(p) \/ RingReceive(p) \/ FollowerStep(p) \/ LeaderStep(p)

Next == \E p \in Party : Step(p)

Spec == Init /\ [][Next]_kVars

\* Every party is one sequential process that runs until it blocks or ends.
FairSpec == Spec /\ \A p \in Party : WF_kVars(Step(p))

-----------------------------------------------------------------------------
(***************************************************************************)
(* Properties.                                                             *)
(***************************************************************************)

\* Whoever receives a number from a peer, and which kind it takes it for.
Expected(p) ==
  CASE phase[p] = "params" /\ p # Leader -> <<Leader, "params">>
    [] phase[p] = "shareReceive" -> <<Other(p, turn[p]), "share">>
    [] phase[p] = "poly" /\ Cyclic(p, turn[p]) < p -> <<Cyclic(p, turn[p]), "poly">>
    [] phase[p] = "ringReceive" -> <<Previous(p), "ring">>
    [] phase[p] = "keys" -> <<Other(p, turn[p]), "key">>
    [] phase[p] = "collect" -> <<Other(p, turn[p]), "answer">>
    [] phase[p] = "cipher" -> <<Leader, "cipher">>
    [] OTHER -> <<p, "none">>

\* A number is never taken for another: nothing but its place in the stream
\* says what it is (receiveZZFrom reads a length and bytes), and the leader is
\* the next party of the last follower and its decryptor on one connection.
ReadsWhatWasMeant ==
  \A p \in Party :
    LET q == Expected(p)[1]
    IN  chan[q][p] # <<>> => /\ Incoming(p, q).kind = Expected(p)[2]
                             /\ phase[p] \in {"poly", "ringReceive", "collect"} =>
                                  Incoming(p, q).coef = coef[p]

\* Every coefficient the leader has decrypted is the sum over all the parties,
\* each of which blinded its own polynomial and all those below it: a root is
\* common exactly when it is a root of every one of them.
RingSumsEverything ==
  phase[Leader] \in {"keys", "ask", "collect", "done"} =>
    /\ Len(ring[Leader]) = Degree + 1
    /\ \A c \in DOMAIN ring[Leader] : ring[Leader][c] = {s \in Party \X Party : s[2] <= s[1]}

\* decrypt combines one partial decryption of every party, all of the same
\* ciphertext, in the order of the coefficients, and all made with a share that
\* has everybody's value, under the sum of all public keys (PaillierParty.cpp:
\* 126-134, 152-162): one that is missing or twice there gives a wrong number.
DecryptedByEveryone ==
  /\ \A c \in DOMAIN decrypted :
       decrypted[c] = {[party |-> p, coef |-> c - 1] : p \in Party}
  /\ decrypted # <<>> => keys = Party /\ \A p \in Party : share[p] = Party

\* Everybody gets through the protocol, if a connection holds a whole polynomial.
EveryoneEnds == capacity > SetSize => <>(\A p \in Party : phase[p] = "done")

\* What p is blocked on, when it is in a loop of makeSharedPolynomial.
SendsInto(p, q) == /\ phase[p] = "poly" /\ q = Cyclic(p, turn[p]) /\ q > p
                   /\ Len(chan[p][q]) = capacity
WaitsFor(p, q) == /\ phase[p] = "poly" /\ q = Cyclic(p, turn[p]) /\ q < p
                  /\ chan[q][p] = <<>>

\* However little a connection holds, the only way to block for ever is the
\* circle of makeSharedPolynomial: every party from p up to the one before r has
\* filled its connection to the next, and r receives from p first.
StuckOnlyInPoly ==
  ~ ENABLED Next =>
    \/ \A p \in Party : phase[p] = "done"
    \/ \E p, r \in Party : /\ WaitsFor(r, p)
                           /\ \A k \in p .. r - 1 : SendsInto(k, k + 1)
=============================================================================
