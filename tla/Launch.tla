------------------------------- MODULE Launch -------------------------------
(***************************************************************************)
(* An experiment from the start of its processes to their end: the mesh of *)
(* connections between the parties (Mesh) and what the coordinator and the *)
(* parties do (Coordinator), composed.  MultiPartyPlayer's constructor     *)
(* calls connectToAllParties and then connectToServer, so a party turns to *)
(* the coordinator when it is through with the mesh.                       *)
(*                                                                         *)
(* Every party may have a machine with another number of cores, a party in *)
(* MayDie may die anywhere, and connect may run out of tries anywhere.     *)
(*                                                                         *)
(* What a party computes is one step here, but it need not come to an end: *)
(* RunsReturn says when it does, by what Oprg and Kissner show.            *)
(***************************************************************************)
EXTENDS Integers, Sequences, FiniteSets, Functions

CONSTANTS N,       (* numofparties                                         *)
          Cores,   (* the possible numbers of cores of a machine           *)
          MayDie   (* the parties that may die                             *)

Party == 1 .. N

ASSUME LaunchSizes == /\ N \in Nat /\ N >= 2
                      /\ Cores \subseteq Nat \ {0}
                      /\ MayDie \subseteq Party

VARIABLES threads, step, peer, sock, open, pending, attached, gaveUp
meshVars == <<threads, step, peer, sock, open, pending, attached, gaveUp>>
M == INSTANCE Mesh

VARIABLES strategic, loop, index, connected, accepted, state, toParty, toServer, got, results
coordVars == <<strategic, loop, index, connected, accepted, state, toParty, toServer, got, results>>
C == INSTANCE Coordinator

VARIABLE roomy   (* KISSNER_MPSI: a connection holds a whole polynomial     *)

launchVars == <<meshVars, coordVars, roomy>>

Init == M!Init /\ C!Init /\ roomy \in (IF strategic THEN {TRUE} ELSE BOOLEAN)

\* A party in connectToAllParties.
Connecting(p) ==
  /\ ~C!Gone(p)
  /\ M!Step(p)
  /\ UNCHANGED <<coordVars, roomy>>

Refused(p) ==
  /\ ~C!Gone(p)
  /\ M!GiveUp(p)
  /\ UNCHANGED <<coordVars, roomy>>

\* With the process its sockets go.
Alongside(p) == IF C!Gone(p)' THEN M!End(p) ELSE UNCHANGED meshVars

\* A party from connectToServer on.
Computing(p) ==
  /\ step[p] = "connected"
  /\ C!PartyStep(p)
  /\ Alongside(p)
  /\ UNCHANGED roomy

Die(p) == C!Die(p) /\ Alongside(p) /\ UNCHANGED roomy

Coordinating == C!CoordinatorStep /\ UNCHANGED <<meshVars, roomy>>

Next ==
  \/ Coordinating
  \/ \E p \in Party : Connecting(p) \/ Refused(p) \/ Computing(p) \/ Die(p)

Spec == Init /\ [][Next]_launchVars

Leader == 1

\* The leader and a follower divide the OTs between different numbers of threads
\* (PsiParty.cpp:139 and 260): a thread of the follower may wait for a matrix
\* that the leader sends on no socket or on another one, and the leader for the
\* follower's masks, until one of the two is gone.
Unequal ==
  ~C!Gone(Leader) /\ \E q \in Party : ~C!Gone(q) /\ threads[q] # threads[Leader]

\* A party that lives has got, or will get, all that the coordinator has for it:
\* without its strategy it computes something else than the others do.
Informed(p) ==
  {"elements", "seed"} \cup (IF strategic THEN {"strategy"} ELSE {})
    \subseteq Range(got[p] \o toParty[p])

\* run returns, or ends with a signal, at every party that is in it.  With
\* KISSNER_MPSI connections too small for a polynomial can make all parties wait
\* for each other to read (makeSharedPolynomial of KissnerParty).
RunsReturn ==
  /\ \A p \in Party : C!Gone(p) \/ Informed(p)
  /\ IF strategic THEN ~Unequal ELSE roomy

\* Processes run until they block, nobody has to die.  A connect that stays
\* refused does run out of tries.
FairSpec ==
  /\ Spec
  /\ WF_launchVars(Coordinating)
  /\ \A p \in Party : WF_launchVars(\/ Connecting(p) \/ Refused(p)
                                     \/ /\ state[p] = "run" => RunsReturn
                                        /\ Computing(p))

-----------------------------------------------------------------------------
(***************************************************************************)
(* Properties.                                                             *)
(***************************************************************************)

GaveUpOn(p, q) == {g \in gaveUp : g[1] = p /\ g[2] = q}

\* Socket j of one party is linked to socket j of the other, whatever the order
\* in which the processes start: the t-th thread of the OT extension and of the
\* leader's receives uses socket t of its side (ot-extension-1oon-ecc.cpp,
\* Leader.h:79-92).
SocketsMeet ==
  \A q, p \in Party : \A j \in DOMAIN attached[q][p] :
    attached[q][p][j] = <<p, j>> \/ \E k \in 1 .. j : <<p, q, k>> \in gaveUp

\* Nobody gets past listen short of a socket: a connection given up is never
\* made good, and fewer cores on the connecting side are never made up for
\* (MultiPartyPlayer.cpp:27,79-87 look at neither).
ShortOfSockets ==
  \A p, q \in Party :
    p < q /\ threads[p] - Cardinality(GaveUpOn(p, q)) < threads[q] => step[q] # "connected"

\* In accept without a connection to take, or refused by a port nobody listens on.
BlockedOnPeer(p) ==
  \/ step[p] = "accept" /\ pending[<<p, peer[p]>>] = <<>>
  \/ step[p] = "connect" /\ <<peer[p], p>> \notin open

\* No parties wait for each other in a circle: the order of the two loops of
\* connectToAllParties sees to it, whatever was given up and whoever died, and no
\* connect needs to run out of tries to resolve one.
NoCircleOfWaits ==
  \A S \in (SUBSET Party) \ {{}} : \E p \in S : BlockedOnPeer(p) => peer[p] \notin S

Released == {"run", "result", "sending", "exited"}

\* "# synchronize" (runner.py:159): without a death nobody begins to compute, and
\* to measure its time, before everybody has its input and all its connections.
RunsTogether ==
  (\A p \in Party : state[p] # "dead") =>
    \A p, q \in Party : state[p] \in Released =>
      /\ state[q] \in Released \cup {"go"}
      /\ p < q => Len(attached[q][p]) = threads[q]

\* What a party's Receives return is what they are for, in this order, until the
\* coordinator has died; from then on they return nothing.  Nothing in the bytes
\* says whether they are elements, seed, strategy or the release.
ReceivesWhatItExpects ==
  \A p \in Party :
    LET expected == IF strategic THEN <<"elements", "seed", "strategy", "go">>
                    ELSE <<"elements", "seed", "go">>
    IN  \E n \in 0 .. Len(got[p]) :
          /\ \A i \in 1 .. n : got[p][i] = expected[i]
          /\ \A i \in n + 1 .. Len(got[p]) : got[p][i] = "nothing" /\ loop = "died"

\* When it is through, it has read both structs of everybody who is alive, and of
\* a party that died between its two sends only the first; what it read as
\* a struct was that struct, and just the padding of the second one is left
\* (runner.py:168-185 reads 28 of the 32 bytes of BaseMPSIParty.cpp:51-53).
ResultsOfTheLiving ==
  loop = "done" => \A p \in Party :
    /\ state[p] # "dead" => results[p] = <<"result", "sending">>
    /\ \/ results[p] \in {<<>>, <<"result">>} /\ toServer[p] = <<>>
       \/ results[p] = <<"result", "sending">> /\ toServer[p] = <<"padding">>

\* q waits in accept for a socket that p < q will never connect: p has ended, or
\* has been through its connections and gave up on some or has fewer cores.
WaitsInVain(q) ==
  /\ step[q] = "accept"
  /\ LET p == peer[q]
     IN  /\ pending[<<q, p>>] = <<>>
         /\ \/ step[p] = "ended"
            \/ step[p] = "connected" /\ (GaveUpOn(p, q) # {} \/ threads[p] < threads[q])

\* Then those above q, which q does not connect to, may wait as well.
LeftInAccept(p) == step[p] = "accept" /\ \E q \in 2 .. p : WaitsInVain(q)

\* A party that computes and need not come to an end.
StaysInRun(p) == state[p] = "run" /\ ~RunsReturn

=============================================================================
