-------------------------------- MODULE Mesh --------------------------------
(***************************************************************************)
(* How the parties connect to each other before they compute anything:     *)
(* MultiPartyPlayer::connectToAllParties with listen and connect of        *)
(* connection.cpp.  Every party goes through the other parties in the      *)
(* order of their ids; it listens for those below it, one after the other, *)
(* and connects to those above it, with m_commThreads sockets each.        *)
(*                                                                         *)
(* A listener's kernel accepts connections as soon as it listens, in a     *)
(* queue of five (CSocket::Listen), and at most four sockets ever connect  *)
(* to one port (MAX_COMM_THREADS): the queue is never full.  Binding,      *)
(* listening and accepting are taken not to fail by themselves.            *)
(*                                                                         *)
(* connect tries RETRY_CONNECT times, for ten seconds and more, while it   *)
(* is refused.  It may or may not run out of tries before the other side   *)
(* listens: the tries are not counted.                                     *)
(*                                                                         *)
(* Launch composes these actions with the Coordinator's.                   *)
(***************************************************************************)
EXTENDS Integers, Sequences

CONSTANTS N,        (* numofparties                                        *)
          Cores     (* the possible numbers of cores of a machine          *)

Party == 1 .. N

VARIABLES
  threads,   (* m_commThreads of each party                                *)
  step,      (* "down", "listen", "accept", "connect", "connected", "ended" *)
  peer,      (* i of the loops of connectToAllParties                      *)
  sock,      (* the next socket of the loop in listen or connect           *)
  open,      (* the ports somebody listens on                              *)
  pending,   (* pending[port]: <<p, j>>, socket j of p, not yet accepted   *)
  attached,  (* attached[q][i]: what q accepted for i, socket by socket    *)
  gaveUp     (* <<p, i, j>>: connect returned false for socket j of p to i *)

\* Variant: one port for all the parties a party listens for.
PortOf_Base(q, i) == <<q, 0>>
\* q's base port plus the id of the party it listens for.
PortOf(q, i) == <<q, i>>

Port == {PortOf(q, i) : q, i \in Party}

\* m_commThreads: as many as the machine has cores, at most MAX_COMM_THREADS.
CommThreads(cores) == IF cores < 4 THEN cores ELSE 4

Init ==
  /\ threads \in [Party -> {CommThreads(c) : c \in Cores}]
  /\ step = [p \in Party |-> "down"]
  /\ peer = [p \in Party |-> 0]
  /\ sock = [p \in Party |-> 1]
  /\ open = {}
  /\ pending = [port \in Port |-> <<>>]
  /\ attached = [p \in Party |-> [i \in Party |-> <<>>]]
  /\ gaveUp = {}

\* Variant: a party connects before it listens.
NextPeer_AboveFirst(p) ==
  LET i == peer[p]
  IN  CASE i = 0 /\ p < N -> p + 1
        [] (i = 0 /\ p = N) \/ (i = N /\ p > 1) -> 1
        [] (i = N /\ p = 1) \/ i + 1 = p -> N + 1
        [] OTHER -> i + 1
\* The party after peer[p] in the two loops of connectToAllParties.
NextPeer(p) == IF peer[p] + 1 = p THEN p + 1 ELSE peer[p] + 1

\* Which of the two loops of connectToAllParties party i belongs to.
LoopOver(p, i) == IF i < p THEN "listen" ELSE "connect"

\* p goes on to the next party of its two loops.
GoOn(p) ==
  LET i == NextPeer(p)
  IN  /\ peer' = [peer EXCEPT ![p] = i]
      /\ step' = [step EXCEPT ![p] = IF i > N THEN "connected" ELSE LoopOver(p, i)]
      /\ sock' = [sock EXCEPT ![p] = 1]

\* p is done with one socket of its current loop.
NextSocket(p) ==
  IF sock[p] = threads[p]
  THEN GoOn(p)
  ELSE sock' = [sock EXCEPT ![p] = @ + 1] /\ UNCHANGED <<step, peer>>

-----------------------------------------------------------------------------
\* The process of party p starts, whenever runner.py or ssh gets it started.
Start(p) ==
  /\ step[p] = "down"
  /\ GoOn(p)
  /\ UNCHANGED <<threads, open, pending, attached, gaveUp>>

\* Socket, Bind and Listen of listen().
Listen(p) ==
  /\ step[p] = "listen"
  /\ open' = open \cup {PortOf(p, peer[p])}
  /\ step' = [step EXCEPT ![p] = "accept"]
  /\ UNCHANGED <<threads, peer, sock, pending, attached, gaveUp>>

\* Variant: the accepted sockets are put from the listening one on (lid is 0),
\* so that the second Accept is on a connected socket and fails.
Accept_First(p) ==
  LET port == PortOf(p, peer[p])
  IN  /\ step[p] = "accept"
      /\ pending[port] # <<>>
      /\ attached' = [attached EXCEPT ![p][peer[p]] = Append(@, Head(pending[port]))]
      /\ pending' = [pending EXCEPT ![port] = Tail(@)]
      /\ GoOn(p)
      /\ UNCHANGED <<threads, open, gaveUp>>

\* One Accept of the loop of listen(); the socket goes where the loop is.  The
\* last one takes the place of the listening socket, which is never closed.
Accept(p) ==
  LET port == PortOf(p, peer[p])
  IN  /\ step[p] = "accept"
      /\ pending[port] # <<>>
      /\ attached' = [attached EXCEPT ![p][peer[p]] = Append(@, Head(pending[port]))]
      /\ pending' = [pending EXCEPT ![port] = Tail(@)]
      /\ NextSocket(p)
      /\ UNCHANGED <<threads, open, gaveUp>>

\* CSocket::Connect succeeds: the other side listens.
Connect(p) ==
  LET port == PortOf(peer[p], p)
  IN  /\ step[p] = "connect"
      /\ port \in open
      /\ pending' = [pending EXCEPT ![port] = Append(@, <<p, sock[p]>>)]
      /\ NextSocket(p)
      /\ UNCHANGED <<threads, open, attached, gaveUp>>

\* connect() was refused RETRY_CONNECT times and returns false, which
\* connectToAllParties does not look at.
GiveUp(p) ==
  /\ step[p] = "connect"
  /\ PortOf(peer[p], p) \notin open
  /\ gaveUp' = gaveUp \cup {<<p, peer[p], sock[p]>>}
  /\ NextSocket(p)
  /\ UNCHANGED <<threads, open, pending, attached>>

\* The process of p ends, by itself or not: nobody listens on its ports any more.
\* What it has connected and nobody accepted yet can still be accepted.
End(p) ==
  /\ step' = [step EXCEPT ![p] = "ended"]
  /\ open' = open \ {PortOf(p, i) : i \in Party}
  /\ UNCHANGED <<threads, peer, sock, pending, attached, gaveUp>>

Step(p) == Start(p) \/ Listen(p) \/ Accept(p) \/ Connect(p)
=============================================================================
