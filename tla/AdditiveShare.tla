--------------------------- MODULE AdditiveShare ---------------------------
(***************************************************************************)
(* PsiParty::additiveSecretShare: every pair of parties shares one random  *)
(* seed, and a party's secret share is the XOR of the PRG expansions of    *)
(* all its seeds.                                                          *)
(*                                                                         *)
(* A value is the set of the independent random strings it is the XOR of,  *)
(* so XOR is symmetric difference and the value is zero exactly when the   *)
(* set is empty.  The string expanded from the seed party i draws for      *)
(* party j is <<i, j>>.                                                    *)
(*                                                                         *)
(* A party may die.  Its peers then read what it sent before, and after    *)
(* that CSocket::Receive returns 0 and leaves the buffer as new[] made it; *)
(* additiveSecretShare does not look at the result.                        *)
(***************************************************************************)
EXTENDS Integers, Sequences, FiniteSets

CONSTANTS N,          (* numofparties                                      *)
          MaxCrashes  (* bound on the number of parties that die           *)

ASSUME PartiesAssumption == N \in Nat /\ N >= 2 /\ MaxCrashes \in Nat

Party == 1 .. N

VARIABLES
  chan,      (* chan[i][j]: the bytes in flight from party i to party j    *)
  sendTo,    (* the i of the sending loop of each party                    *)
  recvFrom,  (* the i of its receiving loop                                *)
  acc,       (* XOR of the strings of the seeds in its vector shares       *)
  share,     (* m_secretShare                                              *)
  expanded,  (* parties that returned from additiveSecretShare             *)
  crashed    (* parties whose process is gone                              *)

shareVars == <<chan, sendTo, recvFrom, acc, share, expanded, crashed>>

Xor(v, w) == (v \ w) \cup (w \ v)

Seed == {s \in Party \X Party : s[1] < s[2]}

\* What party p finds in the buffer of a seed that a lower party i never sent:
\* the pair backwards.
Uninit(i, p) == <<p, i>>

Strings == {s \in Party \X Party : s[1] # s[2]}

Init ==
  /\ chan = [i \in Party |-> [j \in Party |-> <<>>]]
  /\ sendTo = [p \in Party |-> p + 1]
  /\ recvFrom = [p \in Party |-> 1]
  /\ acc = [p \in Party |-> {}]
  /\ share = [p \in Party |-> {}]
  /\ expanded = {}
  /\ crashed = {}

-----------------------------------------------------------------------------
Alive(p) == p \notin crashed

\* Variant: one seed, drawn before the loop, goes to every other party.
SendSeed_SameForAll(p) ==
  /\ Alive(p)
  /\ sendTo[p] <= N
  /\ LET q == sendTo[p]
         seed == <<p, N>>
     IN  /\ chan' = [chan EXCEPT ![p][q] = Append(@, seed)]
         /\ acc' = [acc EXCEPT ![p] = Xor(@, {seed})]
  /\ sendTo' = [sendTo EXCEPT ![p] = @ + 1]
  /\ UNCHANGED <<recvFrom, share, expanded, crashed>>

\* One iteration of the first loop: a fresh seed for the next higher party.
SendSeed(p) ==
  /\ Alive(p)
  /\ sendTo[p] <= N
  /\ LET q == sendTo[p]
         seed == <<p, q>>
     IN  /\ chan' = [chan EXCEPT ![p][q] = Append(@, seed)]
         /\ acc' = [acc EXCEPT ![p] = Xor(@, {seed})]
  /\ sendTo' = [sendTo EXCEPT ![p] = @ + 1]
  /\ UNCHANGED <<recvFrom, share, expanded, crashed>>

\* The second loop starts when the first is over.
Receiving(p) == sendTo[p] = N + 1 /\ recvFrom[p] < p

\* Variant: the buffer is kept even when the sender is only late.
ReceiveSeed_NoWait(p) ==
  /\ Alive(p)
  /\ Receiving(p)
  /\ LET q == recvFrom[p]
     IN  IF chan[q][p] # <<>>
         THEN /\ chan' = [chan EXCEPT ![q][p] = Tail(@)]
              /\ acc' = [acc EXCEPT ![p] = Xor(@, {Head(chan[q][p])})]
         ELSE /\ acc' = [acc EXCEPT ![p] = Xor(@, {Uninit(q, p)})]
              /\ UNCHANGED chan
  /\ recvFrom' = [recvFrom EXCEPT ![p] = @ + 1]
  /\ UNCHANGED <<sendTo, share, expanded, crashed>>

\* Variant: an iteration waits for a sender that is gone.
ReceiveSeed_Blocks(p) ==
  /\ Alive(p)
  /\ Receiving(p)
  /\ LET q == recvFrom[p]
     IN  /\ chan[q][p] # <<>>
         /\ chan' = [chan EXCEPT ![q][p] = Tail(@)]
         /\ acc' = [acc EXCEPT ![p] = Xor(@, {Head(chan[q][p])})]
  /\ recvFrom' = [recvFrom EXCEPT ![p] = @ + 1]
  /\ UNCHANGED <<sendTo, share, expanded, crashed>>

\* One iteration of the second loop.  Receive waits for the seed, and
\* returns without one only when the sender has closed the connection.
ReceiveSeed(p) ==
  /\ Alive(p)
  /\ Receiving(p)
  /\ LET q == recvFrom[p]
     IN  \/ /\ chan[q][p] # <<>>
            /\ chan' = [chan EXCEPT ![q][p] = Tail(@)]
            /\ acc' = [acc EXCEPT ![p] = Xor(@, {Head(chan[q][p])})]
         \/ /\ chan[q][p] = <<>>
            /\ q \in crashed
            /\ acc' = [acc EXCEPT ![p] = Xor(@, {Uninit(q, p)})]
            /\ UNCHANGED chan
  /\ recvFrom' = [recvFrom EXCEPT ![p] = @ + 1]
  /\ UNCHANGED <<sendTo, share, expanded, crashed>>

\* Variant: the expansion starts after the sending loop.
Expand_Early(p) ==
  /\ Alive(p)
  /\ p \notin expanded
  /\ sendTo[p] = N + 1
  /\ share' = [share EXCEPT ![p] = acc[p]]
  /\ expanded' = expanded \cup {p}
  /\ UNCHANGED <<chan, sendTo, recvFrom, acc, crashed>>

\* Both loops are over: the strings are XORed into a zeroed m_secretShare.
Expand(p) ==
  /\ Alive(p)
  /\ p \notin expanded
  /\ sendTo[p] = N + 1
  /\ recvFrom[p] = p
  /\ share' = [share EXCEPT ![p] = acc[p]]
  /\ expanded' = expanded \cup {p}
  /\ UNCHANGED <<chan, sendTo, recvFrom, acc, crashed>>

\* A process dies while it is in additiveSecretShare.
Crash(p) ==
  /\ Alive(p)
  /\ p \notin expanded
  /\ Cardinality(crashed) < MaxCrashes
  /\ crashed' = crashed \cup {p}
  /\ UNCHANGED <<chan, sendTo, recvFrom, acc, share, expanded>>

Step(p) == SendSeed(p) \/ ReceiveSeed(p) \/ Expand(p)

Next == \E p \in Party : Step(p) \/ Crash(p)

Spec == Init /\ [][Next]_shareVars

\* Every party is one sequential process that runs until it returns or dies.
FairSpec == Spec /\ \A p \in Party : WF_shareVars(Step(p))

-----------------------------------------------------------------------------
(***************************************************************************)
(* Properties.                                                             *)
(***************************************************************************)

\* Every variable stays in its range; a channel holds at most the one seed.
TypeOK ==
  /\ chan \in [Party -> [Party -> {<<>>} \cup {<<s>> : s \in Seed}]]
  /\ sendTo \in [Party -> 2 .. N + 1]
  /\ recvFrom \in [Party -> 1 .. N]
  /\ acc \in [Party -> SUBSET (Strings)]
  /\ share \in [Party -> SUBSET (Strings)]
  /\ expanded \subseteq Party
  /\ crashed \subseteq Party

\* The number of parties of S whose share has the string a in it.
Holders(S, a) == {p \in S : a \in share[p]}

\* The shares of the parties in S XOR to zero.
Cancels(S) == \A a \in Strings : Cardinality(Holders(S, a)) % 2 = 0

\* Once every party has its share the shares XOR to zero: the leader's check
\* (NaiveLeader.cpp:31-39) relies on it for every element in all the sets.
SharesCancel ==
  expanded = Party /\ crashed = {} => Cancels(Party)

\* The shares of some of the parties never XOR to zero: a follower whose
\* element differs cannot be compensated by leaving its share out.
NoSubsetCancels ==
  expanded = Party /\ crashed = {} =>
    \A S \in SUBSET Party : S # {} /\ S # Party => ~Cancels(S)

\* A share is built from a buffer nobody filled only when the party that
\* should have filled it died: a late seed is waited for (socket.h:206-251).
GarbageOnlyFromDead ==
  \A i, p \in Party : i < p /\ Uninit(i, p) \in share[p] => i \in crashed

\* The two ends of a pair hold the same seed as soon as both are done, even
\* when a third party died half way through its own loop.
PairsAgree ==
  \A i, j \in expanded : i < j => <<i, j>> \in share[i] /\ <<i, j>> \in share[j]

\* No party waits for ever, whoever dies.
EveryPartyReturns == \A p \in Party : <>(p \in expanded \/ p \in crashed)
=============================================================================
