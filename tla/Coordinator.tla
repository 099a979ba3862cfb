---------------------------- MODULE Coordinator ----------------------------
(***************************************************************************)
(* The coordinator of an experiment (runMPPSI of runner.py) and what the   *)
(* parties exchange with it: BaseMPSIParty's constructor and syncronize,   *)
(* PsiParty's constructor, runAndLog and main.  The coordinator accepts    *)
(* the parties in any order, then goes through them by id: elements, seed, *)
(* strategy, one byte from everybody, one byte to everybody, the results.  *)
(* A party sends two structs of 16 bytes as its results; the coordinator   *)
(* reads 16 bytes and then 12, so the padding of the second one stays.     *)
(*                                                                         *)
(* A party in MayDie can die at any point, and its death can take others   *)
(* along that compute with it.  A dead party's socket first gives the      *)
(* coordinator what it had sent, then an end of file or an error; an error *)
(* outside of the last loop, and an id that is not there, end the          *)
(* coordinator.  A party whose coordinator has gone receives nothing from  *)
(* there on and does not notice: CSocket::Receive returns 0.               *)
(*                                                                         *)
(* Launch composes these actions with the Mesh's.                          *)
(***************************************************************************)
EXTENDS Integers, Sequences

CONSTANTS N,         (* numofparties                                       *)
          MayDie     (* the parties that may die                           *)

Party == 1 .. N

VARIABLES
  strategic, (* runMPPSI is given a strategy: OT_MPSI, not KISSNER_MPSI    *)
  loop,      (* the loop of runMPPSI, "done", or "died"                    *)
  index,     (* the party the loop is at                                   *)
  connected, (* the parties that have a connection to the coordinator      *)
  accepted,  (* the parties whose id has been read                         *)
  state,     (* the step each party is at, "exited" or "dead"              *)
  toParty,   (* what the coordinator has sent and the party not read       *)
  toServer,  (* what the party has sent and the coordinator not read       *)
  got,       (* what each of the party's Receives returned                 *)
  results    (* what the last loop has read from each party; finalResults  *)
             (* has the parties from which it has read both structs        *)

\* Variants: the seed comes first; the strategy is never sent.
Loops_SeedFirst == <<"seed", "elements", "strategy", "sync", "go", "results">>
\* The loops of runMPPSI over the parties, after the one that accepts them.
Loops == IF strategic THEN <<"elements", "seed", "strategy", "sync", "go", "results">>
         ELSE <<"elements", "seed", "sync", "go", "results">>

\* The steps of a party and, for those that receive, what is to arrive.
Steps == IF strategic
         THEN <<"connect", "id", "elements", "seed", "strategy", "sync", "go", "run",
                "result", "sending", "exited">>
         ELSE <<"connect", "id", "elements", "seed", "sync", "go", "run",
                "result", "sending", "exited">>
Receiving == {"elements", "seed", "strategy", "go"}
Sending == {"id", "sync", "result", "sending"}

\* What a party writes to its socket: the id, a byte, a BaseMPSIResult, and a
\* SendingInfo, whose last four bytes are padding.
Bytes(what) == IF what = "sending" THEN <<"sending", "padding">> ELSE <<what>>

After(seq, x) == seq[(CHOOSE i \in DOMAIN seq : seq[i] = x) + 1]

Init ==
  /\ strategic \in BOOLEAN
  /\ loop = "accept" /\ index = 1 /\ connected = {} /\ accepted = {}
  /\ state = [p \in Party |-> "connect"]
  /\ toParty = [p \in Party |-> <<>>]
  /\ toServer = [p \in Party |-> <<>>]
  /\ got = [p \in Party |-> <<>>]
  /\ results = [p \in Party |-> <<>>]

Gone(p) == state[p] \in {"exited", "dead"}

-----------------------------------------------------------------------------
(***************************************************************************)
(* The parties.                                                            *)
(***************************************************************************)

\* connect of connectToServer; a failure is printed and nothing else.
PartyConnect(p) ==
  /\ state[p] = "connect"
  /\ connected' = IF loop = "died" THEN connected ELSE connected \cup {p}
  /\ state' = [state EXCEPT ![p] = "id"]
  /\ UNCHANGED <<strategic, loop, index, accepted, toParty, toServer, got, results>>

\* After a send to a coordinator that has gone the next one raises SIGPIPE.
Sent(p, next) ==
  \/ state' = [state EXCEPT ![p] = next]
  \/ loop = "died" /\ state' = [state EXCEPT ![p] = "dead"]

Say(p, what) == toServer' = [toServer EXCEPT ![p] = @ \o Bytes(what)]

\* connectToServer sends the id, syncronize a byte, runAndLog the two structs.
PartySend(p) ==
  /\ state[p] \in Sending
  /\ Say(p, state[p])
  /\ Sent(p, After(Steps, state[p]))
  /\ UNCHANGED <<strategic, loop, index, connected, accepted, toParty, got, results>>

PartyReceive(p) ==
  /\ state[p] \in Receiving
  /\ \/ /\ toParty[p] # <<>>
        /\ got' = [got EXCEPT ![p] = Append(@, Head(toParty[p]))]
        /\ toParty' = [toParty EXCEPT ![p] = Tail(@)]
     \/ /\ toParty[p] = <<>> /\ loop = "died"
        /\ got' = [got EXCEPT ![p] = Append(@, "nothing")]
        /\ UNCHANGED toParty
  /\ state' = [state EXCEPT ![p] = After(Steps, @)]
  /\ UNCHANGED <<strategic, loop, index, connected, accepted, toServer, results>>

\* run returns.  With a party that has died it may end with a signal instead:
\* SIGPIPE from a socket nobody holds the other end of, or an error from the
\* memory that a Receive has left as it was.
PartyRun(p) ==
  /\ state[p] = "run"
  /\ \/ state' = [state EXCEPT ![p] = After(Steps, "run")]
     \/ /\ \E q \in Party : state[q] = "dead"
        /\ state' = [state EXCEPT ![p] = "dead"]
  /\ UNCHANGED <<strategic, loop, index, connected, accepted, toParty, toServer, got, results>>

Die(p) ==
  /\ p \in MayDie /\ ~Gone(p)
  /\ state' = [state EXCEPT ![p] = "dead"]
  /\ UNCHANGED <<strategic, loop, index, connected, accepted, toParty, toServer, got, results>>

-----------------------------------------------------------------------------
(***************************************************************************)
(* runMPPSI.                                                               *)
(***************************************************************************)
NextIndex == IF index < N
             THEN index' = index + 1 /\ UNCHANGED loop
             ELSE index' = 1 /\ loop' = (IF loop = "results" THEN "done" ELSE After(Loops, loop))

\* An uncaught exception: the process ends, its sockets close.
Crash == loop' = "died" /\ UNCHANGED index

\* The id of the next connection; a party that died after connecting has none.
AcceptParty ==
  /\ loop = "accept"
  /\ \E p \in connected \ accepted :
       \/ /\ toServer[p] # <<>>
          /\ accepted' = accepted \cup {p}
          /\ toServer' = [toServer EXCEPT ![p] = Tail(@)]
          /\ loop' = IF accepted' = Party THEN "elements" ELSE loop
          /\ UNCHANGED index
       \/ /\ state[p] = "dead" /\ toServer[p] = <<>>
          /\ Crash /\ UNCHANGED <<accepted, toServer>>
  /\ UNCHANGED <<strategic, connected, state, toParty, got, results>>

\* One send; to a party that is gone it fails, or is lost.
SendTo ==
  /\ loop \in Receiving
  /\ \/ /\ toParty' = [toParty EXCEPT ![index] = Append(@, loop)]
        /\ NextIndex
     \/ /\ Gone(index)
        /\ Crash /\ UNCHANGED toParty
  /\ UNCHANGED <<strategic, connected, accepted, state, toServer, got, results>>

\* Variant: the coordinator does not wait for the byte.
SyncFrom_NoWait ==
  /\ loop = "sync"
  /\ NextIndex
  /\ toServer' = [toServer EXCEPT ![index] = IF @ = <<>> THEN @ ELSE Tail(@)]
  /\ UNCHANGED <<strategic, connected, accepted, state, toParty, got, results>>

\* One recv(1) of "synchronize"; an end of file passes for the byte.
SyncFrom ==
  /\ loop = "sync"
  /\ \/ /\ toServer[index] # <<>>
        /\ toServer' = [toServer EXCEPT ![index] = Tail(@)]
        /\ NextIndex
     \/ /\ toServer[index] = <<>> /\ Gone(index)
        /\ NextIndex \/ Crash
        /\ UNCHANGED toServer
  /\ UNCHANGED <<strategic, connected, accepted, state, toParty, got, results>>

\* recv(16) or, after it, recv(12): one read each.  An end of file is an
\* exception that is caught: the message that there are no results, and the next
\* party.
ResultOf ==
  /\ loop = "results"
  /\ \/ /\ toServer[index] # <<>>
        /\ results' = [results EXCEPT ![index] = Append(@, Head(toServer[index]))]
        /\ toServer' = [toServer EXCEPT ![index] = Tail(@)]
        /\ IF results[index] = <<>> THEN UNCHANGED <<loop, index>> ELSE NextIndex
     \/ /\ toServer[index] = <<>> /\ Gone(index)
        /\ NextIndex
        /\ UNCHANGED <<toServer, results>>
  /\ UNCHANGED <<strategic, connected, accepted, state, toParty, got>>

CoordinatorStep == AcceptParty \/ SendTo \/ SyncFrom \/ ResultOf

PartyStep(p) == PartyConnect(p) \/ PartySend(p) \/ PartyReceive(p) \/ PartyRun(p)
=============================================================================
