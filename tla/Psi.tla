-------------------------------- MODULE Psi --------------------------------
(***************************************************************************)
(* What a multi-party PSI run promises: every party brings a set, the      *)
(* leader publishes how many of its elements are in all of them.           *)
(*                                                                         *)
(* An element of the leader may get lost on the way (a failed insertion,   *)
(* a truncated polynomial value); it is then not counted.  Nothing may be  *)
(* counted that is not in the intersection.                                *)
(***************************************************************************)
EXTENDS Integers, FiniteSets

CONSTANTS Party, Leader, Key,
          None           (* no size published yet                          *)

VARIABLES set,           (* set[p]: the elements of party p                *)
          lost,          (* elements the leader lost                       *)
          result         (* the published size, or None                    *)

psiVars == <<set, lost, result>>

Intersection == {k \in Key : \A p \in Party : k \in set[p]}

Init ==
  /\ set \in [Party -> SUBSET Key]
  /\ lost = {}
  /\ result = None

Lose ==
  /\ result = None
  /\ \E some \in SUBSET set[Leader] : lost' = lost \cup some
  /\ UNCHANGED <<set, result>>

Publish ==
  /\ result = None
  /\ result' = Cardinality(Intersection \ lost)
  /\ UNCHANGED <<set, lost>>

Next == Lose \/ Publish

Spec == Init /\ [][Next]_psiVars
=============================================================================
