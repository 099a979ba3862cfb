-------------------------- MODULE MCSimpleHashing --------------------------
(***************************************************************************)
(* SimpleHashing with five elements in six bins, hashed by two threads.    *)
(* An element's addresses are one of four triples: all the same, all       *)
(* different, and two that share bins, so that every bin load from none to *)
(* all of the entries occurs, the last bin included.                       *)
(***************************************************************************)
EXTENDS SimpleHashing

ASSUME BinsAsInCode == NumBins = (12 * NumEles + 9) \div 10

Triple(a, b, c) == [j \in HF |-> <<a, b, c>>[j + 1]]
Last == NumBins - 1
MCAddresses == [Ele -> {Triple(0, 0, 0), Triple(0, 1, Last), Triple(Last, 0, 1),
                        Triple(1, 1, Last)}]
MCOneAddress == {[e \in Ele |-> Triple(0, 1, Last)]}
=============================================================================
