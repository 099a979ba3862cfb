--------------------------- MODULE MCAlgorithms ---------------------------
(***************************************************************************)
(* hashElement with set sizes that give numbers of bins of all kinds (not  *)
(* a power of two, one, and 256) and elements of 16 to 64 bits: zero, one  *)
(* bit at each boundary, or the number of bins, and either nothing or a    *)
(* one behind them.                                                        *)
(*                                                                         *)
(* Three elements of three hashes each that meet in four slots of the      *)
(* filter (the first element's slots are named in the order they occur).   *)
(*                                                                         *)
(* The systems of two parties with two masks each whose rows are among     *)
(* six, of two parties with one, and of one with two.                      *)
(*                                                                         *)
(* Integers of 12 bits: with 4 parties everything fits, with 5 the square  *)
(* of delta does not, with 6 the Lagrange basis does not.                  *)
(***************************************************************************)
EXTENDS Algorithms

MCHfValue(i, x) == {(k * (i + 1) + 3 * i) % 20 : k \in x}

BitsOf(n) == {k \in 0 .. 20 : (n \div 2 ^ k) % 2 = 1}
InputsOf(setsize, inbitlen) ==
  LET bins == HE!CeilDivide(6 * setsize, 5)
      ends == {0, 1, HE!CeilLog2(bins) - 1, HE!CeilLog2(bins), 15, 31, 32,
               inbitlen - 4, inbitlen - 3, inbitlen - 2, inbitlen - 1}
      elements == {{}, BitsOf(bins)} \cup {{k} : k \in ends \cap (0 .. inbitlen - 1)}
  IN  {[hs |-> [setsize |-> setsize, inbitlen |-> inbitlen],
        eleptr |-> [s \in HE!Side |-> IF s = "leader" THEN x ELSE y],
        behind |-> [s \in HE!Side |-> IF s = "leader" THEN v ELSE w]] :
          x, y \in elements, v, w \in {{}, {0}}}

MCInputs == InputsOf(4, 64) \cup InputsOf(13, 32) \cup InputsOf(26, 64) \cup InputsOf(200, 64)
            \cup InputsOf(213, 64) \cup InputsOf(4096, 40) \cup InputsOf(54000, 64)
            \cup InputsOf(3, 16)
MCPowerOfTwo == InputsOf(213, 64)

Triples(S) == {[i \in 0 .. 2 |-> <<x, y, z>>[i + 1]] : x, y, z \in S}
Named == {t \in Triples(0 .. 2) : t[0] = 0 /\ t[1] <= 1 /\ t[2] <= t[1] + 1}
MCDigests == {[e \in 0 .. 2 |-> <<s, t, u>>[e + 1]] : s \in Named, t, u \in Triples(0 .. 3)}
OneDigest == {[e \in 0 .. 2 |-> [i \in 0 .. 2 |-> 0]]}

SystemsOf(rows, cols, block, patterns) ==
  {[rows |-> rows, cols |-> cols, block |-> block, A |-> M, b |-> v] :
     M \in [0 .. rows - 1 -> patterns], v \in SUBSET (0 .. rows - 1)}

MCSystems == SystemsOf(4, 4, 2, {{0}, {1, 2}, {2, 3}, {1, 3}, {3}, {0, 1, 2, 3}})
             \cup SystemsOf(3, 2, 1, SUBSET {0, 1}) \cup SystemsOf(3, 2, 2, SUBSET {0, 1})
=============================================================================
