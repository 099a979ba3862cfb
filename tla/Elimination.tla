---------------------------- MODULE Elimination ----------------------------
(***************************************************************************)
(* Gaussian elimination over GF(2) as GF2MatrixUtils::solve does it, for   *)
(* the isZeroXOR of NaiveInverseLeader and SimpleHashingNaiveInverseLeader.*)
(* A row stands for a bit of a mask, a column for a mask; the columns of a *)
(* party are side by side.  A vector is the set of the places it is 1 at.  *)
(* Every check thread works on a copy of the matrix.                       *)
(***************************************************************************)
EXTENDS Integers, FiniteSets

VARIABLES
  system,   (* the call: rows, cols, block (the columns of a party), A, b  *)
  A, b,     (* as they are transformed                                     *)
  nextRow,
  col,      (* j of the loops over the columns                             *)
  lastRow,
  sol,
  stage     (* "reduce", "zeroRows", "substitute", "solved" or "thrown"    *)

Row == 0 .. system.rows - 1
Col == 0 .. system.cols - 1

Add(x, y) == (x \ y) \cup (y \ x)
Dot(x, y) == Cardinality(x \cap y) % 2 = 1
Times(M, x) == {r \in DOMAIN M : Dot(M[r], x)}

Start(s) ==
  /\ system = s
  /\ A = s.A /\ b = s.b
  /\ nextRow = 0 /\ col = 0
  /\ lastRow = s.rows - 1
  /\ sol = {}
  /\ stage = "reduce"

Swap(i, k, r) == CASE r = i -> k [] r = k -> i [] OTHER -> r

\* Variant: b keeps its order when rows of A change places.
Exchanged_NotB(i) == b
\* The entries of b after swap(b[nextRow], b[i]).
Exchanged(i) == {Swap(i, nextRow, r) : r \in b}

\* The first loop, one column: the first row from nextRow on with a 1 there
\* becomes row nextRow and is added to all the rows below it that have one.
Reduce ==
  /\ stage = "reduce"
  /\ LET candidates == {i \in nextRow .. system.rows - 1 : col \in A[i]}
     IN  IF candidates = {}
         THEN UNCHANGED <<A, b, nextRow>>
         ELSE LET i == CHOOSE c \in candidates : \A d \in candidates : c <= d
                  B == [r \in Row |-> A[Swap(i, nextRow, r)]]
                  c == Exchanged(i)
                  below == {r \in nextRow + 1 .. system.rows - 1 : col \in B[r]}
              IN  /\ A' = [r \in Row |-> IF r \in below THEN Add(B[r], B[nextRow]) ELSE B[r]]
                  /\ b' = IF nextRow \in c THEN Add(c, below) ELSE c
                  /\ nextRow' = nextRow + 1
  /\ IF col + 1 < system.cols
     THEN col' = col + 1 /\ UNCHANGED stage
     ELSE stage' = "zeroRows" /\ UNCHANGED col
  /\ UNCHANGED <<system, lastRow, sol>>

\* The while loop over the last rows, as long as they lack the last column.
ZeroRow ==
  /\ stage = "zeroRows"
  /\ IF col \in A[lastRow]
     THEN stage' = "substitute" /\ UNCHANGED lastRow
     ELSE /\ stage' = IF lastRow \in b \/ lastRow = 0 THEN "thrown" ELSE stage
          /\ lastRow' = lastRow - 1
  /\ UNCHANGED <<system, A, b, nextRow, col, sol>>

\* The last loop, one column, from the last to the first.
Substitute ==
  /\ stage = "substitute"
  /\ IF lastRow = -1
     THEN /\ stage' = "thrown"
          /\ UNCHANGED <<col, lastRow, sol>>
     ELSE /\ IF col \in A[lastRow]
             THEN /\ sol' = IF Dot(A[lastRow], sol) # (lastRow \in b) THEN sol \cup {col} ELSE sol
                  /\ lastRow' = lastRow - 1
             ELSE UNCHANGED <<sol, lastRow>>
          /\ col' = col - 1
          /\ stage' = IF col = 0 THEN "solved" ELSE stage
  /\ UNCHANGED <<system, A, b, nextRow>>

Step == Reduce \/ ZeroRow \/ Substitute

\* Variant: a party may take no part.
MatchFound_AtMostOne ==
  /\ stage = "solved"
  /\ \A p \in 0 .. (system.cols \div system.block) - 1 :
       Cardinality(sol \cap (p * system.block .. (p + 1) * system.block - 1)) <= 1
\* isZeroXOR: one mask of every party.
MatchFound ==
  /\ stage = "solved"
  /\ \A p \in 0 .. (system.cols \div system.block) - 1 :
       Cardinality(sol \cap (p * system.block .. (p + 1) * system.block - 1)) = 1
=============================================================================
