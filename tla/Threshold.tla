------------------------------ MODULE Threshold ------------------------------
(***************************************************************************)
(* The numbers of PaillierParty's threshold decryption: delta, the         *)
(* Lagrange basis that initPaiilier computes in a double and casts to an   *)
(* int, and the exponents in which partialDecrypt and decrypt use them.    *)
(*                                                                         *)
(* Party p's share is a polynomial at p whose coefficient 0 is the key     *)
(* (secretShare).  A ciphertext is raised to a sum of these coefficients,  *)
(* each times a number; nothing else of the big numbers matters here.      *)
(***************************************************************************)
EXTENDS Integers, Sequences, FiniteSetsExt

CONSTANT IntBits    (* the bits of an int and of a uint32_t                *)

VARIABLES
  numOfParties,
  delta,            (* m_delta                                             *)
  lagrangeBasis     (* m_lagrangeBasis, for the parties it is computed for *)

Word == 2 ^ IntBits
IntMin == -(2 ^ (IntBits - 1))
IntMax == 2 ^ (IntBits - 1) - 1

Factorial(n) ==
  LET ret[i \in 0 .. n] == IF i = 0 THEN 1 ELSE (ret[i - 1] * i) % Word
  IN  ret[n]

Product(S, factor(_)) ==
  MapThenFoldSet(LAMBDA x, y : x * y, 1, factor, LAMBDA T : CHOOSE x \in T : TRUE, S)

Others(j) == (1 .. numOfParties) \ {j}

(* prod after the inner loop, exact: a numerator and a denominator.        *)
Prod_One(j) == [num |-> Product(Others(j), LAMBDA jTag : jTag),      \* variant: not
                den |-> Product(Others(j), LAMBDA jTag : jTag - j)]  \* scaled by delta
Prod(j) == [num |-> delta * Product(Others(j), LAMBDA jTag : jTag),
            den |-> Product(Others(j), LAMBDA jTag : jTag - j)]

(* static_cast<int>: what does not fit becomes the least int.              *)
Cast(x) ==
  LET q == IF x.den > 0 THEN x.num \div x.den ELSE -(x.num \div (-x.den))
  IN  IF q \in IntMin .. IntMax THEN q ELSE IntMin

Start(n) ==
  /\ numOfParties = n
  /\ delta = Factorial(n)
  /\ lagrangeBasis = << >>

(* The outer loop, one party.                                              *)
Step ==
  /\ Len(lagrangeBasis) < numOfParties
  /\ lagrangeBasis' = Append(lagrangeBasis, Cast(Prod(Len(lagrangeBasis) + 1)))
  /\ UNCHANGED <<numOfParties, delta>>

-----------------------------------------------------------------------------
Initialised == Len(lagrangeBasis) = numOfParties

(* 2*m_delta and 4*m_delta*m_delta are computed in 32 bits.                *)
PartialExponent == (2 * delta) % Word
Scale == (4 * delta * delta) % Word

(* How often coefficient k of the shared polynomial is in the exponent of  *)
(* what decrypt has multiplied together.                                   *)
Weight(k) ==
  MapThenSumSet(LAMBDA p : 2 * lagrangeBasis[p] * PartialExponent * p ^ k, 1 .. numOfParties)

Fits == \A p \in 1 .. numOfParties : lagrangeBasis[p] # IntMin
=============================================================================
