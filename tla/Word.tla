-------------------------------- MODULE Word --------------------------------
(***************************************************************************)
(* The two's complement machine word: the C "int" the compiler computes    *)
(* with and the register of the machine it targets.  Both are 32 bits wide *)
(* in the real system; the width is a parameter here so that the values at *)
(* the ends of the range are within reach of a small instance.             *)
(***************************************************************************)
EXTENDS Integers

CONSTANT WordBits

ASSUME WordBitsAssumption == WordBits \in Nat /\ WordBits >= 8

Modulus == 2 ^ WordBits
MinWord == -(2 ^ (WordBits - 1))
MaxWord == 2 ^ (WordBits - 1) - 1

Words == MinWord .. MaxWord

\* The word that an exact result wraps to.
Wrap(v) == LET u == v % Modulus IN IF u > MaxWord THEN u - Modulus ELSE u

\* Division and remainder of C99 and of idiv: the quotient truncates toward zero.
Sign(v)  == IF v < 0 THEN -1 ELSE 1
Abs(v)   == Sign(v) * v
Quot(a, b) == Sign(a) * Sign(b) * (Abs(a) \div Abs(b))
Rem(a, b)  == a - b * Quot(a, b)
=============================================================================
