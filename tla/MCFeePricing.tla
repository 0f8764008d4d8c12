----------------------------- MODULE MCFeePricing -----------------------------
(***************************************************************************)
(* Small instances of FeePricing: a slot of sixteen units of gas,          *)
(* commitments of nine and of three thousand in a u64 that ends at 4000,   *)
(* so that they fill the slot halfway, overfill it and make sums and       *)
(* products overflow; a gas price of 0 lets the largest through the check  *)
(* on the total cost.  The floating point has five significant bits: the   *)
(* gas price 33 is not one of its numbers, and most quotients are not.     *)
(* The configured bounds are 1.8125 and 12.5, and the exponent is 1.5.     *)
(***************************************************************************)
EXTENDS FeePricing

CONSTANTS c1, c2, f1

\* Numbers with this whole part are multiples of this one.
Last[whole \in Nat] == IF whole < 32 THEN 1 ELSE 2 * Last[whole \div 2]

\* The nearest whole number, and of two the even one.
Whole[n \in Nat, d \in Nat] ==
    IF \/ 2 * (n % d) > d
       \/ 2 * (n % d) = d /\ (n \div d) % 2 = 1
    THEN n \div d + 1 ELSE n \div d

Multiple[n \in Nat, d \in Nat, last \in Nat] == last * Whole[n, d * last]

\* The nearest number of five bits.
Nearest[n \in Int, d \in Nat] ==
    IF n < 0 THEN -Multiple[-n, d, Last[(-n) \div d]] ELSE Multiple[n, d, Last[n \div d]]

MCRound(n, d) == Nearest[n, d]

\* x^(3/2).
Roots == [x \in 0 .. ONE |->
    LET square == (x * x * x) \div ONE IN
    MCRound(CHOOSE y \in 0 .. ONE : y * y <= square /\ square < (y + 1) * (y + 1), 1)]

MCPowf(x) == Roots[x]

\* RoundingLaws, as far as they are looked at here.
ASSUME MCRoundingLaws ==
    /\ \A n, m \in -70 .. 70, d, e \in 1 .. 3 : n * e <= m * d => MCRound(n, d) <= MCRound(m, e)
    /\ \A n \in 0 .. 9999 : MCRound(n, 1) <= MCRound(n + 1, 1)
    /\ MCRound(0, 1) = 0 /\ MCRound(ONE, 1) = ONE
=============================================================================
