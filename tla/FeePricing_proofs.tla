-------------------------- MODULE FeePricing_proofs --------------------------
(***************************************************************************)
(* Proofs about the fee engine, for any number of calls and slots, any gas *)
(* limit, exponent and bounds, any width of the integers and of the        *)
(* floating point, as long as RoundingLaws hold of it.                     *)
(*                                                                         *)
(* The gas of a slot is a sum over a set, which is recursive.  Facts about *)
(* it are proved by least counterexamples: a set of finite sets for which  *)
(* a fact fails has a least member unless it is empty.                     *)
(***************************************************************************)
EXTENDS FeePricing, FiniteSetTheorems, TLAPS

\* A set of subsets of a finite set has a least member.
LEMMA LeastSubset ==
    ASSUME NEW S, IsFiniteSet(S), NEW T \in SUBSET (SUBSET S), T # {}
    PROVE  \E s \in T : \A t \in T : t \subseteq s => t = s
<1>1. T \subseteq FiniteSubsetsOf(S)
    BY FS_FiniteSubsetsOfFinite
<1>2. IsWellFoundedOn(StrictSubsetOrdering(S), FiniteSubsetsOf(S))
    BY FS_StrictSubsetOrderingWellFounded
<1>3. PICK s \in T : \A t \in T : ~(<<t, s>> \in StrictSubsetOrdering(S))
    BY <1>1, <1>2, WFMin
<1>4. ASSUME NEW t \in T, t \subseteq s PROVE t = s
    <2>1. ~(<<t, s>> \in {ss \in (SUBSET S) \X (SUBSET S) :
                            ss[1] \subseteq ss[2] /\ ss[1] # ss[2]})
        BY <1>3 DEF StrictSubsetOrdering
    <2> QED BY <1>4, <2>1
<1> QED BY <1>4
-----------------------------------------------------------------------------
(* Multipliers and prices.                                                 *)

\* The f64 of a natural number; larger numbers do not have smaller ones.
LEMMA F64Order ==
    ASSUME RoundingLaws, NEW g \in Nat, NEW h \in Nat, g <= h
    PROVE  /\ as_f64(g) \in Nat /\ as_f64(h) \in Nat
           /\ as_f64(g) <= as_f64(h)
           /\ g # 0 => as_f64(g) # 0
<1>1. ONE \in Nat \ {0} /\ g * ONE \in Nat /\ h * ONE \in Nat /\ g * ONE <= h * ONE
    <2>1. \A a \in Nat : g * a <= h * a
        OBVIOUS
    <2> QED BY <2>1, F64Assumption
<1>2. \A n \in Int : round(n, 1) \in Int
    BY DEF RoundingLaws
<1>3. \A n, m \in Int : n <= m => round(n, 1) <= round(m, 1)
    BY DEF RoundingLaws
<1>4. round(0, 1) = 0 /\ round(ONE, 1) = ONE
    BY DEF RoundingLaws
<1>5. g # 0 => ONE <= g * ONE
    <2>1. \A a \in Nat : g # 0 => a <= g * a
        OBVIOUS
    <2> QED BY <1>1, <2>1
<1>6. /\ round(g * ONE, 1) \in Int /\ round(h * ONE, 1) \in Int
      /\ 0 <= round(g * ONE, 1) /\ round(g * ONE, 1) <= round(h * ONE, 1)
      /\ g # 0 => ONE <= round(g * ONE, 1)
    BY <1>1, <1>2, <1>3, <1>4, <1>5
<1> QED BY <1>1, <1>6 DEF as_f64

\* More gas does not take a smaller share of the slot.
LEMMA RatioOrder ==
    ASSUME RoundingLaws, NEW g \in Nat, NEW h \in Nat, g <= h, default_gas_limit # 0
    PROVE  /\ gas_used_ratio(g) \in Nat /\ gas_used_ratio(h) \in Nat
           /\ gas_used_ratio(g) <= gas_used_ratio(h)
<1> DEFINE d == as_f64(default_gas_limit)
           a == as_f64(g)
           b == as_f64(h)
<1>1. ONE \in Nat \ {0} /\ default_gas_limit \in Nat
    BY PricingAssumption, F64Assumption
<1>2. d \in Nat \ {0} /\ a \in Nat /\ b \in Nat /\ a <= b
    BY <1>1, F64Order
<1> HIDE DEF a, b, d
<1>3. a * ONE \in Nat /\ b * ONE \in Nat /\ a * ONE <= b * ONE
    <2>1. \A x \in Nat : a * x <= b * x
        BY <1>2
    <2> QED BY <1>1, <1>2, <2>1
<1>4. (a * ONE) * d <= (b * ONE) * d
    <2>1. \A x, y \in Nat : x <= y => x * d <= y * d
        BY <1>2
    <2> QED BY <1>3, <2>1
<1>5. 0 * d <= (a * ONE) * 1
    BY <1>2, <1>3
<1>6. /\ round(a * ONE, d) \in Int /\ round(b * ONE, d) \in Int
      /\ round(a * ONE, d) <= round(b * ONE, d)
      /\ round(0, 1) <= round(a * ONE, d)
      /\ round(0, 1) = 0
    BY <1>2, <1>3, <1>4, <1>5 DEF RoundingLaws
<1> QED BY <1>6 DEF gas_used_ratio, a, b, d

\* 1.0 - power, rounded, has the sign of the exact difference or is 0.
LEMMA HeadroomOrder ==
    ASSUME RoundingLaws, NEW p \in Int, NEW q \in Int, p <= q
    PROVE  /\ round(ONE - p, 1) \in Int /\ round(ONE - q, 1) \in Int
           /\ round(ONE - q, 1) <= round(ONE - p, 1)
           /\ q <= ONE => 0 <= round(ONE - q, 1)
           /\ p >= ONE => round(ONE - p, 1) <= 0
<1>1. ONE \in Nat
    BY F64Assumption
<1>2. \A n \in Int : round(n, 1) \in Int
    BY DEF RoundingLaws
<1>3. \A n, m \in Int : n <= m => round(n, 1) <= round(m, 1)
    BY DEF RoundingLaws
<1>4. round(0, 1) = 0
    BY DEF RoundingLaws
<1> QED BY <1>1, <1>2, <1>3, <1>4

\* The reciprocal of a positive f64, between 1 and 100: the smaller the f64, the
\* larger it is.
Reciprocal(x) == clamp(round(ONE * ONE, x), ONE, 100 * ONE)

LEMMA ReciprocalOrder ==
    ASSUME RoundingLaws, NEW x \in Nat \ {0}, NEW y \in Nat \ {0}, y <= x
    PROVE  /\ Reciprocal(x) \in ONE .. 100 * ONE
           /\ Reciprocal(x) <= Reciprocal(y)
<1>1. ONE \in Nat /\ ONE * ONE \in Nat
    BY F64Assumption
<1>2. (ONE * ONE) * y <= (ONE * ONE) * x
    <2>1. \A a \in Nat : a * y <= a * x
        OBVIOUS
    <2> QED BY <1>1, <2>1
<1>3. /\ round(ONE * ONE, x) \in Int /\ round(ONE * ONE, y) \in Int
      /\ round(ONE * ONE, x) <= round(ONE * ONE, y)
    <2> DEFINE n == ONE * ONE
    <2>1. n \in Int /\ n * y <= n * x
        BY <1>1, <1>2
    <2> HIDE DEF n
    <2>2. round(n, x) \in Int /\ round(n, y) \in Int /\ round(n, x) <= round(n, y)
        BY <2>1 DEF RoundingLaws
    <2> QED BY <2>2 DEF n
<1> QED BY <1>1, <1>3 DEF Reciprocal, clamp

\* What fee_multiplier says of one amount of gas.
LEMMA MultiplierCases ==
    ASSUME NEW gas \in 0 .. U64_MAX
    PROVE  /\ \/ default_gas_limit = 0 \/ gas_used_ratio(gas) >= ONE
              \/ powf(gas_used_ratio(gas)) = NaN \/ headroom(gas) = 0
              => fee_multiplier[gas] = 100 * ONE
           /\ ~(\/ default_gas_limit = 0 \/ gas_used_ratio(gas) >= ONE
                \/ powf(gas_used_ratio(gas)) = NaN \/ headroom(gas) = 0)
              => fee_multiplier[gas] = IF headroom(gas) < 0 THEN ONE ELSE Reciprocal(headroom(gas))
BY DEF fee_multiplier, Reciprocal

\* The powers of two ratios below 1.0, and what is left of 1.0.
LEMMA PowersOrder ==
    ASSUME RoundingLaws, NEW g \in Nat, NEW h \in Nat, g <= h, default_gas_limit # 0,
           gas_used_ratio(h) < ONE
    PROVE  \/ powf(gas_used_ratio(g)) = NaN /\ powf(gas_used_ratio(h)) = NaN
           \/ /\ powf(gas_used_ratio(g)) # NaN
              /\ headroom(g) \in Nat /\ headroom(h) \in Nat
              /\ headroom(h) <= headroom(g)
           \/ /\ powf(gas_used_ratio(g)) # NaN
              /\ headroom(g) \in Int /\ headroom(h) \in Int
              /\ headroom(g) <= headroom(h) /\ headroom(h) <= 0
<1> DEFINE x == gas_used_ratio(g)
           y == gas_used_ratio(h)
<1>1. x \in 0 .. ONE /\ y \in 0 .. ONE /\ x <= y /\ ONE \in Nat
    <2>1. x \in Nat /\ y \in Nat /\ x <= y
        BY RatioOrder
    <2>2. ONE \in Nat /\ y < ONE
        BY F64Assumption
    <2> HIDE DEF x, y
    <2> QED BY <2>1, <2>2
<1> HIDE DEF x, y
<1>2. headroom(g) = round(ONE - powf(x), 1) /\ headroom(h) = round(ONE - powf(y), 1)
    BY DEF headroom, x, y
<1>3. CASE \A z \in 0 .. ONE : powf(z) = NaN
    BY <1>1, <1>3 DEF x, y
<1>4. CASE /\ \A z \in 0 .. ONE : powf(z) \in 0 .. ONE
           /\ \A v, w \in 0 .. ONE : v <= w => powf(v) <= powf(w)
    <2>1. powf(x) \in Int /\ powf(y) \in Int /\ powf(x) <= powf(y) /\ powf(y) <= ONE
        BY <1>1, <1>4
    <2>2. /\ round(ONE - powf(x), 1) \in Int /\ round(ONE - powf(y), 1) \in Int
          /\ round(ONE - powf(y), 1) <= round(ONE - powf(x), 1)
          /\ 0 <= round(ONE - powf(y), 1)
        BY <2>1, HeadroomOrder
    <2> QED BY <1>2, <2>1, <2>2, F64Assumption DEF x, y
<1>5. CASE /\ \A z \in 0 .. ONE : powf(z) \in Int /\ powf(z) >= ONE
           /\ \A v, w \in 0 .. ONE : v <= w => powf(v) >= powf(w)
    <2>1. powf(x) \in Int /\ powf(y) \in Int /\ powf(y) <= powf(x) /\ powf(y) >= ONE
        BY <1>1, <1>5
    <2>2. /\ round(ONE - powf(x), 1) \in Int /\ round(ONE - powf(y), 1) \in Int
          /\ round(ONE - powf(x), 1) <= round(ONE - powf(y), 1)
          /\ round(ONE - powf(y), 1) <= 0
        BY <2>1, HeadroomOrder
    <2> QED BY <1>2, <2>1, <2>2, F64Assumption DEF x, y
<1> QED BY <1>3, <1>4, <1>5, PowfAssumption

\* More gas in the slot does not make the multiplier smaller, and it stays between
\* 1 and 100: for every gas limit and exponent, 0, negative ones and NaN included.
LEMMA MultiplierOrder ==
    ASSUME RoundingLaws, NEW g \in 0 .. U64_MAX, NEW h \in 0 .. U64_MAX, g <= h
    PROVE  /\ fee_multiplier[g] \in ONE .. 100 * ONE
           /\ fee_multiplier[h] \in ONE .. 100 * ONE
           /\ fee_multiplier[g] <= fee_multiplier[h]
<1>1. ONE \in Nat \ {0} /\ g \in Nat /\ h \in Nat
    BY F64Assumption, PricingAssumption
<1> DEFINE Hundred(n) == fee_multiplier[n] = 100 * ONE
           Low(n) == fee_multiplier[n] = ONE
<1>2. 100 * ONE \in ONE .. 100 * ONE /\ ONE \in ONE .. 100 * ONE
    BY <1>1
<1>3. CASE default_gas_limit = 0
    <2>1. Hundred(g) /\ Hundred(h)
        BY <1>3, MultiplierCases
    <2> QED BY <1>1, <1>2, <2>1
<1>4. CASE default_gas_limit # 0 /\ gas_used_ratio(g) >= ONE
    <2>1. gas_used_ratio(h) >= ONE
        BY <1>1, <1>4, RatioOrder
    <2>2. Hundred(g) /\ Hundred(h)
        BY <1>4, <2>1, MultiplierCases
    <2> QED BY <1>1, <1>2, <2>2
<1>5. ASSUME NEW n \in {g, h}, default_gas_limit # 0, ~(gas_used_ratio(n) >= ONE)
      PROVE  fee_multiplier[n] \in ONE .. 100 * ONE
    <2>1. n \in Nat /\ n \in 0 .. U64_MAX
        BY <1>1
    <2>2. gas_used_ratio(n) < ONE
        BY <1>1, <1>5, <2>1, RatioOrder
    <2>3. powf(gas_used_ratio(n)) = NaN \/ headroom(n) \in Int
        BY <1>5, <2>1, <2>2, PowersOrder
    <2>4. CASE powf(gas_used_ratio(n)) = NaN \/ headroom(n) = 0
        BY <1>2, <2>1, <2>4, MultiplierCases
    <2>5. CASE ~(powf(gas_used_ratio(n)) = NaN \/ headroom(n) = 0)
        <3>1. fee_multiplier[n] = IF headroom(n) < 0 THEN ONE ELSE Reciprocal(headroom(n))
            BY <1>5, <2>1, <2>5, MultiplierCases
        <3>2. CASE headroom(n) < 0
            BY <1>2, <3>1, <3>2
        <3>3. CASE ~(headroom(n) < 0)
            <4>1. headroom(n) \in Nat \ {0}
                BY <2>3, <2>5, <3>3
            <4> QED BY <3>1, <3>3, <4>1, ReciprocalOrder
        <3> QED BY <3>2, <3>3
    <2> QED BY <2>4, <2>5
<1>6. CASE /\ default_gas_limit # 0 /\ ~(gas_used_ratio(g) >= ONE)
           /\ gas_used_ratio(h) >= ONE
    <2>1. Hundred(h)
        BY <1>6, MultiplierCases
    <2>2. fee_multiplier[g] \in ONE .. 100 * ONE
        BY <1>5, <1>6
    <2> QED BY <1>1, <1>2, <2>1, <2>2
<1>7. CASE /\ default_gas_limit # 0 /\ ~(gas_used_ratio(g) >= ONE)
           /\ ~(gas_used_ratio(h) >= ONE)
    <2>1. /\ fee_multiplier[g] \in ONE .. 100 * ONE
          /\ fee_multiplier[h] \in ONE .. 100 * ONE
        BY <1>5, <1>7
    <2>2. gas_used_ratio(h) < ONE
        BY <1>1, <1>7, RatioOrder
    <2>3. CASE powf(gas_used_ratio(h)) = NaN \/ headroom(h) = 0
        <3>1. Hundred(h)
            BY <2>3, MultiplierCases
        <3> QED BY <1>1, <2>1, <3>1
    <2>4. CASE powf(gas_used_ratio(g)) = NaN /\ powf(gas_used_ratio(h)) = NaN
        BY <2>3, <2>4
    <2>5. CASE /\ ~(powf(gas_used_ratio(h)) = NaN \/ headroom(h) = 0)
               /\ powf(gas_used_ratio(g)) # NaN
               /\ headroom(g) \in Nat /\ headroom(h) \in Nat
               /\ headroom(h) <= headroom(g)
        <3>1. headroom(g) \in Nat \ {0} /\ headroom(h) \in Nat \ {0}
            BY <2>5
        <3>2. /\ fee_multiplier[g] = Reciprocal(headroom(g))
              /\ fee_multiplier[h] = Reciprocal(headroom(h))
            BY <1>7, <2>5, <3>1, MultiplierCases
        <3>3. Reciprocal(headroom(g)) <= Reciprocal(headroom(h))
            BY <2>5, <3>1, ReciprocalOrder
        <3> QED BY <2>1, <3>2, <3>3
    <2>6. CASE /\ ~(powf(gas_used_ratio(h)) = NaN \/ headroom(h) = 0)
               /\ powf(gas_used_ratio(g)) # NaN
               /\ headroom(g) \in Int /\ headroom(h) \in Int
               /\ headroom(g) <= headroom(h) /\ headroom(h) <= 0
        <3>1. headroom(g) < 0
            BY <2>6
        <3>2. Low(g)
            BY <1>7, <2>6, <3>1, MultiplierCases
        <3> QED BY <1>1, <2>1, <3>2
    <2> QED BY <1>1, <1>7, <2>2, <2>3, <2>4, <2>5, <2>6, PowersOrder
<1> QED BY <1>3, <1>4, <1>6, <1>7

\* Rounding up keeps the order.
LEMMA CeilOrder ==
    ASSUME NEW x \in Int, NEW y \in Int, x <= y
    PROVE  ceil(x) \in Int /\ ceil(y) \in Int /\ ceil(x) <= ceil(y)
<1>1. ONE \in Nat \ {0}
    BY F64Assumption
<1>2. \A a, b \in Int, d \in Nat \ {0} : a <= b => a \div d <= b \div d
    OBVIOUS
<1> QED BY <1>1, <1>2 DEF ceil

\* A price is a u64.
LEMMA PriceType ==
    ASSUME RoundingLaws, NEW base \in 0 .. U64_MAX, NEW m \in Int
    PROVE  price_at[base][m] \in 0 .. U64_MAX
<1> DEFINE scaled == round(as_f64(base) * m, ONE)
<1>1. U64_MAX \in Nat /\ ONE \in Nat \ {0} /\ base \in Nat
    BY PricingAssumption, F64Assumption
<1>2. as_f64(base) * m \in Int
    <2>1. as_f64(base) \in Int
        BY <1>1, F64Order
    <2> QED BY <2>1
<1>3. scaled \in Int
    BY <1>1, <1>2 DEF RoundingLaws
<1>4. price_at[base][m] = IF is_finite(m) /\ is_finite(scaled)
                          THEN clamp(ceil(scaled), 0, U64_MAX) ELSE U64_MAX
    BY DEF price_at
<1> HIDE DEF scaled
<1>5. ceil(scaled) \in Int
    BY <1>3, CeilOrder
<1> QED BY <1>1, <1>4, <1>5 DEF clamp

\* A larger multiplier does not make a price smaller.
LEMMA PriceOrder ==
    ASSUME RoundingLaws, NEW base \in 0 .. U64_MAX, NEW m \in Nat, NEW n \in Nat, m <= n
    PROVE  price_at[base][m] <= price_at[base][n]
<1> DEFINE f == as_f64(base)
           low == round(f * m, ONE)
           high == round(f * n, ONE)
<1>1. U64_MAX \in Nat /\ ONE \in Nat \ {0} /\ F64_MAX \in Nat /\ base \in Nat
    BY PricingAssumption, F64Assumption
<1>2. f \in Nat
    BY <1>1, F64Order
<1>3. /\ price_at[base][m] = IF is_finite(m) /\ is_finite(low)
                             THEN clamp(ceil(low), 0, U64_MAX) ELSE U64_MAX
      /\ price_at[base][n] = IF is_finite(n) /\ is_finite(high)
                             THEN clamp(ceil(high), 0, U64_MAX) ELSE U64_MAX
    BY DEF price_at
<1> HIDE DEF f
<1>4. f * m \in Nat /\ f * n \in Nat /\ f * m <= f * n
    BY <1>2
<1>5. (f * m) * ONE <= (f * n) * ONE /\ 0 * ONE <= (f * m) * 1
    <2>1. \A a, b, x \in Nat : a <= b => a * x <= b * x
        OBVIOUS
    <2> QED BY <1>1, <1>4, <2>1
<1>6. low \in Int /\ high \in Int /\ 0 <= low /\ low <= high
    <2>1. /\ round(f * m, ONE) \in Int /\ round(f * n, ONE) \in Int
          /\ round(f * m, ONE) <= round(f * n, ONE)
          /\ round(0, 1) <= round(f * m, ONE)
          /\ round(0, 1) = 0
        BY <1>1, <1>4, <1>5 DEF RoundingLaws
    <2> QED BY <2>1
<1> HIDE DEF low, high
<1>7. ceil(low) \in Int /\ ceil(high) \in Int /\ ceil(low) <= ceil(high)
    BY <1>6, CeilOrder
<1>8. is_finite(n) /\ is_finite(high) => is_finite(m) /\ is_finite(low)
    BY <1>1, <1>6 DEF is_finite
<1>9. \A x \in Int : clamp(x, 0, U64_MAX) <= U64_MAX
    BY <1>1 DEF clamp
<1>10. clamp(ceil(low), 0, U64_MAX) <= clamp(ceil(high), 0, U64_MAX)
    BY <1>1, <1>7 DEF clamp
<1> QED BY <1>1, <1>3, <1>7, <1>8, <1>9, <1>10

\* The bounds of the configuration, whatever two f64 they are: the upper one
\* decides, a multiplier is not negative unless it is the upper bound, and it is
\* not below the lower bound or the multiplier of the formula but for the upper.
LEMMA BoundedCases ==
    ASSUME NEW x \in Int, x >= ONE
    PROVE  /\ bounded(x) \in Int
           /\ max_fee_multiplier # NaN =>
                \/ bounded(x) = max_fee_multiplier
                \/ bounded(x) \in Nat /\ max_fee_multiplier \in Nat
                   /\ bounded(x) <= max_fee_multiplier
           /\ \A m \in Nat : m <= x \/ m = min_fee_multiplier =>
                \/ f64_min(m, max_fee_multiplier) = bounded(x)
                \/ /\ f64_min(m, max_fee_multiplier) \in Nat /\ bounded(x) \in Nat
                   /\ f64_min(m, max_fee_multiplier) <= bounded(x)
BY F64Assumption DEF bounded, f64_min, f64_max

\* The price of a slot with some gas: more gas does not make it smaller, and it is
\* not below the base price, or the f64 nearest to it.
LEMMA SlotPriceOrder ==
    ASSUME RoundingLaws, NEW base \in 0 .. U64_MAX,
           NEW g \in 0 .. U64_MAX, NEW h \in 0 .. U64_MAX, g <= h
    PROVE  /\ price_of(base, g) \in 0 .. U64_MAX /\ price_of(base, h) \in 0 .. U64_MAX
           /\ price_of(base, g) <= price_of(base, h)
           /\ base <= price_of(base, g) \/ price_at[base][ONE] <= price_of(base, g)
<1>1. U64_MAX \in Nat /\ base \in Nat /\ ONE \in Nat
    BY PricingAssumption, F64Assumption
<1>2. CASE default_gas_limit = 0
    BY <1>1, <1>2 DEF price_of
<1>3. CASE default_gas_limit # 0
    <2>1. /\ price_of(base, g) = price_at[base][fee_multiplier[g]]
          /\ price_of(base, h) = price_at[base][fee_multiplier[h]]
        BY <1>3 DEF price_of
    <2>2. /\ fee_multiplier[g] \in Nat /\ fee_multiplier[h] \in Nat
          /\ ONE <= fee_multiplier[g] /\ fee_multiplier[g] <= fee_multiplier[h]
        BY <1>1, MultiplierOrder
    <2>3. /\ price_at[base][fee_multiplier[g]] \in 0 .. U64_MAX
          /\ price_at[base][fee_multiplier[h]] \in 0 .. U64_MAX
        BY <2>2, PriceType
    <2>4. price_at[base][fee_multiplier[g]] <= price_at[base][fee_multiplier[h]]
        BY <2>2, PriceOrder
    <2>5. price_at[base][ONE] <= price_at[base][fee_multiplier[g]]
        BY <1>1, <2>2, PriceOrder
    <2> QED BY <2>1, <2>3, <2>4, <2>5
<1> QED BY <1>2, <1>3
-----------------------------------------------------------------------------
(* The gas of a set of calls.                                              *)

\* The gas of the calls of S, where w gives slot and gas of each.
Total(w, S) == MapThenSumSet(LAMBDA c : w[c].gas, S)

pick(s) == CHOOSE x \in s : TRUE

\* F gives the gas of every subset of S, in the way of MapThenSumSet.
Sums(F, w, S) ==
    F = [s \in SUBSET S |-> IF s = {} THEN 0 ELSE w[pick(s)].gas + F[s \ {pick(s)}]]

\* What it says of one subset.
LEMMA SumOfSubset ==
    ASSUME NEW w, NEW S, NEW F, Sums(F, w, S), NEW s \in SUBSET S
    PROVE  /\ s = {} => F[s] = 0
           /\ s # {} => F[s] = w[pick(s)].gas + F[s \ {pick(s)}]
BY DEF Sums

\* Two functions that give the gas, of larger or smaller sets, agree.
LEMMA SumsAgree ==
    ASSUME NEW w, NEW S, IsFiniteSet(S), NEW R, NEW F, NEW G, Sums(F, w, S), Sums(G, w, R)
    PROVE  \A s \in SUBSET (S \cap R) : F[s] = G[s]
<1> DEFINE T == {s \in SUBSET (S \cap R) : F[s] # G[s]}
<1> SUFFICES ASSUME T # {} PROVE FALSE
    OBVIOUS
<1>t. T \in SUBSET (SUBSET S)
    OBVIOUS
<1>1. PICK s \in T : \A t \in T : t \subseteq s => t = s
    <2> HIDE DEF T
    <2> QED BY <1>t, LeastSubset
<1>2. s \in SUBSET S /\ s \in SUBSET R
    OBVIOUS
<1>3. CASE s = {}
    BY <1>2, <1>3, SumOfSubset
<1>4. CASE s # {}
    <2>1. pick(s) \in s
        BY <1>4 DEF pick
    <2>2. F[s \ {pick(s)}] = G[s \ {pick(s)}]
        BY <1>1, <2>1
    <2> QED BY <1>2, <1>4, <2>2, SumOfSubset
<1> QED BY <1>3, <1>4

\* There is one for every finite set.
LEMMA SumsExist ==
    ASSUME NEW w, NEW S, IsFiniteSet(S)
    PROVE  \E F : Sums(F, w, S)
<1> DEFINE T == {s \in SUBSET S : ~\E F : Sums(F, w, s)}
<1> SUFFICES ASSUME T # {} PROVE FALSE
    OBVIOUS
<1>t. T \in SUBSET (SUBSET S)
    OBVIOUS
<1>1. PICK s \in T : \A t \in T : t \subseteq s => t = s
    <2> HIDE DEF T
    <2> QED BY <1>t, LeastSubset
<1>2. \A t \in SUBSET s : IsFiniteSet(t)
    BY FS_Subset
<1> DEFINE part(t) == CHOOSE F : Sums(F, w, t)
           sum(t) == IF t = {} THEN 0 ELSE w[pick(t)].gas + part(t \ {pick(t)})[t \ {pick(t)}]
           F == [t \in SUBSET s |-> sum(t)]
<1>3. \A t \in SUBSET s : t # s => Sums(part(t), w, t)
    BY <1>1
<1>4. ASSUME NEW t \in SUBSET s, t # s PROVE part(t)[t] = sum(t)
    <2>1. CASE t = {}
        BY <1>3, <1>4, <2>1, SumOfSubset
    <2>2. CASE t # {}
        <3> DEFINE r == t \ {pick(t)}
        <3>1. pick(t) \in t
            BY <2>2 DEF pick
        <3>2. r \in SUBSET s /\ r # s /\ r \in SUBSET t
            BY <3>1
        <3>3. part(t)[t] = w[pick(t)].gas + part(t)[r]
            BY <1>3, <1>4, <2>2, SumOfSubset
        <3>4. Sums(part(t), w, t) /\ Sums(part(r), w, r) /\ IsFiniteSet(t)
            BY <1>2, <1>3, <1>4, <3>2
        <3>5. part(t)[r] = part(r)[r]
            <4> HIDE DEF part, r
            <4>1. r \in SUBSET (t \cap r)
                BY <3>2
            <4> QED BY <3>4, <4>1, SumsAgree
        <3> QED BY <2>2, <3>3, <3>5
    <2> QED BY <2>1, <2>2
<1>5. ASSUME NEW t \in SUBSET s
      PROVE  F[t] = IF t = {} THEN 0 ELSE w[pick(t)].gas + F[t \ {pick(t)}]
    <2>1. CASE t = {}
        BY <2>1
    <2>2. CASE t # {}
        <3> DEFINE r == t \ {pick(t)}
        <3>1. pick(t) \in t
            BY <2>2 DEF pick
        <3>2. r \in SUBSET s /\ r # s
            BY <3>1
        <3>3. F[r] = part(r)[r]
            <4>1. F[r] = sum(r)
                BY <3>2
            <4>2. part(r)[r] = sum(r)
                BY <1>4, <3>2
            <4> QED BY <4>1, <4>2
        <3>4. F[t] = w[pick(t)].gas + part(r)[r]
            BY <2>2
        <3> QED BY <2>2, <3>3, <3>4
    <2> QED BY <2>1, <2>2
<1>6. Sums(F, w, s)
    <2>1. F = [t \in SUBSET s |-> F[t]]
        OBVIOUS
    <2> HIDE DEF F
    <2> QED BY <1>5, <2>1 DEF Sums
<1> QED BY <1>6

\* What MapThenSumSet computes.
LEMMA TotalIsSum ==
    ASSUME NEW w, NEW S, IsFiniteSet(S)
    PROVE  \E F : Sums(F, w, S) /\ Total(w, S) = F[S]
<1> DEFINE F == CHOOSE G : G = [s \in SUBSET S |->
                     IF s = {} THEN 0
                     ELSE w[CHOOSE x \in s : TRUE].gas + G[s \ {CHOOSE x \in s : TRUE}]]
<1>1. Total(w, S) = F[S]
    BY DEF Total, MapThenSumSet, MapThenFoldSet
<1>2. Sums(F, w, S)
    <2>1. PICK G : Sums(G, w, S)
        BY SumsExist
    <2> QED BY <2>1 DEF Sums, pick
<1> QED BY <1>1, <1>2

\* One call less.
LEMMA TotalStep ==
    ASSUME NEW w, NEW S, IsFiniteSet(S)
    PROVE  /\ S = {} => Total(w, S) = 0
           /\ S # {} => Total(w, S) = w[pick(S)].gas + Total(w, S \ {pick(S)})
<1>1. PICK F : Sums(F, w, S) /\ Total(w, S) = F[S]
    BY TotalIsSum
<1>2. CASE S = {}
    BY <1>1, <1>2, SumOfSubset
<1>3. CASE S # {}
    <2> DEFINE R == S \ {pick(S)}
    <2>1. IsFiniteSet(R) /\ R \in SUBSET S
        BY FS_RemoveElement
    <2>2. PICK G : Sums(G, w, R) /\ Total(w, R) = G[R]
        BY <2>1, TotalIsSum
    <2>3. R \in SUBSET (S \cap R)
        BY <2>1
    <2>4. F[R] = G[R]
        <3> HIDE DEF R
        <3> QED BY <1>1, <2>2, <2>3, SumsAgree
    <2>5. F[S] = w[pick(S)].gas + F[R]
        BY <1>1, <1>3, SumOfSubset
    <2> QED BY <1>1, <1>3, <2>2, <2>4, <2>5
<1> QED BY <1>2, <1>3

\* The gas of finitely many calls is a natural number, and does not depend on the
\* order in which it is added up.
LEMMA TotalOfCalls ==
    ASSUME NEW w, NEW S, IsFiniteSet(S), \A c \in S : w[c].gas \in Nat
    PROVE  /\ Total(w, S) \in Nat
           /\ \A c \in S : Total(w, S) = w[c].gas + Total(w, S \ {c})
<1> DEFINE Good(s) == /\ Total(w, s) \in Nat
                      /\ \A c \in s : Total(w, s) = w[c].gas + Total(w, s \ {c})
           T == {s \in SUBSET S : ~Good(s)}
<1> SUFFICES ASSUME T # {} PROVE FALSE
    OBVIOUS
<1>t. T \in SUBSET (SUBSET S)
    OBVIOUS
<1>1. PICK s \in T : \A t \in T : t \subseteq s => t = s
    <2> HIDE DEF T
    <2> QED BY <1>t, LeastSubset
<1>2. s \in SUBSET S /\ IsFiniteSet(s)
    BY FS_Subset
<1>3. CASE s = {}
    <2>1. Total(w, s) = 0
        BY <1>2, <1>3, TotalStep
    <2> QED BY <1>3, <2>1
<1>4. CASE s # {}
    <2> DEFINE p == pick(s)
    <2>1. p \in s
        BY <1>4 DEF pick
    <2>2. ASSUME NEW t \in SUBSET s, t # s PROVE Good(t)
        BY <1>1, <1>2, <2>2
    <2>3. Total(w, s) = w[p].gas + Total(w, s \ {p})
        BY <1>2, <1>4, TotalStep
    <2>4. Good(s \ {p})
        BY <2>1, <2>2
    <2> HIDE DEF p
    <2>5. Total(w, s) \in Nat
        BY <1>2, <2>1, <2>3, <2>4
    <2>6. ASSUME NEW c \in s PROVE Total(w, s) = w[c].gas + Total(w, s \ {c})
        <3>1. CASE c = p
            BY <2>3, <3>1
        <3>2. CASE c # p
            <4>1. Total(w, s \ {p}) = w[c].gas + Total(w, (s \ {p}) \ {c})
                BY <2>4, <3>2
            <4>2. Good(s \ {c}) /\ Good((s \ {p}) \ {c})
                BY <2>1, <2>2
            <4>3. Total(w, s \ {c}) = w[p].gas + Total(w, (s \ {c}) \ {p})
                BY <2>1, <3>2, <4>2
            <4>4. (s \ {c}) \ {p} = (s \ {p}) \ {c}
                OBVIOUS
            <4>5. w[p].gas \in Nat /\ w[c].gas \in Nat /\ Total(w, (s \ {p}) \ {c}) \in Nat
                BY <1>2, <2>1, <4>2
            <4>6. \A a, b, x \in Nat : a + (b + x) = b + (a + x)
                OBVIOUS
            <4>7. Total(w, s) = w[p].gas + (w[c].gas + Total(w, (s \ {p}) \ {c}))
                BY <2>3, <4>1
            <4>8. Total(w, s \ {c}) = w[p].gas + Total(w, (s \ {p}) \ {c})
                BY <4>3, <4>4
            <4> HIDE DEF Good
            <4> QED BY <4>5, <4>6, <4>7, <4>8
        <3> QED BY <3>1, <3>2
    <2> QED BY <1>1, <2>5, <2>6
<1> QED BY <1>3, <1>4

\* One call more.
LEMMA TotalAdd ==
    ASSUME NEW w, NEW S, IsFiniteSet(S), NEW c, c \notin S, \A e \in S \cup {c} : w[e].gas \in Nat
    PROVE  Total(w, S \cup {c}) = Total(w, S) + w[c].gas /\ Total(w, S) \in Nat
<1>1. IsFiniteSet(S \cup {c})
    BY FS_AddElement
<1>2. Total(w, S \cup {c}) = w[c].gas + Total(w, (S \cup {c}) \ {c})
    BY <1>1, TotalOfCalls
<1>3. (S \cup {c}) \ {c} = S
    OBVIOUS
<1>4. Total(w, S) \in Nat
    BY TotalOfCalls
<1>5. w[c].gas \in Nat
    OBVIOUS
<1>6. Total(w, S \cup {c}) = w[c].gas + Total(w, S)
    BY <1>2, <1>3
<1> QED BY <1>4, <1>5, <1>6
-----------------------------------------------------------------------------
(* Rows and quotes.                                                        *)

\* The sum of two u64 that does not wrap around.
LEMMA SaturatingAdd ==
    ASSUME NEW a \in Nat, NEW b \in Nat
    PROVE  /\ saturating_add(a, b) \in 0 .. U64_MAX
           /\ a <= U64_MAX => a <= saturating_add(a, b)
           /\ b <= U64_MAX => b <= saturating_add(a, b)
           /\ \A d \in Nat : saturating_add(saturating_add(a, b), d) = saturating_add(a, b + d)
BY PricingAssumption DEF saturating_add

\* The price of a row: the base price until gas is added.
RowPrice(r) == r.price = IF r.gas = 0 THEN r.base ELSE price_of(r.base, r.gas)

\* The row a slot starts with.
LEMMA NewRowOk ==
    ASSUME NEW base \in 0 .. U64_MAX
    PROVE  /\ new_congestion(base) \in Congestion
           /\ new_congestion(base).gas = 0
           /\ new_congestion(base).base = base
           /\ RowPrice(new_congestion(base))
<1>1. 0 \in 0 .. U64_MAX
    BY PricingAssumption
<1> QED BY <1>1 DEF new_congestion, Congestion, RowPrice

\* Gas that is added makes the slot dearer, or leaves its price as it is; the first
\* gas may take it down to the f64 nearest to the base price.
LEMMA AddedRow ==
    ASSUME RoundingLaws, NEW r \in Congestion, RowPrice(r), NEW g \in 1 .. U64_MAX
    PROVE  /\ add_gas_usage(r, g) \in Congestion
           /\ add_gas_usage(r, g).gas = saturating_add(r.gas, g)
           /\ add_gas_usage(r, g).base = r.base
           /\ RowPrice(add_gas_usage(r, g))
           /\ \/ r.price <= add_gas_usage(r, g).price
              \/ r.gas = 0 /\ price_at[r.base][ONE] <= add_gas_usage(r, g).price
<1> DEFINE total == saturating_add(r.gas, g)
           price == price_of(r.base, total)
<1>1. /\ r.gas \in 0 .. U64_MAX /\ r.base \in 0 .. U64_MAX /\ U64_MAX \in Nat
      /\ r.gas \in Nat /\ g \in Nat /\ g # 0 /\ g <= U64_MAX /\ r.base \in Nat
    BY PricingAssumption DEF Congestion
<1>2. total \in 0 .. U64_MAX /\ total \in Int /\ r.gas <= total /\ g <= total
    <2>1. r.gas \in Nat /\ r.gas <= U64_MAX
        BY <1>1
    <2>2. total \in 0 .. U64_MAX /\ r.gas <= total /\ g <= total
        BY <1>1, <2>1, SaturatingAdd
    <2> HIDE DEF total
    <2> QED BY <1>1, <2>2
<1> HIDE DEF total
<1>3. total # 0
    BY <1>1, <1>2
<1>4. /\ price \in 0 .. U64_MAX
      /\ (r.base <= price \/ price_at[r.base][ONE] <= price)
    <2>1. total <= total
        BY <1>2
    <2> QED BY <1>1, <1>2, <2>1, SlotPriceOrder
<1>5. r.gas # 0 => r.price <= price
    BY <1>1, <1>2, SlotPriceOrder DEF RowPrice
<1>6. add_gas_usage(r, g) = [r EXCEPT !.gas = total, !.price = price]
    BY DEF add_gas_usage, total
<1> HIDE DEF price
<1>7. /\ add_gas_usage(r, g) \in Congestion
      /\ add_gas_usage(r, g).gas = total
      /\ add_gas_usage(r, g).base = r.base
      /\ add_gas_usage(r, g).price = price
    BY <1>2, <1>4, <1>6 DEF Congestion
<1>8. RowPrice(add_gas_usage(r, g))
    BY <1>3, <1>7 DEF RowPrice, price
<1>9. r.price <= price \/ (r.gas = 0 /\ price_at[r.base][ONE] <= price)
    BY <1>4, <1>5 DEF RowPrice
<1> QED BY <1>7, <1>8, <1>9 DEF total

\* What a call with this gas may be quoted on a row with this base price.
QuoteOk(q, base, gas) ==
    /\ max_fee_multiplier # NaN => q <= price_at[base][max_fee_multiplier]
    /\ \A m \in {min_fee_multiplier, fee_multiplier[gas]} :
          m # NaN /\ m >= 0 => q >= price_at[base][f64_min(m, max_fee_multiplier)]

\* calculate_projected_congestion keeps to it, however full the slot is.
LEMMA ProjectedOk ==
    ASSUME RoundingLaws, NEW r \in Congestion, NEW gas \in 1 .. U64_MAX
    PROVE  /\ projected_price(r, gas) \in 0 .. U64_MAX
           /\ QuoteOk(projected_price(r, gas), r.base, gas)
<1> DEFINE total == saturating_add(r.gas, gas)
           x == fee_multiplier[total]
           q == price_at[r.base][bounded(x)]
<1>1. /\ r.gas \in Nat /\ r.base \in 0 .. U64_MAX /\ gas \in Nat /\ gas <= U64_MAX
      /\ U64_MAX \in Nat /\ ONE \in Nat
    BY PricingAssumption, F64Assumption DEF Congestion
<1>2. total \in 0 .. U64_MAX /\ gas <= total /\ gas \in 0 .. U64_MAX
    <2>1. total \in 0 .. U64_MAX /\ gas <= total
        BY <1>1, SaturatingAdd
    <2> HIDE DEF total
    <2> QED BY <1>1, <2>1
<1> HIDE DEF total
<1>3. /\ fee_multiplier[gas] \in Nat /\ x \in Nat
      /\ ONE <= x /\ fee_multiplier[gas] <= x
    BY <1>1, <1>2, MultiplierOrder
<1>4. projected_price(r, gas) = q
    BY DEF projected_price, total
<1> HIDE DEF x
<1>5. bounded(x) \in Int /\ q \in 0 .. U64_MAX
    <2>1. bounded(x) \in Int
        BY <1>1, <1>3, BoundedCases
    <2> QED BY <1>1, <2>1, PriceType
<1>6. q \in Int
    BY <1>1, <1>5
<1>7. ASSUME max_fee_multiplier # NaN PROVE q <= price_at[r.base][max_fee_multiplier]
    <2>1. \/ bounded(x) = max_fee_multiplier
          \/ bounded(x) \in Nat /\ max_fee_multiplier \in Nat
             /\ bounded(x) <= max_fee_multiplier
        BY <1>1, <1>3, <1>7, BoundedCases
    <2>2. CASE bounded(x) = max_fee_multiplier
        BY <1>6, <2>2
    <2>3. CASE bounded(x) \in Nat /\ max_fee_multiplier \in Nat
               /\ bounded(x) <= max_fee_multiplier
        BY <1>1, <2>3, PriceOrder
    <2> QED BY <2>1, <2>2, <2>3
<1>8. ASSUME NEW m \in Nat, m <= x \/ m = min_fee_multiplier
      PROVE  q >= price_at[r.base][f64_min(m, max_fee_multiplier)]
    <2> DEFINE low == f64_min(m, max_fee_multiplier)
    <2>1. \/ low = bounded(x)
          \/ low \in Nat /\ bounded(x) \in Nat /\ low <= bounded(x)
        BY <1>1, <1>3, <1>8, BoundedCases
    <2> HIDE DEF low
    <2>2. CASE low = bounded(x)
        BY <1>6, <2>2 DEF low
    <2>3. CASE low \in Nat /\ bounded(x) \in Nat /\ low <= bounded(x)
        <3>1. price_at[r.base][low] <= q
            BY <1>1, <2>3, PriceOrder
        <3>2. price_at[r.base][low] \in Int
            BY <1>1, <2>3, PriceType
        <3> QED BY <1>6, <3>1, <3>2 DEF low
    <2> QED BY <2>1, <2>2, <2>3
<1> HIDE DEF q
<1>9. ASSUME NEW m \in {min_fee_multiplier, fee_multiplier[gas]}, m # NaN, m >= 0
      PROVE  q >= price_at[r.base][f64_min(m, max_fee_multiplier)]
    <2>1. m \in Nat
        BY <1>3, <1>9, F64Assumption
    <2> QED BY <1>3, <1>8, <1>9, <2>1
<1> QED BY <1>4, <1>5, <1>7, <1>9 DEF QuoteOk
-----------------------------------------------------------------------------
(* The invariant.                                                          *)

CountedFor(s) == {c \in counted : job[c].slot = s}

\* A call past the INSERT finds the row of its slot; one that writes holds the
\* row's lock, and what it has read is still what is there.
CallInv(c) ==
    /\ gasPrice[c] \in 0 .. U64_MAX
    /\ fpc[c] \in {"refetch", "lock", "write"} => congestion[job[c].slot] # NoRow
    /\ fpc[c] \in {"lock", "write"} => c \in CommitCalls
    /\ fpc[c] = "write" =>
          lock[job[c].slot] = c /\ row[c] = congestion[job[c].slot]
    /\ quote[c] # NoQuote =>
          /\ congestion[job[c].slot] # NoRow
          /\ QuoteOk(quote[c], congestion[job[c].slot].base, job[c].gas)

\* A row has the gas of the calls counted for it, and the price of that gas.
RowInv(s) ==
    congestion[s] # NoRow =>
        /\ congestion[s].gas = saturating_add(0, Total(job, CountedFor(s)))
        /\ RowPrice(congestion[s])

CountedInv ==
    /\ IsFiniteSet(counted)
    /\ \A c \in counted : fpc[c] = "done" /\ congestion[job[c].slot] # NoRow

PricingInv ==
    /\ TypeOK
    /\ CountedInv
    /\ \A c \in AllCalls : CallInv(c)
    /\ \A s \in Slots : RowInv(s)

\* The row of s stays, with its base price, and is not cheaper.
RowRises(s) ==
    congestion[s] # NoRow =>
        /\ congestion'[s] # NoRow
        /\ congestion'[s].base = congestion[s].base
        /\ \/ congestion'[s].price >= congestion[s].price
           \/ /\ congestion[s].gas = 0
              /\ congestion'[s].price >= price_at[congestion[s].base][ONE]

\* The invariant gives what the runs check.
LEMMA PricingInvImplies == PricingInv => TypeOK /\ NoGasLost /\ QuoteWithinBounds
<1> SUFFICES ASSUME PricingInv PROVE NoGasLost /\ QuoteWithinBounds
    BY DEF PricingInv
<1>1. NoGasLost
    <2>1. \A s : GasOf(s) = Total(job, CountedFor(s))
        BY DEF GasOf, Total, CountedFor
    <2> QED BY <2>1 DEF PricingInv, RowInv, NoGasLost
<1>2. QuoteWithinBounds
    BY DEF PricingInv, CallInv, QuoteWithinBounds, QuoteOk
<1> QED BY <1>1, <1>2

\* No row, no quote and nothing counted at the start.
LEMMA PricingStart == Init => PricingInv
<1> SUFFICES ASSUME Init PROVE PricingInv
    OBVIOUS
<1>1. TypeOK
    BY DEF Init, TypeOK, FeeStates
<1>2. CountedInv
    BY FS_EmptySet DEF Init, CountedInv
<1>3. \A s \in Slots : RowInv(s)
    BY DEF Init, RowInv
<1>4. \A c \in AllCalls : CallInv(c)
    BY PricingAssumption DEF Init, CallInv
<1> QED BY <1>1, <1>2, <1>3, <1>4 DEF PricingInv
-----------------------------------------------------------------------------
(* Steps.                                                                  *)

USE DEF tableVars, feeCallVars, feeVars

\* The gas of a call is positive and a u64.
LEMMA JobGas ==
    ASSUME TypeOK, NEW c \in AllCalls
    PROVE  job[c].slot \in Slots /\ job[c].gas \in 1 .. U64_MAX /\ job[c].gas \in Nat
<1>1. job[c].slot \in Slots /\ job[c].gas \in 1 .. U64_MAX
    BY PricingAssumption DEF TypeOK
<1> QED BY <1>1, PricingAssumption

\* A call that a step does not concern, in a table whose rows stay, keeps what it
\* relies on.
LEMMA OthersKept ==
    ASSUME PricingInv, NEW e \in AllCalls,
           UNCHANGED <<job, fpc[e], row[e], quote[e], gasPrice[e]>>,
           RowRises(job[e].slot),
           fpc[e] = "write" =>
              UNCHANGED <<lock[job[e].slot], congestion[job[e].slot]>>
    PROVE  CallInv(e)'
BY DEF PricingInv, CallInv, RowRises

\* A price is computed from a row that is, or has just become, the row of the slot.
LEMMA PriceKept ==
    ASSUME RoundingLaws, PricingInv, NEW c \in AllCalls, NEW r \in Congestion, Price(c, r),
           congestion'[job[c].slot] = r, UNCHANGED <<job, gasPrice, row>>,
           RowRises(job[c].slot)
    PROVE  /\ CallInv(c)'
           /\ quote' \in [AllCalls -> 0 .. U64_MAX \cup {NoQuote}]
           /\ fpc' \in [AllCalls -> FeeStates]
           /\ \A e \in AllCalls : e # c => UNCHANGED <<fpc[e], quote[e]>>
           /\ fpc'[c] \in {"done", "lock"}
<1> DEFINE p == projected_price(r, job[c].gas)
<1>1. p \in 0 .. U64_MAX /\ QuoteOk(p, r.base, job[c].gas)
    BY JobGas, ProjectedOk DEF PricingInv
<1>2. r # NoRow
    BY PricingAssumption
<1>3. /\ fpc \in [AllCalls -> FeeStates]
      /\ quote \in [AllCalls -> 0 .. U64_MAX \cup {NoQuote}]
      /\ CallInv(c)
    BY DEF PricingInv, TypeOK
<1> HIDE DEF p
<1>4. \/ fpc' = [fpc EXCEPT ![c] = "done"] /\ UNCHANGED quote
      \/ /\ quote' = [quote EXCEPT ![c] = p]
         /\ fpc' = [fpc EXCEPT ![c] = IF c \in FeeCalls THEN "done" ELSE "lock"]
    BY DEF Price, Goto, p
<1>5. /\ quote' \in [AllCalls -> 0 .. U64_MAX \cup {NoQuote}]
      /\ fpc' \in [AllCalls -> FeeStates]
      /\ \A e \in AllCalls : e # c => UNCHANGED <<fpc[e], quote[e]>>
      /\ fpc'[c] \in {"done", "lock"}
      /\ fpc'[c] = "lock" => c \in CommitCalls
      /\ quote'[c] = quote[c] \/ quote'[c] = p
    BY <1>1, <1>3, <1>4 DEF FeeStates, AllCalls
<1>6. quote'[c] # NoQuote => QuoteOk(quote'[c], r.base, job[c].gas)
    <2>1. CASE quote'[c] = p
        BY <1>1, <2>1
    <2>2. CASE quote'[c] = quote[c]
        BY <1>3, <2>2 DEF CallInv, RowRises
    <2> QED BY <1>5, <2>1, <2>2
<1>7. CallInv(c)'
    <2>1. (quote[c] # NoQuote => QuoteOk(quote[c], congestion[job[c].slot].base, job[c].gas))'
        BY <1>6
    <2> QED BY <1>2, <1>3, <1>5, <2>1 DEF CallInv
<1> QED BY <1>5, <1>7

\* A step that leaves rows, locks, quotes and gas alone.
LEMMA QuietStep ==
    ASSUME PricingInv, UNCHANGED <<congestion, lock, counted, job, row, quote>>, TypeOK',
           \A e \in AllCalls : gasPrice'[e] \in 0 .. U64_MAX,
           \A e \in AllCalls : \/ fpc'[e] = fpc[e]
                               \/ /\ fpc'[e] \in {"reth", "insert", "refetch", "done"}
                                  /\ fpc[e] # "done"
                                  /\ fpc'[e] = "refetch" => congestion[job[e].slot] # NoRow
    PROVE  PricingInv' /\ \A s \in Slots : RowRises(s)
<1>1. \A s \in Slots : RowRises(s)
    BY DEF RowRises, PricingInv, TypeOK, Congestion
<1>2. CountedInv'
    BY DEF PricingInv, CountedInv, TypeOK, AllCalls
<1>3. ASSUME NEW s \in Slots PROVE RowInv(s)'
    <2>1. RowInv(s) /\ CountedFor(s)' = CountedFor(s)
        BY DEF PricingInv, CountedFor
    <2>2. Total(job, CountedFor(s))' = Total(job, CountedFor(s))
        BY <2>1
    <2> QED BY <2>1, <2>2 DEF RowInv
<1>4. ASSUME NEW e \in AllCalls PROVE CallInv(e)'
    BY DEF PricingInv, CallInv
<1> QED BY <1>1, <1>2, <1>3, <1>4 DEF PricingInv

\* A row that is not touched, and for which nothing is counted, stays right.
LEMMA RowKept ==
    ASSUME PricingInv, NEW s \in Slots, UNCHANGED <<job, congestion[s]>>,
           CountedFor(s)' = CountedFor(s)
    PROVE  RowInv(s)' /\ RowRises(s)
<1>1. RowInv(s) /\ Total(job, CountedFor(s))' = Total(job, CountedFor(s))
    BY DEF PricingInv
<1>2. congestion[s] # NoRow => congestion[s].price \in Int
    BY PricingAssumption DEF PricingInv, TypeOK, Congestion
<1> QED BY <1>1, <1>2 DEF RowInv, RowRises

\* The first call of a slot makes its row; for a slot without a row nothing is
\* counted.
LEMMA InsertStep ==
    ASSUME RoundingLaws, PricingInv, NEW c \in AllCalls, InsertCongestion(c),
           congestion[job[c].slot] = NoRow
    PROVE  PricingInv' /\ \A s \in Slots : RowRises(s)
<1> DEFINE t == job[c].slot
           r == new_congestion(gasPrice[c])
<1>1. t \in Slots /\ gasPrice[c] \in 0 .. U64_MAX
    BY JobGas DEF PricingInv, CallInv
<1>2. /\ r \in Congestion
      /\ r.gas = 0
      /\ RowPrice(r)
      /\ r # NoRow
    BY <1>1, NewRowOk, PricingAssumption
<1>3. /\ congestion' = [congestion EXCEPT ![t] = r]
      /\ Price(c, r)
      /\ UNCHANGED <<clock, deaths, lock, counted, job, tries, gasPrice, row>>
      /\ congestion[t] = NoRow
    BY DEF InsertCongestion
<1>4. TypeOK /\ CountedInv
    BY DEF PricingInv
<1> HIDE DEF r, t
<1>5. /\ congestion' \in [Slots -> Congestion \cup {NoRow}]
      /\ congestion'[t] = r
      /\ \A s \in Slots : s # t => congestion'[s] = congestion[s]
    BY <1>1, <1>2, <1>3, <1>4 DEF TypeOK
<1>6. \A s : CountedFor(s)' = CountedFor(s)
    BY <1>3 DEF CountedFor
<1>7. ASSUME NEW s \in Slots PROVE RowInv(s)' /\ RowRises(s)
    <2>1. CASE s = t
        <3>1. RowRises(s)
            BY <1>3, <2>1 DEF RowRises
        <3>2. CountedFor(s) = {}
            BY <1>3, <1>4, <2>1 DEF CountedInv, CountedFor
        <3>3. Total(job, CountedFor(s))' = 0
            BY <1>6, <3>2, FS_EmptySet, TotalStep
        <3>4. saturating_add(0, 0) = 0
            BY PricingAssumption DEF saturating_add
        <3> QED BY <1>2, <1>5, <2>1, <3>1, <3>3, <3>4 DEF RowInv
    <2>2. CASE s # t
        BY <1>3, <1>5, <1>6, <2>2, RowKept
    <2> QED BY <2>1, <2>2
<1>8. /\ CallInv(c)'
      /\ quote' \in [AllCalls -> 0 .. U64_MAX \cup {NoQuote}]
      /\ fpc' \in [AllCalls -> FeeStates]
      /\ \A e \in AllCalls : e # c => UNCHANGED <<fpc[e], quote[e]>>
    BY <1>1, <1>2, <1>3, <1>5, <1>7, PriceKept DEF t
<1>9. ASSUME NEW e \in AllCalls PROVE CallInv(e)'
    <2>1. CASE e = c
        BY <1>8, <2>1
    <2>2. CASE e # c
        <3>1. job[e].slot \in Slots /\ RowRises(job[e].slot)
            BY <1>4, <1>7, JobGas
        <3>2. fpc[e] = "write" => job[e].slot # t
            BY <1>3 DEF PricingInv, CallInv
        <3> QED BY <1>3, <1>5, <1>8, <2>2, <3>1, <3>2, OthersKept
    <2> QED BY <2>1, <2>2
<1>10. TypeOK'
    BY <1>3, <1>4, <1>5, <1>8 DEF TypeOK
<1>11. CountedInv'
    <2>1. ASSUME NEW e \in counted
          PROVE  /\ e \in AllCalls /\ e # c
                 /\ fpc[e] = "done" /\ job[e].slot \in Slots /\ job[e].slot # t
                 /\ congestion[job[e].slot] # NoRow
        BY <1>3, <1>4, JobGas DEF CountedInv, TypeOK, AllCalls, InsertCongestion
    <2> QED BY <1>3, <1>4, <1>5, <1>8, <2>1 DEF CountedInv
<1> QED BY <1>7, <1>9, <1>10, <1>11 DEF PricingInv

\* A call that reads the row another has made.
LEMMA RefetchStep ==
    ASSUME RoundingLaws, PricingInv, NEW c \in AllCalls, RefetchCongestion(c)
    PROVE  PricingInv' /\ \A s \in Slots : RowRises(s)
<1> DEFINE r == congestion[job[c].slot]
<1>1. /\ fpc[c] = "refetch"
      /\ Price(c, r)
      /\ UNCHANGED <<clock, deaths, congestion, lock, counted, job, tries, gasPrice, row>>
    BY DEF RefetchCongestion
<1>2. TypeOK /\ CountedInv
    BY DEF PricingInv
<1>3. r \in Congestion
    BY <1>1, <1>2, JobGas DEF PricingInv, CallInv, TypeOK
<1>4. \A s \in Slots : RowInv(s)' /\ RowRises(s)
    BY <1>1, RowKept DEF CountedFor
<1>5. /\ CallInv(c)'
      /\ quote' \in [AllCalls -> 0 .. U64_MAX \cup {NoQuote}]
      /\ fpc' \in [AllCalls -> FeeStates]
      /\ \A e \in AllCalls : e # c => UNCHANGED <<fpc[e], quote[e]>>
    <2>1. job[c].slot \in Slots /\ congestion'[job[c].slot] = r
        BY <1>1, <1>2, JobGas
    <2> HIDE DEF r
    <2> QED BY <1>1, <1>3, <1>4, <2>1, PriceKept
<1>6. ASSUME NEW e \in AllCalls PROVE CallInv(e)'
    <2>1. CASE e = c
        BY <1>5, <2>1
    <2>2. CASE e # c
        <3>1. RowRises(job[e].slot)
            BY <1>2, <1>4, JobGas
        <3> QED BY <1>1, <1>5, <2>2, <3>1, OthersKept
    <2> QED BY <2>1, <2>2
<1>7. TypeOK'
    BY <1>1, <1>2, <1>5 DEF TypeOK
<1>8. CountedInv'
    <2>1. \A e \in counted : e \in AllCalls /\ e # c
        BY <1>1, <1>2 DEF CountedInv, TypeOK, AllCalls
    <2> QED BY <1>1, <1>2, <1>5, <2>1 DEF CountedInv
<1> QED BY <1>4, <1>6, <1>7, <1>8 DEF PricingInv

\* A lock is only given when no other transaction has it.
LEMMA LockStep ==
    ASSUME PricingInv, NEW c \in AllCalls, LockCongestion(c)
    PROVE  PricingInv' /\ \A s \in Slots : RowRises(s)
<1> DEFINE t == job[c].slot
<1>1. /\ fpc[c] = "lock"
      /\ lock[t] = NoCall
      /\ lock' = [lock EXCEPT ![t] = c]
      /\ row' = [row EXCEPT ![c] = congestion[t]]
      /\ fpc' = [fpc EXCEPT ![c] = "write"]
      /\ UNCHANGED <<clock, deaths, congestion, counted, job, tries, gasPrice, quote>>
    BY DEF LockCongestion, Goto
<1>2. TypeOK /\ CountedInv /\ CallInv(c) /\ t \in Slots
    BY JobGas DEF PricingInv
<1>3. c \in CommitCalls /\ congestion[t] \in Congestion \cup {NoRow}
    BY <1>1, <1>2 DEF CallInv, TypeOK
<1>4. TypeOK'
    BY <1>1, <1>2, <1>3 DEF TypeOK, FeeStates
<1>5. \A s \in Slots : RowInv(s)' /\ RowRises(s)
    BY <1>1, RowKept DEF CountedFor
<1>6. CountedInv'
    <2>1. \A e \in counted : e \in AllCalls /\ e # c
        BY <1>1, <1>2 DEF CountedInv, TypeOK, AllCalls
    <2> QED BY <1>1, <1>2, <2>1 DEF CountedInv, TypeOK
<1>7. ASSUME NEW e \in AllCalls PROVE CallInv(e)'
    <2>1. CASE e = c
        BY <1>1, <1>2, <1>3, <2>1 DEF CallInv, TypeOK
    <2>2. CASE e # c
        <3>1. job[e].slot \in Slots /\ RowRises(job[e].slot)
            BY <1>2, <1>5, JobGas
        <3>2. fpc[e] = "write" => lock'[job[e].slot] = lock[job[e].slot]
            <4> SUFFICES ASSUME fpc[e] = "write" PROVE job[e].slot # t
                BY <1>1, <1>2, <3>1 DEF TypeOK
            <4> QED BY <1>1, PricingAssumption DEF PricingInv, CallInv
        <3>3. UNCHANGED <<fpc[e], row[e]>>
            BY <1>1, <1>2, <2>2 DEF TypeOK
        <3> QED BY <1>1, <3>1, <3>2, <3>3, OthersKept
    <2> QED BY <2>1, <2>2
<1> QED BY <1>4, <1>5, <1>6, <1>7 DEF PricingInv

\* The gas of a call is added once, to the row as it is: the lock has kept every
\* other writer away since the row was read.
LEMMA WriteStep ==
    ASSUME RoundingLaws, PricingInv, NEW c \in AllCalls, WriteCongestion(c)
    PROVE  PricingInv' /\ \A s \in Slots : RowRises(s)
<1> DEFINE t == job[c].slot
           g == job[c].gas
           old == congestion[t]
           new == add_gas_usage(old, g)
<1>1. TypeOK /\ CountedInv /\ CallInv(c) /\ t \in Slots /\ g \in 1 .. U64_MAX /\ g \in Nat /\ RowInv(t)
    BY JobGas DEF PricingInv
<1>2. /\ fpc[c] = "write"
      /\ c \in CommitCalls
      /\ lock[t] = c
      /\ row[c] = old
      /\ old # NoRow
    BY <1>1 DEF WriteCongestion, CallInv
<1>3. /\ congestion' = [congestion EXCEPT ![t] = new]
      /\ counted' = counted \cup {c}
      /\ lock' = [s \in Slots |-> IF lock[s] = c THEN NoCall ELSE lock[s]]
      /\ fpc' = [fpc EXCEPT ![c] = "done"]
      /\ UNCHANGED <<clock, deaths, job, tries, gasPrice, row, quote>>
    BY <1>2 DEF WriteCongestion, Goto, Unlock
<1>4. old \in Congestion /\ RowPrice(old)
    BY <1>1, <1>2 DEF TypeOK, RowInv
<1> HIDE DEF new, old, g
<1>5. /\ new \in Congestion
      /\ new.gas = saturating_add(old.gas, g)
      /\ new.base = old.base
      /\ RowPrice(new)
      /\ \/ old.price <= new.price
         \/ old.gas = 0 /\ price_at[old.base][ONE] <= new.price
      /\ new # NoRow
    BY <1>1, <1>4, AddedRow, PricingAssumption DEF new
<1> HIDE DEF t
<1>6. /\ congestion' \in [Slots -> Congestion \cup {NoRow}]
      /\ congestion'[t] = new
      /\ \A s \in Slots : s # t => congestion'[s] = congestion[s]
    BY <1>1, <1>3, <1>5 DEF TypeOK
<1>7. \A s : CountedFor(s)' = IF s = t THEN CountedFor(s) \cup {c} ELSE CountedFor(s)
    BY <1>3 DEF CountedFor, t
<1>8. ASSUME NEW s \in Slots PROVE RowInv(s)' /\ RowRises(s)
    <2>1. CASE s = t
        <3> DEFINE before == CountedFor(t)
        <3>1. IsFiniteSet(before) /\ before \subseteq counted
            BY <1>1, FS_Subset DEF CountedInv, CountedFor
        <3>2. c \notin before
            BY <1>1, <1>2, <3>1 DEF CountedInv
        <3>3. \A e \in before \cup {c} : job[e].gas \in Nat
            BY <1>1, <3>1, JobGas DEF TypeOK, AllCalls
        <3> HIDE DEF before
        <3>4. Total(job, before \cup {c}) = Total(job, before) + g /\ Total(job, before) \in Nat
            BY <3>1, <3>2, <3>3, TotalAdd DEF g
        <3>5. old.gas = saturating_add(0, Total(job, before))
            BY <1>1, <1>2 DEF RowInv, before, old
        <3>6. new.gas = saturating_add(0, Total(job, before) + g)
            BY <1>1, <1>5, <3>4, <3>5, SaturatingAdd
        <3>7. Total(job, CountedFor(s))' = Total(job, before) + g
            BY <1>3, <1>7, <2>1, <3>4 DEF before
        <3>8. RowInv(s)'
            BY <1>5, <1>6, <2>1, <3>6, <3>7 DEF RowInv
        <3>9. old.price \in Int /\ new.price \in Int
            BY <1>4, <1>5, PricingAssumption DEF Congestion
        <3> QED BY <1>5, <1>6, <2>1, <3>8, <3>9 DEF RowRises, old
    <2>2. CASE s # t
        BY <1>3, <1>6, <1>7, <2>2, RowKept
    <2> QED BY <2>1, <2>2
<1>9. TypeOK'
    BY <1>1, <1>2, <1>3, <1>6 DEF TypeOK, FeeStates
<1>10. CountedInv'
    <2>1. IsFiniteSet(counted')
        BY <1>1, <1>3, FS_AddElement DEF CountedInv
    <2>2. ASSUME NEW e \in counted' PROVE fpc'[e] = "done" /\ congestion'[job'[e].slot] # NoRow
        <3>1. CASE e = c
            BY <1>1, <1>3, <1>5, <1>6, <3>1 DEF TypeOK, t
        <3>2. CASE e # c
            <4>1. /\ e \in AllCalls /\ job[e].slot \in Slots
                  /\ fpc[e] = "done" /\ congestion[job[e].slot] # NoRow
                BY <1>1, <1>3, <3>2, JobGas DEF CountedInv, TypeOK, AllCalls
            <4> QED BY <1>1, <1>3, <1>5, <1>6, <3>2, <4>1 DEF TypeOK
        <3> QED BY <3>1, <3>2
    <2> QED BY <2>1, <2>2 DEF CountedInv
<1>11. ASSUME NEW e \in AllCalls PROVE CallInv(e)'
    <2>1. job[e].slot \in Slots /\ RowRises(job[e].slot)
        BY <1>1, <1>8, JobGas
    <2>2. CASE e = c
        <3>1. fpc'[c] = "done"
            BY <1>1, <1>3 DEF TypeOK
        <3>2. quote[c] # NoQuote => QuoteOk(quote[c], new.base, job[c].gas)
            BY <1>1, <1>5 DEF CallInv, t, old
        <3>3. congestion'[job[c].slot] = new
            BY <1>6 DEF t
        <3> QED BY <1>1, <1>3, <1>5, <2>2, <3>1, <3>2, <3>3 DEF CallInv
    <2>3. CASE e # c
        <3>1. UNCHANGED fpc[e]
            BY <1>1, <1>3, <2>3 DEF TypeOK
        <3>2. fpc[e] = "write" => lock[job[e].slot] = e /\ job[e].slot # t
            BY <1>2, <2>3 DEF PricingInv, CallInv
        <3>3. fpc[e] = "write" => UNCHANGED <<lock[job[e].slot], congestion[job[e].slot]>>
            BY <1>3, <1>6, <2>1, <2>3, <3>2
        <3> QED BY <1>3, <2>1, <3>1, <3>3, OthersKept
    <2> QED BY <2>2, <2>3
<1> QED BY <1>8, <1>9, <1>10, <1>11 DEF PricingInv

\* Transactions that are rolled back, one or all of them, give their locks back and
\* leave the table as it was.
LEMMA RolledBack ==
    ASSUME PricingInv, TypeOK',
           UNCHANGED <<congestion, counted, job, gasPrice, row, quote>>,
           \A e \in AllCalls : \/ fpc'[e] = "done"
                               \/ fpc'[e] = fpc[e] /\ (fpc[e] = "write" => UNCHANGED lock[job[e].slot])
    PROVE  PricingInv' /\ \A s \in Slots : RowRises(s)
<1>1. \A s \in Slots : RowInv(s)' /\ RowRises(s)
    BY RowKept DEF CountedFor
<1>2. CountedInv'
    BY DEF PricingInv, CountedInv, TypeOK, AllCalls
<1>3. ASSUME NEW e \in AllCalls PROVE CallInv(e)'
    BY DEF PricingInv, CallInv
<1> QED BY <1>1, <1>2, <1>3 DEF PricingInv

\* One transaction fails.
LEMMA FailStep ==
    ASSUME PricingInv, NEW c \in AllCalls, TransactionFails(c)
    PROVE  PricingInv' /\ \A s \in Slots : RowRises(s)
<1>1. TypeOK
    BY DEF PricingInv
<1>2. TypeOK'
    BY <1>1 DEF TypeOK, TransactionFails, Goto, Unlock, FeeStates
<1>3. ASSUME NEW e \in AllCalls
      PROVE  \/ fpc'[e] = "done"
             \/ fpc'[e] = fpc[e] /\ (fpc[e] = "write" => UNCHANGED lock[job[e].slot])
    <2>1. CASE e = c
        BY <1>1, <2>1 DEF TypeOK, TransactionFails, Goto
    <2>2. CASE e # c
        <3>1. fpc[e] = "write" => lock[job[e].slot] = e /\ job[e].slot \in Slots
            BY <1>1, JobGas DEF PricingInv, CallInv
        <3> QED BY <1>1, <2>2, <3>1 DEF TypeOK, TransactionFails, Goto, Unlock
    <2> QED BY <2>1, <2>2
<1> QED BY <1>2, <1>3, RolledBack DEF TransactionFails

\* The process dies with all its transactions.
LEMMA CrashStep ==
    ASSUME PricingInv, Crash
    PROVE  PricingInv' /\ \A s \in Slots : RowRises(s)
<1>1. TypeOK
    BY DEF PricingInv
<1>2. TypeOK'
    BY <1>1, PricingAssumption DEF TypeOK, Crash, FeeStates
<1>3. \A e \in AllCalls : fpc'[e] = "done" \/ (fpc'[e] = fpc[e] /\ fpc[e] # "write")
    BY DEF Crash
<1> QED BY <1>2, <1>3, RolledBack DEF Crash

\* The other steps of a call move it on and read what the node answers.
LEMMA QuietCall ==
    ASSUME PricingInv, NEW c \in AllCalls,
           \/ StartCall(c) \/ RethAnswers(c) \/ RethFails(c) \/ RethGivesUp(c)
           \/ PricingFails(c)
           \/ InsertCongestion(c) /\ congestion[job[c].slot] # NoRow
    PROVE  PricingInv' /\ \A s \in Slots : RowRises(s)
<1>1. /\ TypeOK
      /\ \A e \in AllCalls : gasPrice[e] \in 0 .. U64_MAX
    BY DEF PricingInv, CallInv
<1>2. UNCHANGED <<clock, deaths, congestion, lock, counted, job, row, quote>>
    BY DEF StartCall, RethAnswers, RethFails, RethGivesUp, PricingFails, InsertCongestion
<1>3. \/ UNCHANGED gasPrice
      \/ \E p \in GasPrices : gasPrice' = [gasPrice EXCEPT ![c] = p]
    BY DEF StartCall, RethAnswers, RethFails, RethGivesUp, PricingFails, InsertCongestion
<1>4. UNCHANGED tries \/ tries' = [tries EXCEPT ![c] = @ + 1]
    BY DEF StartCall, RethAnswers, RethFails, RethGivesUp, PricingFails, InsertCongestion
<1>5. \/ UNCHANGED fpc
      \/ /\ fpc[c] # "done"
         /\ \/ fpc' = [fpc EXCEPT ![c] = "done"]
            \/ fpc' = [fpc EXCEPT ![c] = "reth"]
            \/ fpc' = [fpc EXCEPT ![c] = "insert"]
            \/ fpc' = [fpc EXCEPT ![c] = "refetch"] /\ congestion[job[c].slot] # NoRow
    BY DEF StartCall, RethAnswers, RethFails, RethGivesUp, PricingFails, InsertCongestion, Goto
<1>6. /\ gasPrice' \in [AllCalls -> Nat]
      /\ \A e \in AllCalls : gasPrice'[e] \in 0 .. U64_MAX
    <2>1. CASE UNCHANGED gasPrice
        BY <1>1, <2>1 DEF TypeOK
    <2>2. ASSUME NEW p \in GasPrices, gasPrice' = [gasPrice EXCEPT ![c] = p]
          PROVE  /\ gasPrice' \in [AllCalls -> Nat]
                 /\ \A e \in AllCalls : gasPrice'[e] \in 0 .. U64_MAX
        <3>1. p \in 0 .. U64_MAX /\ p \in Nat
            BY PricingAssumption
        <3>2. gasPrice \in [AllCalls -> Nat]
            BY <1>1 DEF TypeOK
        <3>3. ASSUME NEW e \in AllCalls PROVE gasPrice'[e] = p \/ gasPrice'[e] = gasPrice[e]
            BY <2>2, <3>2
        <3> QED BY <1>1, <2>2, <3>1, <3>2, <3>3
    <2> QED BY <1>3, <2>1, <2>2
<1>7. tries' \in [AllCalls -> Nat]
    BY <1>1, <1>4 DEF TypeOK
<1>8. fpc' \in [AllCalls -> FeeStates]
    BY <1>1, <1>5 DEF TypeOK, FeeStates
<1>9. TypeOK'
    BY <1>1, <1>2, <1>6, <1>7, <1>8 DEF TypeOK
<1>10. \A e \in AllCalls : \/ fpc'[e] = fpc[e]
                           \/ /\ fpc'[e] \in {"reth", "insert", "refetch", "done"}
                              /\ fpc[e] # "done"
                              /\ fpc'[e] = "refetch" => congestion[job[e].slot] # NoRow
    BY <1>1, <1>5 DEF TypeOK
<1> QED BY <1>2, <1>6, <1>9, <1>10, QuietStep

\* The clock, or nothing.
LEMMA QuietClock ==
    ASSUME PricingInv, Tick \/ UNCHANGED feeVars
    PROVE  PricingInv' /\ \A s \in Slots : RowRises(s)
<1>1. /\ TypeOK
      /\ \A e \in AllCalls : gasPrice[e] \in 0 .. U64_MAX
    BY DEF PricingInv, CallInv
<1>2. UNCHANGED <<deaths, congestion, lock, counted, fpc, job, tries, gasPrice, row, quote>>
    BY DEF Tick
<1>3. clock' \in Nat
    BY <1>1 DEF Tick, TypeOK
<1>4. TypeOK'
    BY <1>1, <1>2, <1>3 DEF TypeOK
<1> QED BY <1>1, <1>2, <1>4, QuietStep

\* Every step keeps the invariant, and no row gets cheaper.
LEMMA PricingStep ==
    ASSUME RoundingLaws, PricingInv, [Next]_feeVars
    PROVE  PricingInv' /\ \A s \in Slots : RowRises(s)
<1>1. CASE \E c \in AllCalls : StartCall(c) \/ FeeStep(c)
    <2>1. PICK c \in AllCalls : StartCall(c) \/ FeeStep(c)
        BY <1>1
    <2>2. CASE InsertCongestion(c)
        BY <2>2, InsertStep, QuietCall
    <2>3. CASE RefetchCongestion(c)
        BY <2>3, RefetchStep
    <2>4. CASE LockCongestion(c)
        BY <2>4, LockStep
    <2>5. CASE WriteCongestion(c)
        BY <2>5, WriteStep
    <2>6. CASE TransactionFails(c)
        BY <2>6, FailStep
    <2>7. CASE StartCall(c) \/ RethAnswers(c) \/ RethFails(c) \/ RethGivesUp(c) \/ PricingFails(c)
        BY <2>7, QuietCall
    <2> QED BY <2>1, <2>2, <2>3, <2>4, <2>5, <2>6, <2>7 DEF FeeStep
<1>2. CASE Crash
    BY <1>2, CrashStep
<1>3. CASE Tick \/ UNCHANGED feeVars
    BY <1>3, QuietClock
<1> QED BY <1>1, <1>2, <1>3 DEF Next
-----------------------------------------------------------------------------
(* The theorems.                                                           *)

\* The inductive invariant of the fee engine and its table.
THEOREM PricingInvariant == RoundingLaws => (Spec => []PricingInv)
<1> SUFFICES ASSUME RoundingLaws PROVE Spec => []PricingInv
    OBVIOUS
<1>1. Init => PricingInv
    BY PricingStart
<1>2. PricingInv /\ [Next]_feeVars => PricingInv'
    BY PricingStep
<1> QED BY <1>1, <1>2, PTL DEF Spec

\* Gas, prices and quotes keep their types, however much gas is added: nothing
\* leaves the range of a u64.
THEOREM PricingTypeCorrect == RoundingLaws => (Spec => []TypeOK)
<1>1. PricingInv => TypeOK
    BY PricingInvImplies
<1> QED BY <1>1, PricingInvariant, PTL

\* update_slot_congestion_gas_usage loses no update: whatever calls, rollbacks and
\* crashes come between, a row has the gas of exactly the calls that committed.
THEOREM NoUpdateLost == RoundingLaws => (Spec => []NoGasLost)
<1>1. PricingInv => NoGasLost
    BY PricingInvImplies
<1> QED BY <1>1, PricingInvariant, PTL

\* calculate_fee_for_commitment quotes within the configured bounds of the slot's
\* base price, as far as these are numbers that do not cross, and not below what
\* the call's own gas costs: with the rounding, the cut-offs and the special cases
\* of f64, and for every gas limit, exponent and pair of bounds a file can have.
THEOREM QuotesBounded == RoundingLaws => (Spec => []QuoteWithinBounds)
<1>1. PricingInv => QuoteWithinBounds
    BY PricingInvImplies
<1> QED BY <1>1, PricingInvariant, PTL

\* A slot keeps its base price and only gets dearer, but for the rounding of the
\* base price under its first gas: the multiplier never falls as gas is added, for
\* every gas limit and exponent.
THEOREM PricesOnlyRise == RoundingLaws => (Spec => PriceRises)
<1> SUFFICES ASSUME RoundingLaws PROVE Spec => PriceRises
    OBVIOUS
<1>1. PricingInv /\ [Next]_feeVars =>
        [\A s \in Slots : congestion[s] # NoRow =>
          /\ congestion'[s] # NoRow
          /\ congestion'[s].base = congestion[s].base
          /\ \/ congestion'[s].price >= congestion[s].price
             \/ /\ congestion[s].gas = 0
                /\ congestion'[s].price >= price_at[congestion[s].base][ONE]]_feeVars
    BY PricingStep DEF RowRises
<1>2. Spec => []PricingInv
    BY PricingInvariant
<1> QED BY <1>1, <1>2, PTL DEF Spec, PriceRises
=============================================================================
