------------------------------ MODULE FeePricing ------------------------------
(***************************************************************************)
(* Dynamic pricing: the fee engine (services/fee_pricing.rs) over the      *)
(* slot_congestion table (db/slot_congestion_ops.rs) and the execution     *)
(* node (api/reth.rs).  Two kinds of call use it: the fee method quotes a  *)
(* price, and commitment_request, once its row is stored, quotes one and   *)
(* then adds the commitment's gas to the slot.                             *)
(*                                                                         *)
(* Every finite f64 is a multiple of one unit (2^-1074).  An f64 is kept    *)
(* as that integer, with 1.0 as ONE of them, and an operation on two of     *)
(* them as the exact result, rounded; an infinity is any integer past       *)
(* F64_MAX, and NaN is a value of its own.                                  *)
(***************************************************************************)
EXTENDS BeaconTiming, FiniteSetsExt

CONSTANTS
    Slots,
    FeeCalls,           \* calls of the fee method
    CommitCalls,        \* calls of commitment_request past the INSERT
    Estimates,          \* values of estimate_gas_for_commitment
    GasPrices,          \* external: gas prices the execution node answers
    default_gas_limit,  \* 0 is not refused
    min_fee_multiplier, \* any f64, and so is the next: nothing compares them
    max_fee_multiplier,
    ONE,                \* 1.0, in units
    F64_MAX,            \* the largest finite f64, in units
    NaN,
    round(_, _),        \* the f64 nearest to a quotient of integers, in units
    powf(_),            \* external: ratio.powf(scaling_factor) of the library
    max_lookahead,      \* 10 in the code
    reth_max_retries,
    U64_MAX,            \* 2^64 - 1 in the code
    NoRow,
    NoCall,
    NoQuote,
    MaxTime,            \* bound: last second of the clock
    MaxCrashes          \* bound: crashes of the process

AllCalls == FeeCalls \cup CommitCalls

Congestion == [gas : 0 .. U64_MAX, base : 0 .. U64_MAX, price : 0 .. U64_MAX]

ASSUME PricingAssumption ==
    /\ Slots \subseteq Nat
    /\ FeeCalls \cap CommitCalls = {}
    /\ Estimates \subseteq 1 .. U64_MAX
    /\ GasPrices \subseteq 0 .. U64_MAX
    /\ default_gas_limit \in 0 .. U64_MAX
    /\ {max_lookahead, reth_max_retries, U64_MAX, MaxTime, MaxCrashes} \subseteq Nat
    /\ NoRow \notin Congestion
    /\ NoCall \notin AllCalls
    /\ NoQuote \notin 0 .. U64_MAX

\* Nothing about the two bounds but that they are f64.
ASSUME F64Assumption ==
    /\ ONE \in Nat \ {0} /\ F64_MAX \in Nat
    /\ NaN \notin Int
    /\ min_fee_multiplier \in Int \cup {NaN}
    /\ max_fee_multiplier \in Int \cup {NaN}

\* What is taken of the library, whose powf may be off in the last place: a power
\* of a ratio below 1.0 is NaN for every ratio, or rises to 1.0 with the ratio
\* (exponent 0 or more), or falls to 1.0 with it (a negative exponent).
ASSUME PowfAssumption ==
    \/ \A x \in 0 .. ONE : powf(x) = NaN
    \/ /\ \A x \in 0 .. ONE : powf(x) \in 0 .. ONE
       /\ \A x, y \in 0 .. ONE : x <= y => powf(x) <= powf(y)
    \/ /\ \A x \in 0 .. ONE : powf(x) \in Int /\ powf(x) >= ONE
       /\ \A x, y \in 0 .. ONE : x <= y => powf(x) >= powf(y)

\* IEEE 754: rounding keeps the order, and 0.0 and 1.0 are f64.  (Not an ASSUME:
\* it speaks of all integers.)
RoundingLaws ==
    /\ \A n \in Int, d \in Nat \ {0} : round(n, d) \in Int
    /\ \A n, m \in Int, d, e \in Nat \ {0} : n * e <= m * d => round(n, d) <= round(m, e)
    /\ round(0, 1) = 0
    /\ round(ONE, 1) = ONE

VARIABLES
    clock,        \* system clock
    deaths,       \* crashes so far
    congestion,   \* the slot_congestion table
    lock,         \* external: the row lock of SELECT ... FOR UPDATE
    fpc,          \* where each call is
    job,          \* its slot and its gas
    tries,        \* failed attempts of make_rpc_call
    gasPrice,     \* what the node answered
    row,          \* the row read under the lock
    quote,        \* the price per gas it was quoted
    counted       \* calls whose gas is in the table

tableVars == <<congestion, lock, counted>>
feeCallVars == <<fpc, job, tries, gasPrice, row, quote>>
feeVars == <<clock, deaths, tableVars, feeCallVars>>

FeeStates == {"ready", "reth", "insert", "refetch", "lock", "write", "done"}

\* The congestion table, its locks and the locals of every call have their types;
\* gas and prices stay within a u64.
TypeOK ==
    /\ clock \in Nat
    /\ deaths \in Nat
    /\ congestion \in [Slots -> Congestion \cup {NoRow}]
    /\ lock \in [Slots -> CommitCalls \cup {NoCall}]
    /\ fpc \in [AllCalls -> FeeStates]
    /\ job \in [AllCalls -> [slot : Slots, gas : Estimates]]
    /\ tries \in [AllCalls -> Nat]
    /\ gasPrice \in [AllCalls -> Nat]
    /\ row \in [AllCalls -> Congestion \cup {NoRow}]
    /\ quote \in [AllCalls -> 0 .. U64_MAX \cup {NoQuote}]
    /\ counted \subseteq CommitCalls

\* The request of each call is given from the start.
Init ==
    /\ clock = 0
    /\ deaths = 0
    /\ congestion = [s \in Slots |-> NoRow]
    /\ lock = [s \in Slots |-> NoCall]
    /\ fpc = [c \in AllCalls |-> "ready"]
    /\ job \in [AllCalls -> [slot : Slots, gas : Estimates]]
    /\ tries = [c \in AllCalls |-> 0]
    /\ gasPrice = [c \in AllCalls |-> 0]
    /\ row = [c \in AllCalls |-> NoRow]
    /\ quote = [c \in AllCalls |-> NoQuote]
    /\ counted = {}

Goto(c, label) == fpc' = [fpc EXCEPT ![c] = label]
-----------------------------------------------------------------------------
(* The congestion formula.                                                 *)

\* `as f64` of an integer.
as_f64(n) == round(n * ONE, 1)

\* gas_used_ratio: the share of the slot that is taken.
gas_used_ratio(gas) == round(as_f64(gas) * ONE, as_f64(default_gas_limit))

\* 1.0 - ratio.powf(k)
headroom(gas) == round(ONE - powf(gas_used_ratio(gas)), 1)

clamp(x, low, high) == IF x < low THEN low ELSE IF x > high THEN high ELSE x

\* 1 / (1 - ratio^k) between 1 and 100: 100 without a limit, from a full slot on,
\* and where the quotient is not finite; 1 where it is negative.
fee_multiplier[gas \in 0 .. U64_MAX] ==
    IF \/ default_gas_limit = 0
       \/ gas_used_ratio(gas) >= ONE
       \/ powf(gas_used_ratio(gas)) = NaN
       \/ headroom(gas) = 0
    THEN 100 * ONE
    ELSE IF headroom(gas) < 0 THEN ONE
    ELSE clamp(round(ONE * ONE, headroom(gas)), ONE, 100 * ONE)

\* f64::max and f64::min: a NaN does not count.
f64_max(x, y) == IF y # NaN /\ y > x THEN y ELSE x
f64_min(x, y) == IF y # NaN /\ y < x THEN y ELSE x

\* Mutant: the lower bound is forgotten.
bounded_above(m) == f64_min(m, max_fee_multiplier)

\* The multiplier within the bounds of the configuration; where they cross, the
\* upper one decides.
bounded(m) == f64_min(f64_max(m, min_fee_multiplier), max_fee_multiplier)

is_finite(x) == x \in -F64_MAX .. F64_MAX

\* Rounded up to a whole number.
ceil(x) == (x + ONE - 1) \div ONE

\* base_gas_price * multiplier, rounded up, and cut off at both ends of u64; not
\* finite, it is the largest u64.
price_at[base \in 0 .. U64_MAX] == [m \in Int |->
    LET scaled == round(as_f64(base) * m, ONE) IN
    IF is_finite(m) /\ is_finite(scaled) THEN clamp(ceil(scaled), 0, U64_MAX) ELSE U64_MAX]

saturating_add(a, b) == IF a + b > U64_MAX THEN U64_MAX ELSE a + b

new_congestion(base) == [gas |-> 0, base |-> base, price |-> base]

\* current_tx_price of a slot with this gas.  Without a limit it is computed in
\* integers; with one, a u64 times at most 100.0 is finite.
price_of(base, gas) ==
    IF default_gas_limit = 0
    THEN IF base * 100 > U64_MAX THEN U64_MAX ELSE base * 100
    ELSE price_at[base][fee_multiplier[gas]]

\* Mutant: the sum is cut off for the price and not for the row.
add_gas_usage_plain(r, gas) ==
    [r EXCEPT !.gas = @ + gas, !.price = price_of(r.base, saturating_add(r.gas, gas))]

add_gas_usage(r, gas) ==
    LET total == saturating_add(r.gas, gas) IN
    [r EXCEPT !.gas = total, !.price = price_of(r.base, total)]

\* calculate_projected_congestion: what the price would be with this gas added.
projected_price(r, gas) ==
    price_at[r.base][bounded(fee_multiplier[saturating_add(r.gas, gas)])]
-----------------------------------------------------------------------------
(* calculate_fee_for_commitment.                                           *)

is_slot_acceptable_for_fees(s) ==
    LET current == current_slot_estimate(clock) IN
    current <= s /\ s <= current + max_lookahead

\* The fee method turns a slot out of range down; commitment_request does not
\* look at it.
StartCall(c) ==
    /\ fpc[c] = "ready"
    /\ Goto(c, IF c \in FeeCalls /\ ~is_slot_acceptable_for_fees(job[c].slot)
               THEN "done" ELSE "reth")
    /\ UNCHANGED <<clock, deaths, tableVars, job, tries, gasPrice, row, quote>>

RethAnswers(c) ==
    /\ fpc[c] = "reth"
    /\ tries[c] < reth_max_retries
    /\ \E p \in GasPrices : gasPrice' = [gasPrice EXCEPT ![c] = p]
    /\ Goto(c, "insert")
    /\ UNCHANGED <<clock, deaths, tableVars, job, tries, row, quote>>

\* No answer, a bad status or no JSON: tried again up to reth_max_retries times.
RethFails(c) ==
    /\ fpc[c] = "reth"
    /\ tries[c] < reth_max_retries
    /\ tries' = [tries EXCEPT ![c] = @ + 1]
    /\ UNCHANGED <<clock, deaths, tableVars, fpc, job, gasPrice, row, quote>>

\* All attempts are used up, or the node answers with an error.
RethGivesUp(c) ==
    /\ fpc[c] = "reth"
    /\ Goto(c, "done")
    /\ UNCHANGED <<clock, deaths, tableVars, job, tries, gasPrice, row, quote>>

\* The price for c on the row r; the total cost is computed with checked_mul.
Price(c, r) ==
    LET p == projected_price(r, job[c].gas) IN
    IF p * job[c].gas > U64_MAX
    THEN Goto(c, "done") /\ UNCHANGED quote
    ELSE /\ quote' = [quote EXCEPT ![c] = p]
         /\ Goto(c, IF c \in FeeCalls THEN "done" ELSE "lock")

\* Mutant: ON CONFLICT DO UPDATE.
UpsertCongestion(c) ==
    /\ fpc[c] = "insert"
    /\ congestion' = [congestion EXCEPT ![job[c].slot] = new_congestion(gasPrice[c])]
    /\ Price(c, new_congestion(gasPrice[c]))
    /\ UNCHANGED <<clock, deaths, lock, counted, job, tries, gasPrice, row>>

\* INSERT ... ON CONFLICT (slot) DO NOTHING RETURNING id: the first call of a
\* slot fixes its base price.
InsertCongestion(c) ==
    /\ fpc[c] = "insert"
    /\ IF congestion[job[c].slot] = NoRow
       THEN /\ congestion' = [congestion EXCEPT ![job[c].slot] = new_congestion(gasPrice[c])]
            /\ Price(c, new_congestion(gasPrice[c]))
       ELSE Goto(c, "refetch") /\ UNCHANGED <<congestion, quote>>
    /\ UNCHANGED <<clock, deaths, lock, counted, job, tries, gasPrice, row>>

\* Another call has made the row: read it.
RefetchCongestion(c) ==
    /\ fpc[c] = "refetch"
    /\ Price(c, congestion[job[c].slot])
    /\ UNCHANGED <<clock, deaths, tableVars, job, tries, gasPrice, row>>

PricingFails(c) ==
    /\ fpc[c] \in {"insert", "refetch"}
    /\ Goto(c, "done")
    /\ UNCHANGED <<clock, deaths, tableVars, job, tries, gasPrice, row, quote>>
-----------------------------------------------------------------------------
(* update_slot_congestion_gas_usage: one transaction.                      *)

\* Mutant: SELECT without FOR UPDATE.
ReadCongestion(c) ==
    /\ fpc[c] = "lock"
    /\ row' = [row EXCEPT ![c] = congestion[job[c].slot]]
    /\ Goto(c, "write")
    /\ UNCHANGED <<clock, deaths, tableVars, job, tries, gasPrice, quote>>

\* SELECT ... FOR UPDATE waits until no other transaction holds the row.
LockCongestion(c) ==
    /\ fpc[c] = "lock"
    /\ lock[job[c].slot] = NoCall
    /\ lock' = [lock EXCEPT ![job[c].slot] = c]
    /\ row' = [row EXCEPT ![c] = congestion[job[c].slot]]
    /\ Goto(c, "write")
    /\ UNCHANGED <<clock, deaths, congestion, counted, job, tries, gasPrice, quote>>

Unlock(c) ==
    lock' = [s \in Slots |-> IF lock[s] = c THEN NoCall ELSE lock[s]]

\* UPDATE and COMMIT.  The answer to the commit may be lost.
WriteCongestion(c) ==
    /\ fpc[c] = "write"
    /\ congestion' = [congestion EXCEPT ![job[c].slot] = add_gas_usage(row[c], job[c].gas)]
    /\ counted' = counted \cup {c}
    /\ Unlock(c)
    /\ Goto(c, "done")
    /\ UNCHANGED <<clock, deaths, job, tries, gasPrice, row, quote>>

\* Mutant: the row stays locked after an error.
TransactionHangs(c) ==
    /\ fpc[c] \in {"lock", "write"}
    /\ Goto(c, "done")
    /\ UNCHANGED <<clock, deaths, tableVars, job, tries, gasPrice, row, quote>>

\* The transaction is rolled back; commitment_request logs it and answers.
TransactionFails(c) ==
    /\ fpc[c] \in {"lock", "write"}
    /\ Unlock(c)
    /\ Goto(c, "done")
    /\ UNCHANGED <<clock, deaths, congestion, counted, job, tries, gasPrice, row, quote>>
-----------------------------------------------------------------------------
\* The process dies: its transactions are rolled back.
Crash ==
    /\ deaths < MaxCrashes
    /\ deaths' = deaths + 1
    /\ fpc' = [c \in AllCalls |-> IF fpc[c] = "ready" THEN "ready" ELSE "done"]
    /\ lock' = [s \in Slots |-> NoCall]
    /\ UNCHANGED <<clock, congestion, counted, job, tries, gasPrice, row, quote>>

Tick ==
    /\ clock < MaxTime
    /\ clock' = clock + 1
    /\ UNCHANGED <<deaths, tableVars, feeCallVars>>

FeeStep(c) ==
    \/ RethAnswers(c) \/ RethFails(c) \/ RethGivesUp(c)
    \/ InsertCongestion(c) \/ RefetchCongestion(c) \/ PricingFails(c)
    \/ LockCongestion(c) \/ WriteCongestion(c) \/ TransactionFails(c)

Next ==
    \/ \E c \in AllCalls : StartCall(c) \/ FeeStep(c)
    \/ Crash \/ Tick

Spec == Init /\ [][Next]_feeVars

\* The steps the code takes when no database error comes to its help.
Undisturbed(c) ==
    \/ RethAnswers(c) \/ RethFails(c) \/ RethGivesUp(c)
    \/ InsertCongestion(c) \/ RefetchCongestion(c)
    \/ LockCongestion(c) \/ WriteCongestion(c)

\* The runtime polls every call, and the database grants a lock that comes free
\* again and again.
FairSpec ==
    /\ Spec
    /\ \A c \in AllCalls : WF_feeVars(Undisturbed(c))
    /\ \A c \in CommitCalls : SF_feeVars(LockCongestion(c))
-----------------------------------------------------------------------------
(* Properties.                                                             *)

GasOf(s) == MapThenSumSet(LAMBDA c : job[c].gas, {c \in counted : job[c].slot = s})

\* No update is lost: the row of a slot holds the gas of exactly the calls whose
\* transaction committed, whatever calls and crashes came between.
NoGasLost ==
    \A s \in Slots : congestion[s] # NoRow => congestion[s].gas = saturating_add(0, GasOf(s))

\* A slot keeps the base price of the call that created its row, and its price
\* never falls: congestion only makes a slot dearer.  The first gas replaces the
\* integer base price by the f64 nearest to it, which may be below it.
PriceRises ==
    [][\A s \in Slots : congestion[s] # NoRow =>
          /\ congestion'[s] # NoRow
          /\ congestion'[s].base = congestion[s].base
          /\ \/ congestion'[s].price >= congestion[s].price
             \/ /\ congestion[s].gas = 0
                /\ congestion'[s].price >= price_at[congestion[s].base][ONE]]_feeVars

\* A quote rests on the base price the slot was created with, whoever created it.
\* It is at most what the configured maximum makes of it.  It is at least what the
\* minimum makes of it, and what the call's own gas would cost in an empty slot, as
\* far as the maximum lets it.  A bound that is NaN bounds nothing, nor does a
\* negative minimum.
QuoteWithinBounds ==
    \A c \in AllCalls : quote[c] # NoQuote =>
        /\ congestion[job[c].slot] # NoRow
        /\ LET base == congestion[job[c].slot].base IN
           /\ max_fee_multiplier # NaN => quote[c] <= price_at[base][max_fee_multiplier]
           /\ \A m \in {min_fee_multiplier, fee_multiplier[job[c].gas]} :
                 m # NaN /\ m >= 0 => quote[c] >= price_at[base][f64_min(m, max_fee_multiplier)]

\* Every call ends: no call waits for ever for the lock of a row.
FeeCallsEnd == \A c \in AllCalls : fpc[c] # "ready" ~> fpc[c] = "done"
=============================================================================
