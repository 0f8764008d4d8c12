# The preconfirmation gateway in TLA+

This directory holds a formal model of the preconfirmation gateway: TLA+
modules translated from the Rust source and the SQL migrations, TLC
configurations that check them on small instances, and theorems checked by
TLAPS. `PROJECT.json` lists components, runs, mutants, the map from definitions
to source lines, the findings, the hazards and the theorems.

## 1. The system

A client asks the gateway for an *inclusion commitment*: a signed promise that
its transaction will be in the block of a slot. The gateway may promise on
behalf of a proposer that has *delegated* the slot to it. Commitments are later
posted to a relay as *constraints*, before the slot's deadline.

| Component | State | Operations | Talks to |
|---|---|---|---|
| `commitment_request` / `commitment_result` (`rpc/handlers.rs`) | locals of each call | type, whitelist, payload, duplicate, delegation, beacon, sign, INSERT, fee, gas; lookup by hash | all tables, beacon node, fee engine |
| Commitments table (`db/operations.rs`, migrations 001, 009) | one row per request hash, `constraint_processed` | exists, insert-or-nothing, unprocessed of a slot, mark | shared by handler and submission job |
| Delegations table (`db/delegation_ops.rs`, migration 003) | one row per (proposer, slot), `is_active` | batch insert-or-nothing, active ones of a slot, deactivate | shared by handler, submission job, poller |
| Constraint submission (`services/constraint_submission.rs`, `api/constraints.rs`) | locals of each run | every 2 s: for the current and the next 3 slots in their window, per delegation to our key: read, sign, post with retries, mark | both tables, relay |
| Delegation polling (`services/delegation_polling.rs`) | locals of each run | every 30 s: fetch, filter, verify, vet, store; every 5 min: expire, vet again, drop | delegations, status cache, relay |
| Validator status cache (`services/validator_status_cache.rs`, `api/beacon.rs`) | entries with a time to live | get, or fetch and insert | beacon node |
| Fee engine, slot congestion (`services/fee_pricing.rs`, `db/slot_congestion_ops.rs`, `api/reth.rs`) | one row per slot | quote; add gas under a row lock | execution node, `slot_congestion` |
| `slots` (`rpc/handlers.rs`) | none | slots the gateway offers, from the clock | |
| Direct submission (`submit_constraint_now`) | locals of each call | find a delegation, sign, post under a timer that ends with the deadline | delegations, relay |
| Start-up (`main.rs`, `server.rs`, `db/mod.rs`) | stage of `main`, tasks, ports | configuration, database, migrations, clients, jobs, servers | database, other replicas |
| Configuration (`config.rs`) | none after start | file, environment, keys, checks | |
| Metrics (`metrics.rs`, updater in `main.rs`) | gauges | every 15 s: four statistics queries, then their gauges one by one | all tables |
| Encodings (`crypto/`, `types/`) | none | hex, ABI, JSON and RLP forms, hashes, signatures | everyone |
| Address handling (`utils/address.rs`, `crypto/mod.rs`) | none | normalize, parse, CHECK | everyone, inconsistently |

What is hard here: JSON-RPC calls and cron runs interleave at every `await`; cron
runs overlap themselves; two statements of one handler are not one transaction;
the relay's answer may be lost or the post arrive late; the process may die
between any two steps; the clock moves while a run works; answers of the beacon
node are cached; addresses are strings; several replicas may start over one
database; the same value travels as JSON, ABI words, columns and JSON again.

What makes the components correct:

* handler: a commitment is stored only on a stored, verified delegation of the
  slot's scheduled proposer (it was active when it was read and may have been
  deactivated by the INSERT: nothing in the code holds it), at most one call per
  request is answered with it, and what was answered can be looked up; nothing
  invalid leaves a row, and gas is counted once at most;
* submission: nothing is posted that was not promised and delegated, nothing is
  marked that was not taken in, nothing promised is left behind, runs end;
* polling: what is stored was vetted, what is slashed is dropped;
* pricing: no gas is lost, quotes stay in the configured bounds, no call hangs;
* direct submission and `slots`: a caller told Ok is in time, an offered slot is
  still open while the slot of the offer lasts;
* start-up: jobs run only over the full schema, on the keys of the environment
  and on three endpoints that were checked; replicas do not wait for each other
  for ever;
* metrics: no exported part exceeds its total while the gauges are set one by
  one, totals never fall;
* encodings: what is stored is what was signed, a hash stands for one request,
  clients can verify what they are answered, and a post holds the committed bytes.

Not modelled, and why:

* cryptography itself: keccak is injective, BLS and ECDSA signatures are over
  exactly what they are given and are not forged;
* the text of logs and of the metrics export (`render_metrics`), and the values of
  the gauges of congestion and prices, which nothing else refers to (hence "partly");
* what a relay makes of a post: the module ends at the names, numbers and bytes the
  gateway serialises (see the observations below);
* the order of the beacon client's fallback endpoints: a caller sees an answer or
  a failure, whichever endpoint it came from (hence "partly");
* the tables of migrations 004 and 005 and `types/database.rs`: nothing uses them;
* functions without a caller: `InclusionPayload::validate`, `tx_hash`,
  `get_batch_status`, `cleanup_old_slot_congestion`,
  `get_current_gas_price_for_slot`, `MetricsRegistry::update_metrics`. The
  single-row and lookup queries of `delegation_ops.rs` and `submit_constraint_now`
  are part of the services' interface and are modelled although only tests call
  them today;
* `DatabaseContext`, which passes every call on to the functions that are
  modelled, and `testing/`.

## 2. The modules

| Module | Models | Extends |
|---|---|---|
| `GatewayTypes` | slots, addresses as (account, spelling) | |
| `BeaconTiming` | slot of a time, deadline, window | |
| `CommitmentStore`, `DelegationStore` | the two tables, one operator per query | `GatewayTypes` |
| `CommitmentHandler` | calls of `commitment_request` | both stores |
| `ConstraintSubmission` | runs of the submission job, the relay client's retries, the relay | timing, both stores |
| `Gateway` | calls and runs together, one crash for both | handler, submission |
| `PreconfPromise` | what the gateway promises, without calls, runs or tables | |
| `ValidatorStatusCache` | cache and beacon node | `GatewayTypes` |
| `DelegationPolling` | polls and cleanups | timing, delegations, cache |
| `FeePricing` | pricing, congestion rows, row locks | timing |
| `SlotsMethod` | the `slots` method | timing |
| `DirectSubmission` | `submit_constraint_now` beside the runs of the job | submission, slots |
| `Configuration` | `Config::load` | |
| `Process` | `main` in several replicas over one database | configuration |
| `Metrics` | statistics queries, gauges, updater | both stores |
| `GatewayProcess` | replicas, the rows their jobs write, the gauges of one | process, metrics |
| `Abi`, `Payload` | ABI words; JSON and RLP payloads | |
| `Signing` | hex, JSON forms, hashes, what signatures are over | `Abi`, `Payload` |
| `Encodings` | a delegation, a request and a constraint from bytes to bytes | signing |
| `*_proofs` | theorems: submission with the tables, handler, `Gateway`, direct submission, polling with its cache, pricing, `Process` (start-up and metrics), encodings | the module they are about |
| `MC*` | instances for TLC | |

Conventions. Each action is what one task does between two awaits (or less, where
another thread can look in between, as at the gauges); the guard is
the code's condition, the program counter (`hpc`, `spc`, `ppc`, `fpc`) names the
await the task is at. A call that can fail has an action for its failure. Each
mutant stands next to the definition it is a mutant of and is used by no
specification. In `PROJECT.json` the map gives, for each definition, the whole item
it translates, from the first line of the item's own documentation to its end.

* **CommitmentHandler.** `Receive` does all that happens before the first await
  and answers with the error of the first check that fails (`Rejection`, in the
  order of the code). `CheckDuplicate`, `FindDelegation`, `CheckProposer`,
  `SaveCommitment`, `CalculateFee`, `ApplyGas` are the awaits in order, and `Reply`
  is what follows the last: the process may die with the gas counted and nobody told.
  `SaveFails` may leave the row behind: a connection can break after the commit.
  `answer` is a history variable, what the client was told; `gas` counts how often the gas of
  a commitment was applied. `FindDelegation` picks any matching delegation because the
  query has no ORDER BY.
* **ConstraintSubmission.** A run fixes its range of slots when it starts, checks
  each slot's window, reads delegations, then per delegation reads commitments,
  posts and marks. `PostUnanswered` is every answer after which the client does not know what the
  relay did: the post is lost, taken in with the answer lost, or still under way (`inflight`,
  delivered by `LateDelivery`). `Restart` forgets runs but not tables. In this module
  handler and poller are reduced to what they do to the tables.
* **Gateway** takes the actions of both modules, with the handler in place of
  that reduction (the handler's specification is `HandlerSpec`, the job's `Spec`, the
  whole `GatewaySpec`). `GatewayAssumption` says that both are told of the same
  outside: one set of delegations, and as commitments those the handler may store. `PreconfPromise` is the abstract specification; the mapping is:
  stored = hashes with a row, promised = (call, hash) answered as signed, posted =
  hashes in messages taken in, settled = processed rows.
* **ValidatorStatusCache** keeps ages instead of times; `sinceTrue` is a history
  variable that says how long ago a status was true of a validator.
* **DelegationPolling** shares one sequence of actions for `get_status` between
  the two jobs. A late answer is inserted over a newer one, as in the code.
* **FeePricing** keeps an `f64` as an integer of units (every finite one is a
  multiple of 2^-1074), with `ONE` of them for 1.0, an infinity as any integer past
  `F64_MAX` and NaN as a value of its own; each operation is the exact result,
  rounded. The rounding and the library's `powf` are parameters. The bounds of the
  configuration are any `f64`, the limit any `u64`, 0 included, integers end at
  `U64_MAX`. A row lock of Postgres is a variable, freed at the end of the transaction.

* **DirectSubmission** adds calls to the runs of `ConstraintSubmission`. The code
  takes the time left as whole seconds from a clock read in whole seconds, so
  its timer ends within the deadline second; in the model a second does not end
  before the timers that end in it have fired (`Overdue`). That is an assumption
  about the runtime: its executor is not starved for a second.
* **Configuration** keeps texts as the forms the checks tell apart: an endpoint
  that is empty, has the placeholder of its own variable, one of the other texts the
  checks name, a placeholder of another name (which no check sees), no scheme, or
  is a URL. The fallback endpoints are kept as the file has them: nothing
  substitutes or checks them. The environment may name the development keys.
* **Process** has one action per await of `main`. `End` is an error that `main`
  passes on, or a kill: tasks and ports are gone, the lock is free, the database
  stays as it is. The lock around the migrations is sqlx's and external.
* **Metrics** has one action for each query and one for each `set()` call
  (`SetGauge`, in the order of `Place`): the metrics server is another task and may
  read between any two. The groups of congestion and of prices are one turn of the loop.
* **Encodings** runs calls one at a time, because interleavings are the other
  modules' business, and follows values: hex as prefix, case and bytes; a payload
  as form, slot and transaction; a word as a number; a hash or
  signature as a record of what it is over. A relay may offer any delegation
  under any signature it has seen (`Offered`). The encoder of `Abi` has an operator per
  level of nesting (bytes, tuple, array, message), since the deepest value the gateway
  encodes is an array of tuples of bytes; what it does with raw bytes is computed, so bytes that
  look like a length or an offset are not excluded. How a slot is written in a
  payload is a constant, `SlotText`: any fixed way will do, as a payload's bytes are the client's.

## 3. The runs

| Run | Bounds | States | Shows |
|---|---|---|---|
| `SubmissionSafety` | 2 runs, 1 direct call, 2 commitments, 2 delegations (one to another gateway), a slot of 3 ticks with its deadline at 1, 2 attempts, 1 crash | 652,066 | `ProcessedWasAccepted`, `PostsAreBacked`, `RowsKept`, `DirectInTime`, `ListedSlotsAreOpen` |
| `HandlerSafety` | 2 calls, 9 requests (each way to be turned down, 4 spellings), 4 delegations, 1 crash | 141,908 | authority, lookup, one answer per hash, gas once, invalid leaves nothing |
| `GatewaySafety` | 2 calls, 1 run, 2 proposers, 1 crash | 538,400 | `KeepsPromise` (refinement), `PostsRestOnSchedule` |
| `GatewayLiveness` | 1 call, 1 run, 2 attempts, 2 proposers, 2 spellings, 1 crash | 62,632 | `CallsEnd`, `RunsEnd`, `SameSpellingIsConstrained` |
| `Polling` | 1 poll, 1 cleanup, 1 validator, 2 slots of which none expires, TTL 2, latency 1, 1 restart | 47,365 | `StoredWasVetted`, `CacheIsFresh`, `JobsEnd`, `SlashedIsDropped` |
| `Pricing` | 2 commitments, 1 quote, gas of 9 or 3000 in a slot of 16, gas price 0 or 33, integers to 4000, `f64` of 5 significant bits, bounds 1.8125 and 12.5, exponent 1.5, 1 crash | 129,520 | `NoGasLost`, `QuoteWithinBounds`, `PriceRises`, `FeeCallsEnd` |
| `Process` | 2 replicas, 3 starts, 2 migrations; 2 good deployments (own hosts, one host), 30 with one thing wrong | 79,127 | `JobsNeedSchema`, `RunsConfigured`, `StartEnds`, `GaugesCoherent`, `TotalsNeverFall` |
| `Encodings` | 2 signed delegations out of 6, 2 commitments, 11 payload forms, 4 spellings, integers to 7 and 15 | 18,526 | `DelegationsAuthentic`, `RequestHashBinds`, `AnswersVerify`, `ReadersAgree`, `PostsAreGranted`, `LookupsAgree` |

Why the bounds are enough to be interesting: two runs or calls are what a race
needs, and the theorems lift most safety properties to any number; two
commitments let one be stored while the other is being posted; two attempts give
a retry and an exhausted loop; three ticks per slot put the clock before, at
and after the deadline; one crash can fall between any two steps; a TTL above the
latency lets an entry outlive and be overwritten by an answer; in the pricing
instance two commitments overfill the slot and two large ones overflow the integers, and
the base price, the quotients and the powers are not numbers of the format;
in `Polling` no slot passes, so that only the status check can drop a delegation;
two replicas and three starts let one fail, die or wait at each stage of the other
and start again; in `Encodings` the gateway's key also proposes and its domain is
that of delegations, words are two bytes so that padding, lengths and offsets
are all there, and slots lie on both sides of the end of i64 and u64.
Symmetry is used only in safety runs, over calls, runs or hashes, which no
definition tells apart. Deadlock is checked except where the finitely many
calls, starts or signatures of an instance may all be used up (`HandlerSafety`,
`Pricing`, `Process`, `Encodings`).

Fairness. Weak fairness of each task's next step: tokio polls every task, cron
fires again and again, and every await ends because HTTP clients and the pool
have timeouts. Termination (`CallsEnd`, `RunsEnd`, `JobsEnd`) is checked under
that alone. `FeeCallsEnd` in addition assumes that Postgres grants a row lock
that comes free again and again, and does not count on database errors to
end a call. `StartEnds` likewise assumes that every await of `main` ends and that a
migration lock that comes free again and again is granted, and does not count on
database errors or kills to end a start. The two properties about the outside doing its part have it as a
premise (`Outside => ...`): for no slot do database and relay fail every time
they are asked, and, for polling, time passes. Nothing is assumed of clients,
of the relay's delivery of late posts, of the chain or of crashes.

### Findings

Four runs are expected to end in a violation; each states what a document, a
comment or a log line of the repository says.

* `SignedIsConstrained`: the handler matches slasher and committer normalized,
  the submission job compares the strings. A commitment signed for the same
  account in another letter case is never turned into a constraint
  (`constraint_submission.rs:503`). `SameSpellingIsConstrained` shows that this
  is the only way a signed commitment is left behind in the instance.
* `NamesScheduledProposer`: with delegations of two proposers stored for a slot,
  a message is posted under the one that is not scheduled
  (`constraint_submission.rs:323`).
* `NoLateMessage`: the window is checked before the queries, the post and its
  retries; the post may land after the deadline (`constraint_submission.rs:213`).
* `DroppedIsGone`: a status read before a validator's activation, inserted over
  a newer one, makes the cleanup drop a delegation of an active proposer, for good
  (`validator_status_cache.rs:59`).

More observations follow from the models without a run of their own. Two
calls do reach the INSERT with one hash (`handlers.rs:238` says it should not
happen; the INSERT settles it, see `OneSignedPerHash`). A slot gets several
messages, by later or overlapping runs (migration 004 speaks of one).
`gas_used_ratio` exceeds 1.0 (migration 006 says it does not). The comment at
`config.rs:359` says that all endpoints are validated; the fallback endpoints are
not, nor is a placeholder of another name refused. `constraints-api.md:89-90` and
255-256 (in `spec/`) describe a constraint as `constraintType`, `"0x01"` there, and a `0x` hex
payload, with the slot as a string; the code sends `constraint_type` (the name of
`inclusion-preconf-specs.md:55`), a list of numbers for the payload and numbers
(`types/delegation.rs:185-208`). Above 2^53 wei the base price is rounded to an `f64`
before it is multiplied and rounded up, so that a price can be below what
the multiplier indicates (`fee_pricing.rs:246` says never), and the first gas in a slot can lower
its stored price by that rounding, which `PriceRises` allows for.

## 4. The proofs

Proved for every value of the constants (any number of calls, runs, slots,
hashes, delegations, retries, crashes), under the assumptions named in the
modules (`TimingAssumption`, `StoreAssumption`, `SlotsAssumption`,
`SubmissionAssumption`, `HandlerAssumption`, `GatewayAssumption`,
`DirectAssumption`, `LookaheadAssumption`, `CacheAssumption`, `PollingAssumption`,
`PricingAssumption`, `F64Assumption`, `PowfAssumption`, `KeysAssumption`, `ProcessAssumption`, `ObservedAssumption`,
`AbiAssumption`, `PayloadAssumption`, `EncodingsAssumption`;
TLC evaluates each). Most say what kind of value a constant is.
For pricing, the limit is any `u64` and the two bounds any `f64`, with nothing
between them; `PowfAssumption` says of the library's `powf` that, as its argument
rises to 1.0, the power rises to 1.0 or falls to it, or is always NaN; and the
pricing theorems have `RoundingLaws` as their hypothesis, which IEEE 754
gives: rounding keeps the order, and 0.0 and 1.0 are exact. Estimates are at least 1.
`ObservedAssumption` also says that finitely many delegations can turn up, which the
cardinalities of the metrics need. `EncodingsAssumption` says of what proposers sign what
the Rust types say (keys of one length, u64 slots, an address that parses), and
of what relays and clients send only that it is bytes, hex or not, and a number.

* `ConstraintSubmission_proofs`: `TypeCorrect`, `StoredRowsKept`,
  `PostsBacked`, `ProcessedAccepted`. The invariants are not inductive as they
  stand: a run acts on what it read some awaits ago. `SubmissionInv` adds, per
  run, `RunRemembers`: the delegations it still has to do are stored ones of its
  slot to our key, its message is backed, and by the time it marks, the relay has taken
  the message in. It is kept by other actors' steps because rows are never
  rewritten (`RowKept`) and delegations never removed, only deactivated.
* `CommitmentHandler_proofs`: `HandlerTypeCorrect`, `StoredAuthorised`,
  `SignedRetrievable`, `SignedOnce`, `GasOnce`, `InvalidStoresNothing`.
  `HandlerInv` adds that the checks a call has passed stay passed
  (`CallValid`, `CallAuthorised`), that a row has at most one call that may
  answer with it, the one whose INSERT made it (`OwnersInv`), that every row was
  left by an owner or by a call that failed or died since (`OriginInv`), and
  that gas is counted at most once, of a stored row, and not yet while its owner is
  before the gas transaction (`GasInv`).
* `Gateway_proofs`: first the composition. `GatewayImplementsSubmission`: each step
  of the real handler is, on the tables, a step of the reduced one the job was
  proved against, or none; so `SubmissionInv` holds of the whole. `HandlerInv` holds
  of the whole because it does not read the processed flag, all that the job writes.
  From the two together (`GatewayInv`) follow `GatewayHandlerSafe` and `PostsOnSchedule`, which needs both: the job's part says that
  a posted hash is a stored commitment, the handler's that a stored commitment rests
  on the scheduled proposer's delegation. Then the refinement, `PromiseKept`: every step
  of the gateway is, under the mapping, a step of `PreconfPromise` or leaves
  it alone. An INSERT maps to Store, also where the connection
  breaks after it; an answer to Promise (`OwnersInv`: no one else has answered
  with the row); a post taken in, now or late, to Post (`Backed`); a mark to Settle
  (by `RunRemembers` the relay has the message).
* `DirectSubmission_proofs`: `DirectImplements` (the specification with direct
  calls implements the one without, so that the theorems about the job carry over),
  `DirectIsInTime`, `ListedAreOpen`. `DirectInv` adds that a call that posts
  is inside the window and holds a stored delegation of its slot: the first is kept by the
  timer, the second because delegations are never removed.
* `DelegationPolling_proofs`: `PollingTypeCorrect`, `CacheFreshness`,
  `OnlyVettedStored`. Freshness needs `FreshInv`: an entry's age, and the age of an
  answer still under way, bound how long ago what they say was true, so that inserting a late
  answer over a newer one moves an entry back by the latency and no more.
  Vetting needs `VettedInv`: whatever a poll still has to store is authentic and of
  an activated proposer, and so is every eligible status in the cache or under way; it
  is kept because a validator never becomes pending again.
* `FeePricing_proofs`: `PricingTypeCorrect`, `NoUpdateLost`, `QuotesBounded`,
  `PricesOnlyRise`. `PricingInv` says that a call that writes holds its row's lock
  and has read what is still there (mutual exclusion is why no update is
  lost), that a row has the saturated sum of the gas of the calls counted for it and
  the price that this gas makes, and that a quote is in bounds of the base price its slot
  keeps. Under it lie facts about the formula, for every limit, exponent, bound
  and rounding: ratio, power, headroom and reciprocal each keep or reverse the order
  of what they are given, hence the multiplier never falls as gas is added, in its
  fractional branch, where it is cut off or not finite, and past a full slot;
  bounding and rounding up keep that order; saturating sums do not depend on where
  they saturate.
* `Process_proofs`: `JobsHaveSchema`, `RunsAreConfigured`, for any number of
  replicas, starts and migrations and for every file and environment, those with
  unchecked fallbacks and placeholders included. `StartInv`
  adds what a replica at each stage may still rely on: from `connect` on the
  database exists, past the migrations all of them are applied, and jobs exist
  only past them. It is kept by the other replicas because a migration is only
  applied while one is left, so none of them can be past it. `ConfigInv` says that past the
  loading a replica's configuration is one the checks let through;
  `LoadIsChecked` is what that means. For the metrics, `ProcessTypeCorrect`,
  `GaugesAreCoherent`, `TotalsOnlyRise`: `MetricsInv` says that the tables are
  finite and that no total, exported or still to be set, exceeds what its table holds
  now, so that the next query cannot find less; and that what is still to be set
  goes with the gauges that are set already, of the last query or of this one.
* `Encodings_proofs`: `DelegationsAreAuthentic`, `HashesBind`, `AnswersAreVerifiable`,
  `ReadersOfPayloadsAgree`, `PostsRestOnGrants`, `TableLookupsAgree`, for every length of words, keys and
  addresses, every base, domain, message, offer and request. The first half is about the
  encoding. Bytes of one length with the same value are the same bytes; words
  that agree come from the same bytes up to padding, which the length before them
  settles; the heads of two encodings of one shape give the same words and the same offsets, so
  the tails begin and end at the same places. Hence the request tuple and the
  delegation message are bound by their hashes (`HashesBind` and the first half of
  `DelegationsAreAuthentic`). A signing root over a delegation is
  never one over constraints, also where both domains are the same, because the
  first word of one is the offset of what follows four heads and of the other of what
  follows five. The second half is the inductive invariant `IInv`. `SignaturesInv`: every
  signature in circulation is a proposer's over a delegation it signed or one of the
  gateway's own over constraints; without it nothing could be said of an offer that
  reuses one. `DelegationsInv`: a row is of the columns' types, passes the CHECK, is
  what a proposer signed, and is the only one of its key and slot. `CommitmentsInv`: a row
  has been through the checks of the handler, its slot column is what its payload says,
  and its hash and signature can be computed again from its columns. With `AnswersVerify` and
  `PostsAreGranted` themselves it is inductive; the other four follow from it.

The lemmas about the statements on the two tables, which the proofs of direct submission
and of the composition use too, are in `ConstraintSubmission_proofs`.

Each invariance proof has one step or one lemma per action.

Induction. The library's induction theorems take an operator as a parameter and
cannot be used here. Where a fact about a recursive definition is needed, in
`FeePricing_proofs` and `Encodings_proofs`, it is proved by a least counterexample: the set of numbers, or of subsets of
a finite set, for which it fails has a least member (`LeastNumber`,
`LeastSubset`) unless it is empty. That the recursive definitions of
the sum over a set, of the value of bytes and of a flattened sequence have a
solution at all is proved the same way (`SumsExist`, `DigitsExist`, `JoinsExist`).

Only model-checked: everything about liveness (`CallsEnd`, `RunsEnd`,
`SameSpellingIsConstrained`, `JobsEnd`, `SlashedIsDropped`, `FeeCallsEnd`, `StartEnds`), since TLAPS
does not handle fairness and ENABLED here, and the four violations. Every invariant
and every action property a passing run checks is also a theorem.

## 5. Plan

Done, in this order: stores and timing; submission job; request handler; their
composition and the abstract promise; polling and cache; pricing; the proofs of
the two core modules; direct submission and `slots`, with their proofs; configuration, start-up of
replicas and metrics, with their proofs; encodings; the proofs of the
composition and of the refinement; the proofs of polling, cache, pricing and metrics;
the proofs of the encodings.

Next:

1. `Gateway` with `DelegationPolling` in place of the two reduced poller actions,
   and `FeePricing` behind `CalculateFee` and `ApplyGas`, if the product stays in TLC's
   reach: what a stale status means for a commitment, and that the gas of a slot
   is that of its commitments.
2. Several slots in one submission run: a slow slot in front of an urgent one.
