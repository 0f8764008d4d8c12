------------------------- MODULE ValidatorStatusCache -------------------------
(***************************************************************************)
(* The cache of validator statuses (services/validator_status_cache.rs)    *)
(* over get_validator_status of api/beacon.rs.  Jobs share the cache.      *)
(* get_status looks into it, and on a miss asks the beacon node and        *)
(* inserts what it is told; nothing is locked across that await, so an     *)
(* older answer may be inserted over a newer one.                          *)
(*                                                                         *)
(* Time is kept as ages, counted in ticks.                                 *)
(***************************************************************************)
EXTENDS GatewayTypes

CONSTANTS
    Jobs,         \* tasks that call get_status
    TTL,          \* config.delegation.cache_ttl_secs
    Latency,      \* the longest a beacon answer is under way (client timeout)
    NoInfo

Info == [is_active : BOOLEAN, is_slashed : BOOLEAN]

ASSUME CacheAssumption ==
    /\ TTL \in Nat \ {0}
    /\ Latency \in Nat
    /\ NoInfo \notin [info : Info, age : Nat]

VARIABLES
    chain,       \* external: the status of each validator at the chain's head
    cache,       \* the entry of each validator, with its age
    seen,        \* the answer on its way to each job, with its age
    sinceTrue    \* ticks since each ValidatorInfo last was true of a validator

cacheVars == <<chain, cache, seen, sinceTrue>>

\* From Stale on all ages are alike.
Stale == TTL + Latency

Statuses == {"pending", "active", "slashed", "exited", "exited_slashed"}

Entry == [info : Info, age : Nat]

CacheTypeOK ==
    /\ chain \in [Proposers -> Statuses]
    /\ cache \in [Proposers -> Entry \cup {NoInfo}]
    /\ \A v \in Proposers : cache[v] # NoInfo => cache[v].age < TTL
    /\ seen \in [Jobs -> Entry \cup {NoInfo}]
    /\ \A j \in Jobs : seen[j] # NoInfo => seen[j].age <= Latency
    /\ sinceTrue \in [Proposers -> [Info -> 0 .. Stale]]

\* "active" stands for active_ongoing and active_exiting, "slashed" for
\* active_slashed: a validator that is slashed is active for a while yet.
parse_validator_info(status) ==
    [is_active |-> status \in {"active", "slashed"},
     is_slashed |-> status \in {"slashed", "exited_slashed"}]

CacheInit ==
    /\ chain \in [Proposers -> {"pending", "active"}]
    /\ cache = [v \in Proposers |-> NoInfo]
    /\ seen = [j \in Jobs |-> NoInfo]
    /\ sinceTrue = [v \in Proposers |-> [i \in Info |->
                      IF i = parse_validator_info(chain[v]) THEN 0 ELSE Stale]]

\* External: the life of a validator; no status comes back.
Successors ==
    {<<"pending", "active">>, <<"active", "exited">>, <<"active", "slashed">>,
     <<"slashed", "exited_slashed">>}

ChainAdvances ==
    \E v \in Proposers, s \in Statuses :
        /\ <<chain[v], s>> \in Successors
        /\ chain' = [chain EXCEPT ![v] = s]
        /\ sinceTrue' = [sinceTrue EXCEPT ![v][parse_validator_info(s)] = 0]
        /\ UNCHANGED <<cache, seen>>

Older(n) == IF n < Stale THEN n + 1 ELSE Stale

\* A tick.  time_to_live drops an entry TTL ticks after it was inserted, read or
\* not; the client does not wait for an answer longer than Latency.
CacheAges ==
    /\ \A j \in Jobs : seen[j] # NoInfo => seen[j].age < Latency
    /\ cache' = [v \in Proposers |->
                   IF cache[v] # NoInfo /\ cache[v].age + 1 < TTL
                   THEN [cache[v] EXCEPT !.age = @ + 1]
                   ELSE NoInfo]
    /\ seen' = [j \in Jobs |-> IF seen[j] = NoInfo THEN NoInfo
                               ELSE [seen[j] EXCEPT !.age = @ + 1]]
    /\ sinceTrue' = [v \in Proposers |-> [i \in Info |->
                       IF i = parse_validator_info(chain[v]) THEN 0
                       ELSE Older(sinceTrue[v][i])]]
    /\ UNCHANGED chain

\* Mutant: entries are kept while they are read (time_to_idle).
cache_get_touching(v) ==
    /\ cache[v] # NoInfo
    /\ cache' = [cache EXCEPT ![v].age = 0]
    /\ UNCHANGED <<chain, seen, sinceTrue>>

\* get_status finds the validator in the cache.
cache_get(v) == cache[v] # NoInfo /\ UNCHANGED cacheVars

cache_misses(v) == cache[v] = NoInfo /\ UNCHANGED cacheVars

\* A node, the primary or the first fallback that answers, reads its head state.
get_validator_status(j, v) ==
    /\ seen' = [seen EXCEPT ![j] = [info |-> parse_validator_info(chain[v]), age |-> 0]]
    /\ UNCHANGED <<chain, cache, sinceTrue>>

\* Every endpoint fails, or the answer does not arrive in time.
get_validator_status_fails(j) ==
    /\ seen' = [seen EXCEPT ![j] = NoInfo]
    /\ UNCHANGED <<chain, cache, sinceTrue>>

\* The answer arrives and is inserted, over whatever is there.
cache_insert(j, v) ==
    /\ seen[j] # NoInfo
    /\ cache' = [cache EXCEPT ![v] = [info |-> seen[j].info, age |-> 0]]
    /\ seen' = [seen EXCEPT ![j] = NoInfo]
    /\ UNCHANGED <<chain, sinceTrue>>

\* The process restarts: nothing of the cache is persisted.
CacheLost ==
    /\ cache' = [v \in Proposers |-> NoInfo]
    /\ seen' = [j \in Jobs |-> NoInfo]
    /\ UNCHANGED <<chain, sinceTrue>>
-----------------------------------------------------------------------------
\* Whatever order answers are inserted in, and however often an entry is read,
\* an entry was true of its validator within the last TTL + Latency ticks.
CacheIsFresh ==
    \A v \in Proposers : cache[v] # NoInfo =>
        sinceTrue[v][cache[v].info] < TTL + Latency
=============================================================================
