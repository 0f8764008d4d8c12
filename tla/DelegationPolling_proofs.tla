----------------------- MODULE DelegationPolling_proofs -----------------------
(***************************************************************************)
(* Proofs about the delegation polling service and the status cache its    *)
(* jobs share: types, how old an entry of the cache can be, and what gets  *)
(* into the table, for any number of overlapping runs of both jobs.        *)
(***************************************************************************)
EXTENDS DelegationPolling, TLAPS

(***************************************************************************)
(* The cache.                                                              *)
(***************************************************************************)

\* What the code makes of a status is a ValidatorInfo.
LEMMA InfoType == \A s : parse_validator_info(s) \in Info
BY DEF parse_validator_info, Info

\* An entry is what it is made of, and is not mistaken for none.
LEMMA EntryType ==
    /\ \A i \in Info, n \in Nat :
         /\ [info |-> i, age |-> n] \in Entry
         /\ [info |-> i, age |-> n] # NoInfo
    /\ NoInfo \notin Entry
BY CacheAssumption DEF Entry

\* The bound of the ages is a positive number.
LEMMA StaleType == TTL \in Nat /\ TTL > 0 /\ Latency \in Nat /\ Stale \in Nat /\ 0 \in 0 .. Stale
BY CacheAssumption DEF Stale

\* The cache starts well typed: empty, with every status true now.
LEMMA CacheInitType == CacheInit => CacheTypeOK
<1> SUFFICES ASSUME CacheInit PROVE CacheTypeOK
  OBVIOUS
<1>1. sinceTrue \in [Proposers -> [Info -> 0 .. Stale]]
  BY StaleType DEF CacheInit
<1> QED BY <1>1, EntryType DEF CacheInit, CacheTypeOK, Statuses

\* A status that changes keeps the types.
LEMMA ChainType == CacheTypeOK /\ ChainAdvances => CacheTypeOK'
<1> SUFFICES ASSUME CacheTypeOK, ChainAdvances PROVE CacheTypeOK'
  OBVIOUS
<1> PICK v \in Proposers, s \in Statuses :
      /\ chain' = [chain EXCEPT ![v] = s]
      /\ sinceTrue' = [sinceTrue EXCEPT ![v][parse_validator_info(s)] = 0]
      /\ UNCHANGED <<cache, seen>>
  BY DEF ChainAdvances
<1>1. sinceTrue' \in [Proposers -> [Info -> 0 .. Stale]]
  BY InfoType, StaleType DEF CacheTypeOK
<1> QED BY <1>1 DEF CacheTypeOK

\* A tick keeps the types: what reaches its time to live is gone.
LEMMA AgesType == CacheTypeOK /\ CacheAges => CacheTypeOK'
<1> SUFFICES ASSUME CacheTypeOK, CacheAges PROVE CacheTypeOK'
  OBVIOUS
<1>1. sinceTrue' \in [Proposers -> [Info -> 0 .. Stale]]
  BY StaleType DEF CacheTypeOK, CacheAges, Older
<1>2. /\ cache' \in [Proposers -> Entry \cup {NoInfo}]
      /\ \A v \in Proposers : cache'[v] # NoInfo => cache'[v].age < TTL
  BY EntryType, StaleType DEF CacheTypeOK, CacheAges, Entry
<1>3. /\ seen' \in [Jobs -> Entry \cup {NoInfo}]
      /\ \A j \in Jobs : seen'[j] # NoInfo => seen'[j].age <= Latency
  BY EntryType, StaleType DEF CacheTypeOK, CacheAges, Entry
<1> QED BY <1>1, <1>2, <1>3 DEF CacheTypeOK, CacheAges

\* An answer, a failure, an insertion and a restart keep the types.
LEMMA CacheOpsType ==
    ASSUME CacheTypeOK, NEW j \in Jobs, NEW v \in Proposers,
           \/ get_validator_status(j, v) \/ get_validator_status_fails(j)
           \/ cache_insert(j, v) \/ CacheLost \/ UNCHANGED cacheVars
    PROVE  CacheTypeOK'
<1>1. ASSUME get_validator_status(j, v) PROVE CacheTypeOK'
  BY <1>1, InfoType, EntryType, StaleType DEF CacheTypeOK, get_validator_status, Entry
<1>2. ASSUME get_validator_status_fails(j) PROVE CacheTypeOK'
  BY <1>2 DEF CacheTypeOK, get_validator_status_fails
<1>3. ASSUME cache_insert(j, v) PROVE CacheTypeOK'
  BY <1>3, EntryType, StaleType DEF CacheTypeOK, cache_insert, Entry
<1>4. ASSUME CacheLost PROVE CacheTypeOK'
  BY <1>4 DEF CacheTypeOK, CacheLost
<1>5. ASSUME UNCHANGED cacheVars PROVE CacheTypeOK'
  BY <1>5 DEF CacheTypeOK, cacheVars
<1> QED BY <1>1, <1>2, <1>3, <1>4, <1>5

(***************************************************************************)
(* Type correctness of the service.                                        *)
(***************************************************************************)

\* A slot is a natural number.
LEMMA SlotEstimateType == \A t \in Nat : current_slot_estimate(t) \in Nat
BY TimingAssumption DEF current_slot_estimate

\* What a job does with a status keeps the types of its locals.
LEMMA DecideType ==
    ASSUME PollingTypeOK, NEW j \in Jobs, NEW d \in Delegation, NEW info, Decide(j, d, info)
    PROVE  /\ ppc' \in [Jobs -> JobStates]
           /\ item' \in [Jobs -> Delegation \cup {NoItem}]
           /\ \A k \in Jobs : ppc'[k] \in {"ask", "answer", "drop"} => item'[k] # NoItem
           /\ good' \in [Jobs -> SUBSET Delegation]
BY PollingAssumption DEF PollingTypeOK, Decide, Goto, JobStates

\* The steps of get_status keep the types.
LEMMA StatusStepType ==
    ASSUME TypeOK, NEW j \in Jobs, StatusStep(j)
    PROVE  TypeOK'
<1> USE DEF TypeOK
<1>1. ASSUME StatusHit(j) PROVE TypeOK'
  <2> PICK d \in work[j] : /\ cache_get(d.proposer)
                           /\ work' = [work EXCEPT ![j] = @ \ {d}]
                           /\ Decide(j, d, cache[d.proposer].info)
    BY <1>1 DEF StatusHit
  <2>1. d \in Delegation
    BY DEF PollingTypeOK
  <2>2. CacheTypeOK'
    BY CacheOpsType, <2>1 DEF cache_get, Delegation
  <2>3. DelegationsTypeOK'
    BY <1>1 DEF StatusHit, tableVars, DelegationsTypeOK
  <2>4. PollingTypeOK'
    BY <1>1, <2>1, DecideType DEF StatusHit, PollingTypeOK
  <2> QED BY <2>2, <2>3, <2>4
<1>2. ASSUME StatusMiss(j) PROVE TypeOK'
  <2> PICK d \in work[j] : /\ cache_misses(d.proposer)
                           /\ work' = [work EXCEPT ![j] = @ \ {d}]
                           /\ item' = [item EXCEPT ![j] = d]
    BY <1>2 DEF StatusMiss
  <2>1. d \in Delegation
    BY DEF PollingTypeOK
  <2>2. CacheTypeOK'
    BY CacheOpsType, <2>1 DEF cache_misses, Delegation
  <2>3. DelegationsTypeOK'
    BY <1>2 DEF StatusMiss, tableVars, DelegationsTypeOK
  <2>4. PollingTypeOK'
    BY <1>2, <2>1, PollingAssumption DEF StatusMiss, PollingTypeOK, Goto, JobStates
  <2> QED BY <2>2, <2>3, <2>4
<1>3. ASSUME BeaconAnswers(j) PROVE TypeOK'
  <2>1. item[j] \in Delegation
    BY <1>3 DEF BeaconAnswers, PollingTypeOK
  <2>2. CacheTypeOK'
    BY <1>3, CacheOpsType, <2>1 DEF BeaconAnswers, Delegation
  <2>3. DelegationsTypeOK'
    BY <1>3 DEF BeaconAnswers, tableVars, DelegationsTypeOK
  <2>4. PollingTypeOK'
    BY <1>3 DEF BeaconAnswers, PollingTypeOK, Goto, JobStates
  <2> QED BY <2>2, <2>3, <2>4
<1>4. ASSUME BeaconFails(j) PROVE TypeOK'
  <2>1. item[j] \in Delegation
    BY <1>4 DEF BeaconFails, PollingTypeOK
  <2>2. CacheTypeOK'
    BY <1>4, CacheOpsType, <2>1 DEF BeaconFails, Delegation
  <2>3. DelegationsTypeOK'
    BY <1>4 DEF BeaconFails, tableVars, DelegationsTypeOK
  <2>4. PollingTypeOK'
    BY <1>4 DEF BeaconFails, PollingTypeOK, Goto, JobStates
  <2> QED BY <2>2, <2>3, <2>4
<1>5. ASSUME StatusFetched(j) PROVE TypeOK'
  <2>1. item[j] \in Delegation
    BY <1>5 DEF StatusFetched, PollingTypeOK
  <2>2. CacheTypeOK'
    BY <1>5, CacheOpsType, <2>1 DEF StatusFetched, Delegation
  <2>3. DelegationsTypeOK'
    BY <1>5 DEF StatusFetched, tableVars, DelegationsTypeOK
  <2>4. PollingTypeOK'
    BY <1>5, <2>1, DecideType DEF StatusFetched, PollingTypeOK
  <2> QED BY <2>2, <2>3, <2>4
<1> QED BY <1>1, <1>2, <1>3, <1>4, <1>5 DEF StatusStep

\* The steps of a poll keep the types.
LEMMA PollStepType ==
    ASSUME TypeOK, NEW p \in Jobs, PollStep(p)
    PROVE  TypeOK'
<1>1. CacheTypeOK'
  BY DEF TypeOK, PollStep, StartPoll, FetchNothing, FetchDelegations, StatusesDone, SaveBatch,
         SaveBatchFails, PollEnds, cacheVars, CacheTypeOK
<1>2. DelegationsTypeOK'
  BY DEF TypeOK, PollStep, StartPoll, FetchNothing, FetchDelegations, StatusesDone, SaveBatch,
         SaveBatchFails, PollEnds, tableVars, DelegationsTypeOK, PollingTypeOK,
         save_delegations_batch
<1>3. PollingTypeOK'
  <2> USE DEF TypeOK, PollingTypeOK, Goto, NextSlot, JobStates
  <2>1. CASE StartPoll(p)
    BY <2>1, SlotEstimateType, PollingAssumption DEF StartPoll, lookahead_slots
  <2>2. CASE FetchNothing(p) \/ PollEnds(p)
    BY <2>2 DEF FetchNothing, PollEnds
  <2>3. CASE FetchDelegations(p)
    BY <2>3, PollingAssumption DEF FetchDelegations
  <2>4. CASE StatusesDone(p)
    BY <2>4 DEF StatusesDone
  <2>5. CASE SaveBatch(p) \/ SaveBatchFails(p)
    BY <2>5 DEF SaveBatch, SaveBatchFails
  <2> QED BY <2>1, <2>2, <2>3, <2>4, <2>5 DEF PollStep
<1> QED BY <1>1, <1>2, <1>3 DEF TypeOK

\* The steps of a cleanup keep the types.
LEMMA CleanupStepType ==
    ASSUME TypeOK, NEW k \in Jobs, CleanupStep(k)
    PROVE  TypeOK'
<1>1. CacheTypeOK'
  BY DEF TypeOK, CleanupStep, StartCleanup, DeactivateExpired, ListActive, DropDelegation,
         CleanupFails, CleanupEnds, cacheVars, CacheTypeOK
<1>2. DelegationsTypeOK'
  BY DEF TypeOK, CleanupStep, StartCleanup, DeactivateExpired, ListActive, DropDelegation,
         CleanupFails, CleanupEnds, tableVars, DelegationsTypeOK,
         deactivate_expired_delegations, deactivate
<1>3. PollingTypeOK'
  <2> USE DEF TypeOK, PollingTypeOK, Goto, JobStates
  <2>1. CASE StartCleanup(k)
    BY <2>1, SlotEstimateType DEF StartCleanup
  <2>2. CASE DeactivateExpired(k) \/ CleanupFails(k) \/ CleanupEnds(k)
    BY <2>2 DEF DeactivateExpired, CleanupFails, CleanupEnds
  <2>3. CASE ListActive(k)
    BY <2>3 DEF ListActive, DelegationsTypeOK
  <2>4. CASE DropDelegation(k)
    BY <2>4 DEF DropDelegation
  <2> QED BY <2>1, <2>2, <2>3, <2>4 DEF CleanupStep
<1> QED BY <1>1, <1>2, <1>3 DEF TypeOK

\* Every step keeps the types.
LEMMA PollingTypeStep == TypeOK /\ [Next]_pollingVars => TypeOK'
<1> SUFFICES ASSUME TypeOK, [Next]_pollingVars PROVE TypeOK'
  OBVIOUS
<1>1. ASSUME NEW j \in Jobs, JobStep(j) PROVE TypeOK'
  BY <1>1, StatusStepType, PollStepType, CleanupStepType DEF JobStep
<1>2. CASE Tick
  BY <1>2, AgesType DEF Tick, TypeOK, DelegationsTypeOK, PollingTypeOK, jobVars, tableVars
<1>3. CASE Chain
  BY <1>3, ChainType DEF Chain, TypeOK, DelegationsTypeOK, PollingTypeOK, jobVars, tableVars
<1>4. CASE Restart
  <2>1. CacheTypeOK'
    BY <1>4 DEF Restart, CacheLost, TypeOK, CacheTypeOK
  <2> QED BY <1>4, <2>1 DEF Restart, TypeOK, DelegationsTypeOK, PollingTypeOK, tableVars, JobStates
<1>5. CASE UNCHANGED pollingVars
  BY <1>5 DEF pollingVars, jobVars, cacheVars, tableVars, TypeOK, CacheTypeOK,
              DelegationsTypeOK, PollingTypeOK
<1> QED BY <1>1, <1>2, <1>3, <1>4, <1>5 DEF Next

\* The service starts well typed.
LEMMA PollingInitType == Init => TypeOK
BY CacheInitType DEF Init, TypeOK, DelegationsTypeOK, PollingTypeOK, JobStates

\* The locals of every run of either job, the cache with the ages of its entries
\* and the table keep their types, for any number of runs under way at once: a
\* job that asks for a status or drops a row (delegation_polling.rs) knows which,
\* no entry outlives its time to live and no answer the client's timeout.
THEOREM PollingTypeCorrect == Spec => []TypeOK
<1> QED BY PollingInitType, PollingTypeStep, PTL DEF Spec

(***************************************************************************)
(* The age of what the cache says.  CacheIsFresh is not inductive: an      *)
(* answer is inserted with age 0 whatever its own age, so the invariant    *)
(* has to say how old the answers under way are, and of whom they are.     *)
(***************************************************************************)

\* What is true of a validator at the head is zero ticks old.
HeadIsNow ==
    \A v \in Proposers : sinceTrue[v][parse_validator_info(chain[v])] = 0

\* An entry was true no longer ago than its age and the time its answer took.
EntriesDated ==
    \A v \in Proposers : cache[v] # NoInfo =>
        sinceTrue[v][cache[v].info] <= cache[v].age + Latency

\* An answer under way belongs to the delegation its job waits with, and was
\* true of that one's proposer when it was given.
AnswersDated ==
    \A j \in Jobs : seen[j] # NoInfo =>
        /\ ppc[j] = "answer"
        /\ sinceTrue[item[j].proposer][seen[j].info] <= seen[j].age

FreshInv == HeadIsNow /\ EntriesDated /\ AnswersDated

\* Entries and answers hold a ValidatorInfo and an age, about a known validator.
LEMMA DatedTypes ==
    ASSUME TypeOK
    PROVE  /\ \A v \in Proposers : cache[v] # NoInfo => cache[v].info \in Info /\ cache[v].age \in Nat
           /\ \A j \in Jobs : seen[j] # NoInfo => seen[j].info \in Info /\ seen[j].age \in Nat
           /\ \A j \in Jobs : ppc[j] \in {"ask", "answer"} => item[j].proposer \in Proposers
           /\ \A v \in Proposers, i \in Info : sinceTrue[v][i] \in Nat /\ sinceTrue[v][i] <= Stale
BY StaleType DEF TypeOK, CacheTypeOK, Entry, PollingTypeOK, Delegation

\* A job keeps, while its answer is under way, the delegation it waits with; no
\* other job touches either.
LEMMA StatusFresh ==
    ASSUME TypeOK, FreshInv, NEW j \in Jobs, StatusStep(j)
    PROVE  FreshInv'
<1> USE DatedTypes, StaleType DEF FreshInv
<1>1. ASSUME StatusHit(j) PROVE FreshInv'
  <2>1. PICK d \in work[j] : cache_get(d.proposer) /\ Decide(j, d, cache[d.proposer].info)
    BY <1>1 DEF StatusHit
  <2>2. /\ UNCHANGED cacheVars
        /\ \A k \in Jobs \ {j} : ppc'[k] = ppc[k] /\ item'[k] = item[k]
        /\ seen[j] = NoInfo
    BY <1>1, <2>1 DEF StatusHit, cache_get, Decide, Goto, AnswersDated, TypeOK, PollingTypeOK
  <2> QED BY <2>2 DEF cacheVars, HeadIsNow, EntriesDated, AnswersDated
<1>2. ASSUME StatusMiss(j) PROVE FreshInv'
  <2>2. /\ UNCHANGED cacheVars
        /\ \A k \in Jobs \ {j} : ppc'[k] = ppc[k] /\ item'[k] = item[k]
        /\ seen[j] = NoInfo
    BY <1>2 DEF StatusMiss, cache_misses, Goto, AnswersDated, TypeOK, PollingTypeOK
  <2> QED BY <2>2 DEF cacheVars, HeadIsNow, EntriesDated, AnswersDated
<1>3. ASSUME BeaconAnswers(j) PROVE FreshInv'
  <2> DEFINE v == item[j].proposer
  <2>1. v \in Proposers
    BY <1>3 DEF BeaconAnswers
  <2>2. /\ UNCHANGED <<chain, cache, sinceTrue, item>>
        /\ seen' = [seen EXCEPT ![j] = [info |-> parse_validator_info(chain[v]), age |-> 0]]
        /\ ppc' = [ppc EXCEPT ![j] = "answer"]
    BY <1>3 DEF BeaconAnswers, get_validator_status, Goto
  <2>3. HeadIsNow' /\ EntriesDated'
    BY <2>2 DEF HeadIsNow, EntriesDated
  <2>4. AnswersDated'
    BY <2>1, <2>2 DEF AnswersDated, HeadIsNow, TypeOK, CacheTypeOK, PollingTypeOK
  <2> QED BY <2>3, <2>4
<1>4. ASSUME BeaconFails(j) PROVE FreshInv'
  <2>1. /\ UNCHANGED <<chain, cache, sinceTrue>>
        /\ seen' = [seen EXCEPT ![j] = NoInfo]
        /\ \A k \in Jobs \ {j} : ppc'[k] = ppc[k] /\ item'[k] = item[k]
    BY <1>4 DEF BeaconFails, get_validator_status_fails, Goto, TypeOK, PollingTypeOK
  <2> QED BY <2>1 DEF HeadIsNow, EntriesDated, AnswersDated, TypeOK, CacheTypeOK
<1>5. ASSUME StatusFetched(j) PROVE FreshInv'
  <2> DEFINE v == item[j].proposer
  <2>1. v \in Proposers /\ seen[j] # NoInfo
    BY <1>5 DEF StatusFetched, cache_insert
  <2>2. /\ UNCHANGED <<chain, sinceTrue>>
        /\ cache' = [cache EXCEPT ![v] = [info |-> seen[j].info, age |-> 0]]
        /\ seen' = [seen EXCEPT ![j] = NoInfo]
        /\ \A k \in Jobs \ {j} : ppc'[k] = ppc[k] /\ item'[k] = item[k]
    BY <1>5 DEF StatusFetched, cache_insert, Decide, Goto, TypeOK, PollingTypeOK
  <2>3. HeadIsNow' /\ AnswersDated'
    BY <2>2 DEF HeadIsNow, AnswersDated, TypeOK, CacheTypeOK
  <2>4. EntriesDated'
    <3>1. sinceTrue[v][seen[j].info] <= seen[j].age /\ seen[j].age <= Latency
      BY <2>1 DEF AnswersDated, TypeOK, CacheTypeOK
    <3> QED BY <2>1, <2>2, <3>1 DEF EntriesDated, TypeOK, CacheTypeOK
  <2> QED BY <2>3, <2>4
<1> QED BY <1>1, <1>2, <1>3, <1>4, <1>5 DEF StatusStep

\* The other steps of a job have no answer under way and leave the cache alone.
LEMMA JobFresh ==
    ASSUME TypeOK, FreshInv, NEW j \in Jobs, PollStep(j) \/ CleanupStep(j)
    PROVE  FreshInv'
<1>1. /\ UNCHANGED cacheVars
      /\ \A k \in Jobs \ {j} : ppc'[k] = ppc[k] /\ item'[k] = item[k]
      /\ ppc[j] # "answer"
  BY DEF PollStep, StartPoll, FetchNothing, FetchDelegations, StatusesDone, SaveBatch,
         SaveBatchFails, PollEnds, CleanupStep, StartCleanup, DeactivateExpired, ListActive,
         DropDelegation, CleanupFails, CleanupEnds, Goto, NextSlot, TypeOK, PollingTypeOK
<1> QED BY <1>1 DEF cacheVars, FreshInv, HeadIsNow, EntriesDated, AnswersDated

\* A tick ages entries, answers and what is no longer true alike.
LEMMA TickFresh == TypeOK /\ FreshInv /\ Tick => FreshInv'
<1> SUFFICES ASSUME TypeOK, FreshInv, Tick PROVE FreshInv'
  OBVIOUS
<1> USE DatedTypes, StaleType DEF FreshInv
<1>1. /\ UNCHANGED <<chain, ppc, item>>
      /\ sinceTrue' = [v \in Proposers |-> [i \in Info |->
                        IF i = parse_validator_info(chain[v]) THEN 0
                        ELSE Older(sinceTrue[v][i])]]
  BY DEF Tick, CacheAges, jobVars
<1>2. \A v \in Proposers, i \in Info : sinceTrue'[v][i] <= sinceTrue[v][i] + 1
  BY <1>1 DEF Older
<1>3. HeadIsNow'
  BY <1>1, InfoType DEF HeadIsNow
<1>4. EntriesDated'
  <2>1. \A v \in Proposers : cache'[v] # NoInfo =>
          /\ cache[v] # NoInfo
          /\ cache'[v].info = cache[v].info
          /\ cache'[v].age = cache[v].age + 1
    BY DEF Tick, CacheAges, TypeOK, CacheTypeOK, Entry
  <2>2. \A v \in Proposers : \A i \in Info : sinceTrue'[v][i] \in Nat
    BY PollingTypeStep, StaleType DEF Next, TypeOK, CacheTypeOK
  <2> QED BY <1>2, <2>1, <2>2 DEF EntriesDated
<1>5. AnswersDated'
  <2>1. \A j \in Jobs : seen'[j] # NoInfo =>
          /\ seen[j] # NoInfo
          /\ seen'[j].info = seen[j].info
          /\ seen'[j].age = seen[j].age + 1
    BY DEF Tick, CacheAges, TypeOK, CacheTypeOK, Entry
  <2>2. \A v \in Proposers : \A i \in Info : sinceTrue'[v][i] \in Nat
    BY PollingTypeStep, StaleType DEF Next, TypeOK, CacheTypeOK
  <2> QED BY <1>1, <1>2, <2>1, <2>2 DEF AnswersDated
<1> QED BY <1>3, <1>4, <1>5

\* A status that changes makes one ValidatorInfo true and no other older.
LEMMA ChainFresh == TypeOK /\ FreshInv /\ Chain => FreshInv'
<1> SUFFICES ASSUME TypeOK, FreshInv, Chain PROVE FreshInv'
  OBVIOUS
<1> USE DatedTypes, StaleType DEF FreshInv
<1>1. PICK v \in Proposers, s \in Statuses :
      /\ chain' = [chain EXCEPT ![v] = s]
      /\ sinceTrue' = [sinceTrue EXCEPT ![v][parse_validator_info(s)] = 0]
      /\ UNCHANGED <<cache, seen, ppc, item>>
  BY DEF Chain, ChainAdvances, jobVars
<1>2. \A w \in Proposers, i \in Info :
        sinceTrue'[w][i] = sinceTrue[w][i] \/ sinceTrue'[w][i] = 0
  BY <1>1, InfoType DEF TypeOK, CacheTypeOK
<1>3. HeadIsNow'
  BY <1>1, InfoType DEF HeadIsNow, TypeOK, CacheTypeOK
<1>4. EntriesDated' /\ AnswersDated'
  BY <1>1, <1>2 DEF EntriesDated, AnswersDated
<1> QED BY <1>3, <1>4

\* Every step keeps the ages right.
LEMMA FreshStep == TypeOK /\ FreshInv /\ [Next]_pollingVars => FreshInv'
<1> SUFFICES ASSUME TypeOK, FreshInv, [Next]_pollingVars PROVE FreshInv'
  OBVIOUS
<1>1. ASSUME NEW j \in Jobs, JobStep(j) PROVE FreshInv'
  BY <1>1, StatusFresh, JobFresh DEF JobStep
<1>2. CASE Restart
  BY <1>2 DEF Restart, CacheLost, FreshInv, HeadIsNow, EntriesDated, AnswersDated
<1>3. CASE UNCHANGED pollingVars
  BY <1>3 DEF pollingVars, jobVars, cacheVars, FreshInv, HeadIsNow, EntriesDated, AnswersDated
<1> QED BY <1>1, <1>2, <1>3, TickFresh, ChainFresh DEF Next

\* Whatever number of jobs share the cache, in whatever order their answers are
\* inserted (validator_status_cache.rs holds no lock across the beacon call) and
\* however often an entry is read, an entry was true of its validator within the
\* last TTL + Latency ticks.
THEOREM CacheFreshness == Spec => []CacheIsFresh
<1>1. Init => FreshInv
  BY InfoType DEF Init, CacheInit, FreshInv, HeadIsNow, EntriesDated, AnswersDated
<1>2. TypeOK /\ FreshInv => CacheIsFresh
  BY DatedTypes, StaleType DEF FreshInv, EntriesDated, CacheIsFresh, TypeOK, CacheTypeOK
<1> QED BY <1>1, <1>2, FreshStep, PollingTypeCorrect, PTL DEF Spec

(***************************************************************************)
(* What gets into the table.  Between the checks on a delegation and its   *)
(* INSERT lie the lookups of other proposers, beacon calls and other runs: *)
(* the invariant follows a delegation from the relay's answer (work), to   *)
(* the lookup of its proposer (item), to the batch (good).                 *)
(***************************************************************************)

\* It is addressed to us and its signature verifies.
Authentic(d) == d.delegate = OurDelegate /\ d.verified

\* What a run of poll_delegations holds passed the checks on the delegation
\* itself, and what it holds for the INSERT the check of its proposer, too.
HeldIsVetted ==
    \A p \in Polls :
        /\ \A d \in work[p] : Authentic(d)
        /\ item[p] # NoItem => Authentic(item[p])
        /\ \A d \in good[p] : Authentic(d) /\ chain[d.proposer] # "pending"

\* A status that makes a proposer eligible, cached or under way, is of one that
\* is no longer pending, and will not be again.
EligibleIsActivated ==
    /\ \A v \in Proposers :
         cache[v] # NoInfo /\ Eligible(cache[v].info) => chain[v] # "pending"
    /\ \A j \in Jobs :
         seen[j] # NoInfo => /\ ppc[j] = "answer"
                             /\ Eligible(seen[j].info) => chain[item[j].proposer] # "pending"

VettedInv == HeldIsVetted /\ EligibleIsActivated /\ StoredWasVetted

\* A validator that is pending is not eligible.
LEMMA PendingNotEligible == \A s : Eligible(parse_validator_info(s)) => s # "pending"
BY DEF Eligible, parse_validator_info

\* What get_status decides on rests on an eligible status.
LEMMA DecideVetted ==
    ASSUME TypeOK, HeldIsVetted, NEW j \in Jobs, NEW d \in Delegation, NEW info,
           Decide(j, d, info), UNCHANGED chain, j \in Polls => Authentic(d),
           work' = [work EXCEPT ![j] = @ \ {d}] \/ UNCHANGED work,
           Eligible(info) => chain[d.proposer] # "pending"
    PROVE  HeldIsVetted'
<1> USE PollingAssumption DEF HeldIsVetted, TypeOK, PollingTypeOK
<1>1. CASE j \in Polls
  <2>1. /\ good' = [good EXCEPT ![j] = IF Eligible(info) THEN @ \cup {d} ELSE @]
        /\ item' = [item EXCEPT ![j] = NoItem]
    BY <1>1 DEF Decide
  <2>2. \A p \in Polls : work'[p] \subseteq work[p]
    OBVIOUS
  <2>3. \A p \in Polls : \A e \in good'[p] : e \in good[p] \/ (p = j /\ e = d /\ Eligible(info))
    BY <1>1, <2>1
  <2>4. \A p \in Polls : item'[p] = item[p] \/ item'[p] = NoItem
    BY <1>1, <2>1
  <2> QED BY <1>1, <2>2, <2>3, <2>4
<1>2. CASE j \notin Polls
  BY <1>2 DEF Decide
<1> QED BY <1>1, <1>2

\* The lookups of proposers keep what is held vetted.
LEMMA StatusVetted ==
    ASSUME TypeOK, VettedInv, NEW j \in Jobs, StatusStep(j)
    PROVE  VettedInv'
<1> USE DatedTypes DEF VettedInv
<1>1. StoredWasVetted'
  BY DEF StatusStep, StatusHit, StatusMiss, BeaconAnswers, BeaconFails, StatusFetched, tableVars,
         StoredWasVetted, cache_get, cache_misses, get_validator_status,
         get_validator_status_fails, cache_insert, cacheVars
<1>2. ASSUME StatusHit(j) PROVE HeldIsVetted' /\ EligibleIsActivated'
  <2>1. PICK d \in work[j] : /\ cache_get(d.proposer)
                             /\ work' = [work EXCEPT ![j] = @ \ {d}]
                             /\ Decide(j, d, cache[d.proposer].info)
    BY <1>2 DEF StatusHit
  <2>2. d \in Delegation /\ d.proposer \in Proposers
    BY DEF TypeOK, PollingTypeOK, Delegation
  <2>3. /\ UNCHANGED cacheVars
        /\ \A k \in Jobs \ {j} : ppc'[k] = ppc[k] /\ item'[k] = item[k]
        /\ seen[j] = NoInfo
    BY <1>2, <2>1 DEF StatusHit, cache_get, Decide, Goto, EligibleIsActivated, TypeOK, PollingTypeOK
  <2>4. HeldIsVetted'
    <3>1. j \in Polls => Authentic(d)
      BY DEF HeldIsVetted
    <3>2. Eligible(cache[d.proposer].info) => chain[d.proposer] # "pending"
      BY <2>1, <2>2 DEF EligibleIsActivated, cache_get
    <3> QED BY <2>1, <2>2, <2>3, <3>1, <3>2, DecideVetted DEF cacheVars
  <2> QED BY <2>3, <2>4 DEF EligibleIsActivated, cacheVars
<1>3. ASSUME StatusMiss(j) PROVE HeldIsVetted' /\ EligibleIsActivated'
  <2>1. PICK d \in work[j] : /\ cache_misses(d.proposer)
                             /\ work' = [work EXCEPT ![j] = @ \ {d}]
                             /\ item' = [item EXCEPT ![j] = d]
    BY <1>3 DEF StatusMiss
  <2>2. /\ UNCHANGED cacheVars /\ UNCHANGED good
        /\ \A k \in Jobs \ {j} : ppc'[k] = ppc[k] /\ item'[k] = item[k]
        /\ seen[j] = NoInfo
    BY <1>3, <2>1 DEF StatusMiss, cache_misses, Goto, EligibleIsActivated, TypeOK, PollingTypeOK
  <2>3. HeldIsVetted'
    BY <2>1, <2>2 DEF HeldIsVetted, cacheVars, TypeOK, PollingTypeOK
  <2> QED BY <2>2, <2>3 DEF EligibleIsActivated, cacheVars
<1>4. ASSUME BeaconAnswers(j) PROVE HeldIsVetted' /\ EligibleIsActivated'
  <2> DEFINE v == item[j].proposer
  <2>1. /\ UNCHANGED <<chain, cache, item, work, good>>
        /\ seen' = [seen EXCEPT ![j] = [info |-> parse_validator_info(chain[v]), age |-> 0]]
        /\ ppc' = [ppc EXCEPT ![j] = "answer"]
    BY <1>4 DEF BeaconAnswers, get_validator_status, Goto
  <2>2. EligibleIsActivated'
    BY <2>1, PendingNotEligible DEF EligibleIsActivated, TypeOK, CacheTypeOK, PollingTypeOK
  <2> QED BY <2>1, <2>2 DEF HeldIsVetted
<1>5. ASSUME BeaconFails(j) PROVE HeldIsVetted' /\ EligibleIsActivated'
  <2>1. /\ UNCHANGED <<chain, cache, work, good>>
        /\ seen' = [seen EXCEPT ![j] = NoInfo]
        /\ item' = [item EXCEPT ![j] = NoItem]
        /\ \A k \in Jobs \ {j} : ppc'[k] = ppc[k]
    BY <1>5 DEF BeaconFails, get_validator_status_fails, Goto, TypeOK, PollingTypeOK
  <2> QED BY <2>1 DEF HeldIsVetted, EligibleIsActivated, TypeOK, CacheTypeOK, PollingTypeOK
<1>6. ASSUME StatusFetched(j) PROVE HeldIsVetted' /\ EligibleIsActivated'
  <2> DEFINE v == item[j].proposer
  <2>1. /\ v \in Proposers /\ seen[j] # NoInfo /\ item[j] # NoItem /\ item[j] \in Delegation
        /\ Eligible(seen[j].info) => chain[v] # "pending"
    BY <1>6 DEF StatusFetched, cache_insert, EligibleIsActivated, TypeOK, PollingTypeOK
  <2>2. /\ UNCHANGED <<chain, work>>
        /\ cache' = [cache EXCEPT ![v] = [info |-> seen[j].info, age |-> 0]]
        /\ seen' = [seen EXCEPT ![j] = NoInfo]
        /\ Decide(j, item[j], seen[j].info)
        /\ \A k \in Jobs \ {j} : ppc'[k] = ppc[k] /\ item'[k] = item[k]
    BY <1>6 DEF StatusFetched, cache_insert, Decide, Goto, TypeOK, PollingTypeOK
  <2>3. EligibleIsActivated'
    BY <2>1, <2>2 DEF EligibleIsActivated, TypeOK, CacheTypeOK
  <2>4. HeldIsVetted'
    <3>1. j \in Polls => Authentic(item[j])
      BY <2>1 DEF HeldIsVetted
    <3> QED BY <2>1, <2>2, <3>1, DecideVetted
  <2> QED BY <2>3, <2>4
<1> QED BY <1>1, <1>2, <1>3, <1>4, <1>5, <1>6 DEF StatusStep

\* A poll takes up only what is addressed to us and signed, and stores only what
\* is also storable.
LEMMA PollVetted ==
    ASSUME TypeOK, VettedInv, NEW p \in Polls, PollStep(p)
    PROVE  VettedInv'
<1> USE PollingAssumption DEF VettedInv
<1>1. /\ UNCHANGED cacheVars /\ UNCHANGED item
      /\ \A k \in Jobs \ {p} : ppc'[k] = ppc[k]
      /\ ppc[p] # "answer"
  BY DEF PollStep, StartPoll, FetchNothing, FetchDelegations, StatusesDone, SaveBatch,
         SaveBatchFails, PollEnds, Goto, NextSlot, TypeOK, PollingTypeOK
<1>2. EligibleIsActivated'
  BY <1>1 DEF EligibleIsActivated, cacheVars
<1>3. HeldIsVetted'
  <2>1. \A q \in Polls : \A d \in work'[q] : Authentic(d)
    BY DEF PollStep, StartPoll, FetchNothing, FetchDelegations, StatusesDone, SaveBatch,
           SaveBatchFails, PollEnds, TypeOK, PollingTypeOK, HeldIsVetted, Authentic
  <2>2. \A q \in Polls : good'[q] \subseteq good[q]
    BY DEF PollStep, StartPoll, FetchNothing, FetchDelegations, StatusesDone, SaveBatch,
           SaveBatchFails, PollEnds, TypeOK, PollingTypeOK
  <2> QED BY <1>1, <2>1, <2>2 DEF HeldIsVetted, cacheVars
<1>4. StoredWasVetted'
  <2>1. CASE SaveBatch(p)
    <3>1. \A d \in delegations' : d \in delegations \/ d \in good[p]
      BY <2>1 DEF SaveBatch, save_delegations_batch
    <3>2. \A d \in good[p] : /\ Authentic(d) /\ chk_address_format(d.committer)
                             /\ chain[d.proposer] # "pending"
      BY <2>1 DEF SaveBatch, HeldIsVetted
    <3> QED BY <1>1, <3>1, <3>2 DEF StoredWasVetted, Authentic, cacheVars
  <2>2. CASE UNCHANGED tableVars
    BY <1>1, <2>2 DEF StoredWasVetted, tableVars, cacheVars
  <2> QED BY <2>1, <2>2 DEF PollStep, StartPoll, FetchNothing, FetchDelegations, StatusesDone,
                            SaveBatchFails, PollEnds
<1> QED BY <1>2, <1>3, <1>4

\* A cleanup adds nothing to the table and holds nothing to be stored.
LEMMA CleanupVetted ==
    ASSUME TypeOK, VettedInv, NEW k \in Cleanups, CleanupStep(k)
    PROVE  VettedInv'
<1> USE PollingAssumption DEF VettedInv
<1>1. /\ UNCHANGED cacheVars /\ UNCHANGED <<delegations, good>>
      /\ \A j \in Jobs \ {k} : ppc'[j] = ppc[j] /\ item'[j] = item[j] /\ work'[j] = work[j]
      /\ ppc[k] # "answer"
  BY DEF CleanupStep, StartCleanup, DeactivateExpired, ListActive, DropDelegation, CleanupFails,
         CleanupEnds, Goto, deactivate_expired_delegations, deactivate, tableVars, TypeOK,
         PollingTypeOK
<1>2. EligibleIsActivated'
  BY <1>1 DEF EligibleIsActivated, cacheVars
<1>3. HeldIsVetted'
  BY <1>1 DEF HeldIsVetted, cacheVars
<1> QED BY <1>1, <1>2, <1>3 DEF StoredWasVetted, cacheVars

\* Time and the chain take nothing back: no status becomes pending.
LEMMA OutsideVetted ==
    ASSUME TypeOK, VettedInv, Tick \/ Chain
    PROVE  VettedInv'
<1> USE DatedTypes DEF VettedInv
<1>1. UNCHANGED <<ppc, item, work, good, delegations>>
  BY DEF Tick, Chain, jobVars, tableVars
<1>2. \A v \in Proposers : chain'[v] = chain[v] \/ chain'[v] # "pending"
  BY DEF Tick, Chain, CacheAges, ChainAdvances, Successors, TypeOK, CacheTypeOK
<1>3. /\ \A v \in Proposers : cache'[v] # NoInfo =>
           cache[v] # NoInfo /\ cache'[v].info = cache[v].info
      /\ \A j \in Jobs : seen'[j] # NoInfo =>
           seen[j] # NoInfo /\ seen'[j].info = seen[j].info
  <2>1. ASSUME Tick, NEW v \in Proposers, cache'[v] # NoInfo
        PROVE  cache[v] # NoInfo /\ cache'[v].info = cache[v].info
    BY <2>1 DEF Tick, CacheAges, TypeOK, CacheTypeOK, Entry
  <2>2. ASSUME Tick, NEW j \in Jobs, seen'[j] # NoInfo
        PROVE  seen[j] # NoInfo /\ seen'[j].info = seen[j].info
    BY <2>2 DEF Tick, CacheAges, TypeOK, CacheTypeOK, Entry
  <2>3. Chain => UNCHANGED <<cache, seen>>
    BY DEF Chain, ChainAdvances
  <2> QED BY <2>1, <2>2, <2>3
<1>4. EligibleIsActivated'
  BY <1>1, <1>2, <1>3 DEF EligibleIsActivated
<1>5. HeldIsVetted' /\ StoredWasVetted'
  <2>1. \A p \in Polls : \A d \in good[p] : d.proposer \in Proposers
    BY PollingAssumption DEF TypeOK, PollingTypeOK, Delegation
  <2>2. \A d \in delegations : d.proposer \in Proposers
    BY DEF TypeOK, DelegationsTypeOK, Delegation
  <2> QED BY <1>1, <1>2, <2>1, <2>2 DEF HeldIsVetted, StoredWasVetted, Authentic
<1> QED BY <1>4, <1>5

\* Every step keeps what is held and stored vetted.
LEMMA VettedStep == TypeOK /\ VettedInv /\ [Next]_pollingVars => VettedInv'
<1> SUFFICES ASSUME TypeOK, VettedInv, [Next]_pollingVars PROVE VettedInv'
  OBVIOUS
<1>1. ASSUME NEW j \in Jobs, JobStep(j) PROVE VettedInv'
  BY <1>1, StatusVetted, PollVetted, CleanupVetted DEF JobStep
<1>2. CASE Restart
  BY <1>2, PollingAssumption
     DEF Restart, CacheLost, tableVars, VettedInv, HeldIsVetted, EligibleIsActivated, StoredWasVetted
<1>3. CASE UNCHANGED pollingVars
  BY <1>3 DEF pollingVars, jobVars, cacheVars, tableVars, VettedInv, HeldIsVetted,
              EligibleIsActivated, StoredWasVetted
<1> QED BY <1>1, <1>2, <1>3, OutsideVetted DEF Next

\* However many runs of poll_delegations and of the cleanup race, whatever the
\* relay and the beacon node answer and whenever the process restarts, each row
\* of the delegations table is addressed to us, signed, storable, and of a
\* proposer that has been an active validator.
THEOREM OnlyVettedStored == Spec => []StoredWasVetted
<1>1. Init => VettedInv
  <2> SUFFICES ASSUME Init PROVE VettedInv
    OBVIOUS
  <2>1. EligibleIsActivated
    BY DEF Init, CacheInit, EligibleIsActivated
  <2>2. HeldIsVetted
    BY PollingAssumption DEF Init, HeldIsVetted
  <2> QED BY <2>1, <2>2 DEF Init, VettedInv, StoredWasVetted
<1>2. VettedInv => StoredWasVetted
  BY DEF VettedInv
<1> QED BY <1>1, <1>2, VettedStep, PollingTypeCorrect, PTL DEF Spec
=============================================================================
