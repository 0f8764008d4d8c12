--------------------------- MODULE DelegationPolling ---------------------------
(***************************************************************************)
(* The delegation polling service (services/delegation_polling.rs): one    *)
(* cron job fetches delegations from the relay every 30 seconds, another   *)
(* deactivates delegations every five minutes.  Runs of both overlap each  *)
(* other and themselves, and share the table and the status cache.         *)
(***************************************************************************)
EXTENDS BeaconTiming, DelegationStore, ValidatorStatusCache

CONSTANTS
    Polls,          \* runs of poll_delegations that can be under way at once
    Cleanups,       \* runs of cleanup_expired_delegations
    OurDelegate,    \* config.signing.bls_public_key
    SLOTS_PER_EPOCH,    \* 32 in the code
    lookahead_epochs,   \* config.delegation.lookahead_epochs
    Offered,        \* external: delegations the relay may answer with
    NoItem,
    MaxTime,        \* bound: the clock stops there, ages go on
    MaxRestarts     \* bound: restarts of the process

ASSUME PollingAssumption ==
    /\ Jobs = Polls \cup Cleanups
    /\ Polls \cap Cleanups = {}
    /\ OurDelegate \in Delegates
    /\ SLOTS_PER_EPOCH \in Nat
    /\ lookahead_epochs \in Nat
    /\ Offered \subseteq Delegation
    /\ NoItem \notin Delegation
    /\ MaxTime \in Nat
    /\ MaxRestarts \in Nat

VARIABLES
    now,         \* system clock
    boots,       \* restarts so far
    ppc,         \* where each run is
    pslot,       \* poll: the slot it asks for
    plast,       \* poll: the last slot of its range
    work,        \* delegations whose proposer is still to be looked up
    item,        \* the delegation whose proposer is being looked up
    good         \* poll: delegations found eligible

jobVars == <<ppc, pslot, plast, work, item, good>>
tableVars == <<delegations, deactivated>>
pollingVars == <<now, boots, jobVars, cacheVars, tableVars>>

JobStates == {"idle", "relay", "expire", "list", "status", "ask", "answer", "save", "drop"}

PollingTypeOK ==
    /\ now \in Nat
    /\ boots \in Nat
    /\ ppc \in [Jobs -> JobStates]
    /\ pslot \in [Jobs -> Nat]
    /\ plast \in [Jobs -> Nat]
    /\ work \in [Jobs -> SUBSET Delegation]
    /\ item \in [Jobs -> Delegation \cup {NoItem}]
    /\ \A j \in Jobs : ppc[j] \in {"ask", "answer", "drop"} => item[j] # NoItem
    /\ good \in [Jobs -> SUBSET Delegation]

\* Cache, table and the locals of every job have their types: no entry outlives
\* its time to live, no answer the client's timeout, and a job that asks for a
\* status or drops a row knows which.
TypeOK == CacheTypeOK /\ DelegationsTypeOK /\ PollingTypeOK

Init ==
    /\ CacheInit
    /\ delegations = {}
    /\ deactivated = {}
    /\ now = 0
    /\ boots = 0
    /\ ppc = [j \in Jobs |-> "idle"]
    /\ pslot = [j \in Jobs |-> 0]
    /\ plast = [j \in Jobs |-> 0]
    /\ work = [j \in Jobs |-> {}]
    /\ item = [j \in Jobs |-> NoItem]
    /\ good = [j \in Jobs |-> {}]

Goto(j, label) == ppc' = [ppc EXCEPT ![j] = label]
-----------------------------------------------------------------------------
(* get_status of the proposer of each delegation in work, for both jobs.   *)

\* Mutant: a slashed validator that is still active will do.
EligibleIfActive(info) == info.is_active

\* Mutant: any validator that is not slashed will do.
EligibleIfUnslashed(info) == ~info.is_slashed

\* filter_eligible_delegations keeps, and the cleanup spares, exactly these.
Eligible(info) == info.is_active /\ ~info.is_slashed

\* Mutant: the id of the row to drop is lost.
DecideForgetting(j, d, info) ==
    /\ good' = [good EXCEPT ![j] = IF j \in Polls /\ Eligible(info) THEN @ \cup {d} ELSE @]
    /\ item' = [item EXCEPT ![j] = NoItem]
    /\ Goto(j, IF j \in Polls \/ Eligible(info) THEN "status" ELSE "drop")

\* What the job does with d once it has the status of its proposer.
Decide(j, d, info) ==
    IF j \in Polls
    THEN /\ good' = [good EXCEPT ![j] = IF Eligible(info) THEN @ \cup {d} ELSE @]
         /\ item' = [item EXCEPT ![j] = NoItem]
         /\ Goto(j, "status")
    ELSE /\ item' = [item EXCEPT ![j] = IF Eligible(info) THEN NoItem ELSE d]
         /\ Goto(j, IF Eligible(info) THEN "status" ELSE "drop")
         /\ UNCHANGED good

StatusHit(j) ==
    /\ ppc[j] = "status"
    /\ \E d \in work[j] :
         /\ cache_get(d.proposer)
         /\ work' = [work EXCEPT ![j] = @ \ {d}]
         /\ Decide(j, d, cache[d.proposer].info)
    /\ UNCHANGED <<now, boots, pslot, plast, tableVars>>

StatusMiss(j) ==
    /\ ppc[j] = "status"
    /\ \E d \in work[j] :
         /\ cache_misses(d.proposer)
         /\ work' = [work EXCEPT ![j] = @ \ {d}]
         /\ item' = [item EXCEPT ![j] = d]
    /\ Goto(j, "ask")
    /\ UNCHANGED <<now, boots, pslot, plast, good, tableVars>>

BeaconAnswers(j) ==
    /\ ppc[j] = "ask"
    /\ get_validator_status(j, item[j].proposer)
    /\ Goto(j, "answer")
    /\ UNCHANGED <<now, boots, pslot, plast, work, item, good, tableVars>>

\* Mutant: the loop goes back to a delegation whose proposer could not be read.
BeaconFailsAgain(j) ==
    /\ ppc[j] \in {"ask", "answer"}
    /\ get_validator_status_fails(j)
    /\ work' = [work EXCEPT ![j] = @ \cup {item[j]}]
    /\ item' = [item EXCEPT ![j] = NoItem]
    /\ Goto(j, "status")
    /\ UNCHANGED <<now, boots, pslot, plast, good, tableVars>>

\* No status: a poll rejects the delegation, the cleanup leaves it active.
BeaconFails(j) ==
    /\ ppc[j] \in {"ask", "answer"}
    /\ get_validator_status_fails(j)
    /\ item' = [item EXCEPT ![j] = NoItem]
    /\ Goto(j, "status")
    /\ UNCHANGED <<now, boots, pslot, plast, work, good, tableVars>>

StatusFetched(j) ==
    /\ ppc[j] = "answer"
    /\ cache_insert(j, item[j].proposer)
    /\ Decide(j, item[j], seen[j].info)
    /\ UNCHANGED <<now, boots, pslot, plast, work, tableVars>>
-----------------------------------------------------------------------------
(* poll_delegations.                                                       *)

lookahead_slots == lookahead_epochs * SLOTS_PER_EPOCH

StartPoll(p) ==
    /\ ppc[p] = "idle"
    /\ Goto(p, "relay")
    /\ pslot' = [pslot EXCEPT ![p] = current_slot_estimate(now)]
    /\ plast' = [plast EXCEPT ![p] = current_slot_estimate(now) + lookahead_slots]
    /\ UNCHANGED <<now, boots, work, item, good, cacheVars, tableVars>>

NextSlot(p) ==
    /\ Goto(p, "relay")
    /\ pslot' = [pslot EXCEPT ![p] = @ + 1]

\* The slot has no delegations, none to us with a good signature, or the relay
\* fails: the next slot.
FetchNothing(p) ==
    /\ ppc[p] = "relay"
    /\ pslot[p] <= plast[p]
    /\ NextSlot(p)
    /\ UNCHANGED <<now, boots, plast, work, item, good, cacheVars, tableVars>>

\* The relay answers: those to our key whose signature verifies are kept.  That
\* they are for the slot asked for is not looked at.
FetchDelegations(p) ==
    /\ ppc[p] = "relay"
    /\ pslot[p] <= plast[p]
    /\ \E ds \in SUBSET Offered :
         LET verified == {d \in ds : d.delegate = OurDelegate /\ d.verified} IN
         /\ verified # {}
         /\ work' = [work EXCEPT ![p] = verified]
    /\ Goto(p, "status")
    /\ UNCHANGED <<now, boots, pslot, plast, item, good, cacheVars, tableVars>>

\* All proposers are looked up: save what is eligible, if anything is.
StatusesDone(p) ==
    /\ p \in Polls
    /\ ppc[p] = "status"
    /\ work[p] = {}
    /\ IF good[p] = {} THEN NextSlot(p) ELSE Goto(p, "save") /\ UNCHANGED pslot
    /\ UNCHANGED <<now, boots, plast, work, item, good, cacheVars, tableVars>>

SaveBatch(p) ==
    /\ ppc[p] = "save"
    /\ \A d \in good[p] : chk_address_format(d.committer)
    /\ save_delegations_batch(good[p])
    /\ good' = [good EXCEPT ![p] = {}]
    /\ NextSlot(p)
    /\ UNCHANGED <<now, boots, plast, work, item, cacheVars>>

\* The transaction fails: one committer that violates the CHECK rolls the whole
\* batch back.
SaveBatchFails(p) ==
    /\ ppc[p] = "save"
    /\ good' = [good EXCEPT ![p] = {}]
    /\ NextSlot(p)
    /\ UNCHANGED <<now, boots, plast, work, item, cacheVars, tableVars>>

PollEnds(p) ==
    /\ ppc[p] = "relay"
    /\ pslot[p] > plast[p]
    /\ Goto(p, "idle")
    /\ pslot' = [pslot EXCEPT ![p] = 0]
    /\ plast' = [plast EXCEPT ![p] = 0]
    /\ UNCHANGED <<now, boots, work, item, good, cacheVars, tableVars>>
-----------------------------------------------------------------------------
(* cleanup_expired_delegations.                                            *)

\* The current slot is read before the UPDATE that uses it.
StartCleanup(k) ==
    /\ ppc[k] = "idle"
    /\ Goto(k, "expire")
    /\ pslot' = [pslot EXCEPT ![k] = current_slot_estimate(now)]
    /\ UNCHANGED <<now, boots, plast, work, item, good, cacheVars, tableVars>>

deactivate_expired_delegations(s) ==
    deactivate({d \in delegations \ deactivated : d.slot < s})

DeactivateExpired(k) ==
    /\ ppc[k] = "expire"
    /\ deactivate_expired_delegations(pslot[k])
    /\ pslot' = [pslot EXCEPT ![k] = 0]
    /\ Goto(k, "list")
    /\ UNCHANGED <<now, boots, plast, work, item, good, cacheVars>>

ListActive(k) ==
    /\ ppc[k] = "list"
    /\ work' = [work EXCEPT ![k] = delegations \ deactivated]
    /\ Goto(k, "status")
    /\ UNCHANGED <<now, boots, pslot, plast, item, good, cacheVars, tableVars>>

\* UPDATE ... SET is_active = false WHERE id = $1.
DropDelegation(k) ==
    /\ ppc[k] = "drop"
    /\ deactivate({item[k]})
    /\ item' = [item EXCEPT ![k] = NoItem]
    /\ Goto(k, "status")
    /\ UNCHANGED <<now, boots, pslot, plast, work, good, cacheVars>>

\* A statement fails: the run ends, the rows it has not reached are not checked.
CleanupFails(k) ==
    /\ ppc[k] \in {"expire", "list", "drop"}
    /\ k \in Cleanups
    /\ Goto(k, "idle")
    /\ pslot' = [pslot EXCEPT ![k] = 0]
    /\ work' = [work EXCEPT ![k] = {}]
    /\ item' = [item EXCEPT ![k] = NoItem]
    /\ UNCHANGED <<now, boots, plast, good, cacheVars, tableVars>>

CleanupEnds(k) ==
    /\ k \in Cleanups
    /\ ppc[k] = "status"
    /\ work[k] = {}
    /\ Goto(k, "idle")
    /\ UNCHANGED <<now, boots, pslot, plast, work, item, good, cacheVars, tableVars>>
-----------------------------------------------------------------------------
Tick ==
    /\ CacheAges
    /\ now' = IF now < MaxTime THEN now + 1 ELSE now
    /\ UNCHANGED <<boots, jobVars, tableVars>>

Chain ==
    /\ ChainAdvances
    /\ UNCHANGED <<now, boots, jobVars, tableVars>>

\* The process dies and is started again: only the table is left.
Restart ==
    /\ boots < MaxRestarts
    /\ boots' = boots + 1
    /\ CacheLost
    /\ ppc' = [j \in Jobs |-> "idle"]
    /\ pslot' = [j \in Jobs |-> 0]
    /\ plast' = [j \in Jobs |-> 0]
    /\ work' = [j \in Jobs |-> {}]
    /\ item' = [j \in Jobs |-> NoItem]
    /\ good' = [j \in Jobs |-> {}]
    /\ UNCHANGED <<now, tableVars>>

StatusStep(j) ==
    StatusHit(j) \/ StatusMiss(j) \/ BeaconAnswers(j) \/ BeaconFails(j) \/ StatusFetched(j)

PollStep(p) ==
    \/ StartPoll(p) \/ FetchNothing(p) \/ FetchDelegations(p) \/ StatusesDone(p)
    \/ SaveBatch(p) \/ SaveBatchFails(p) \/ PollEnds(p)

CleanupStep(k) ==
    \/ StartCleanup(k) \/ DeactivateExpired(k) \/ ListActive(k) \/ DropDelegation(k)
    \/ CleanupFails(k) \/ CleanupEnds(k)

JobStep(j) ==
    \/ StatusStep(j)
    \/ j \in Polls /\ PollStep(j)
    \/ j \in Cleanups /\ CleanupStep(j)

Next == (\E j \in Jobs : JobStep(j)) \/ Tick \/ Chain \/ Restart

Spec == Init /\ [][Next]_pollingVars

\* The scheduler starts runs again and again and every await ends.
ScheduledSpec == Spec /\ \A j \in Jobs : WF_pollingVars(JobStep(j))

\* The offers that pass the checks on a delegation itself: the others never get
\* into the table.
Storable == {d \in Offered : d.verified /\ d.delegate = OurDelegate}

\* What more is asked of the outside: time passes, and the cleanup does not fail
\* every time it comes to a row.
Outside ==
    /\ WF_pollingVars(Tick)
    /\ \A k \in Cleanups :
         /\ SF_pollingVars(DeactivateExpired(k))
         /\ SF_pollingVars(ListActive(k))
         /\ \A d \in Storable :
              /\ SF_pollingVars(BeaconAnswers(k) /\ item[k] = d)
              /\ SF_pollingVars(StatusFetched(k) /\ item[k] = d)
              /\ SF_pollingVars(DropDelegation(k) /\ item[k] = d)
-----------------------------------------------------------------------------
(* Properties.                                                             *)

\* What is in the table was vetted: addressed to us, signed, storable, and of a
\* proposer that has been an active validator, whichever runs raced to store it.
StoredWasVetted ==
    \A d \in delegations :
        /\ d.delegate = OurDelegate
        /\ d.verified
        /\ chk_address_format(d.committer)
        /\ chain[d.proposer] # "pending"

\* A run of either job ends, though the relay, the node and the database may
\* fail at every step.
JobsEnd == \A j \in Jobs : ppc[j] # "idle" ~> ppc[j] = "idle"

InForce(d) == d \in delegations \ deactivated

\* If the outside does not fail every time, the delegation of a slashed proposer
\* does not stay in force: neither an entry of the cache from before the slashing
\* nor a late answer keeps it there.
SlashedIsDropped ==
    Outside => \A d \in Storable :
        (InForce(d) /\ chain[d.proposer] \in {"slashed", "exited_slashed"}) ~> ~InForce(d)

\* What the cleanup logs of a delegation it drops: its slot has passed, or its
\* proposer has been slashed or is no longer active.
DroppedIsGone ==
    \A d \in deactivated :
        \/ d.slot < current_slot_estimate(now)
        \/ chain[d.proposer] \in {"slashed", "exited", "exited_slashed"}
=============================================================================
