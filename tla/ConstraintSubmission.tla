------------------------- MODULE ConstraintSubmission -------------------------
(***************************************************************************)
(* The background service that turns stored commitments into constraints   *)
(* and posts them to the relay (services/constraint_submission.rs and      *)
(* submit_constraints of api/constraints.rs).                              *)
(*                                                                         *)
(* A cron job starts process_pending_constraints every two seconds whether *)
(* or not the previous run has ended, so several runs r \in Runs are under *)
(* way at once.  A run awaits the database and the relay; every await is a *)
(* step boundary.  What a run does between two awaits is one action.       *)
(***************************************************************************)
EXTENDS BeaconTiming, CommitmentStore, DelegationStore

CONSTANTS
    Runs,           \* runs of the cron job that can be under way at once
    OurDelegate,    \* config.signing.bls_public_key
    LOOKAHEAD,      \* 3 in the code
    MaxRetries,     \* config.constraints_api.max_retries
    NoMsg,          \* no message under construction
    CommitmentInputs,   \* commitments the handler may store in the model
    DelegationInputs,   \* delegations the poller may store in the model
    MaxTime,        \* bound: last second of the clock
    MaxRestarts     \* bound: crashes of the gateway process

ASSUME SubmissionAssumption ==
    /\ OurDelegate \in Delegates
    /\ LOOKAHEAD \in Nat
    /\ MaxRetries \in Nat
    /\ MaxTime \in Nat
    /\ MaxRestarts \in Nat
    /\ NoMsg \notin [proposer : Proposers, slot : Slots, hashes : SUBSET Hash]
    /\ CommitmentInputs \subseteq [hash : Hash, ctype : CommitmentTypes,
                                   slot : Slots, slasher : Address]
    /\ \A c \in CommitmentInputs : chk_address_format(c.slasher)
    /\ DelegationInputs \subseteq Delegation
    /\ \A d \in DelegationInputs : chk_address_format(d.committer)

VARIABLES
    now,         \* system clock, seconds
    restarts,    \* crashes so far
    spc,         \* where each run is
    slot,        \* the slot the run works on
    last,        \* the last slot of the run, fixed when it starts
    todo,        \* delegations of the slot read from the table, still to do
    msg,         \* the signed message being posted
    attempt,     \* posts of it so far
    inflight,    \* posts the client gave up on that may still reach the relay
    accepted,    \* messages the relay has taken in
    late         \* those of them taken in after their slot's deadline

runVars == <<spc, slot, last, todo, msg, attempt>>
relayVars == <<inflight, accepted, late>>
storeVars == <<commitments, delegations, deactivated>>
vars == <<now, restarts, runVars, relayVars, storeVars>>

\* ConstraintsMessage: the payloads are stood for by the hashes of the
\* commitments they come from; delegate is always OurDelegate and receivers
\* is fixed by the configuration.
Message == [proposer : Proposers, slot : Slots, hashes : SUBSET Hash]

RunStates == {"idle", "slot", "delegations", "commitments", "post", "mark"}

SubmissionTypeOK ==
    /\ now \in Nat
    /\ restarts \in Nat
    /\ spc \in [Runs -> RunStates]
    /\ slot \in [Runs -> Nat]
    /\ last \in [Runs -> Nat]
    /\ todo \in [Runs -> SUBSET Delegation]
    /\ msg \in [Runs -> Message \cup {NoMsg}]
    /\ \A r \in Runs : spc[r] \in {"post", "mark"} => msg[r] # NoMsg
    /\ attempt \in [Runs -> Nat]
    /\ inflight \subseteq Message
    /\ accepted \subseteq Message
    /\ late \subseteq accepted

\* Tables, clock, relay and the locals of every run have their types, and a run
\* that posts or marks holds the signed message it does it for.
TypeOK == CommitmentsTypeOK /\ DelegationsTypeOK /\ SubmissionTypeOK

SubmissionInit ==
    /\ restarts = 0
    /\ spc = [r \in Runs |-> "idle"]
    /\ slot = [r \in Runs |-> 0]
    /\ last = [r \in Runs |-> 0]
    /\ todo = [r \in Runs |-> {}]
    /\ msg = [r \in Runs |-> NoMsg]
    /\ attempt = [r \in Runs |-> 0]
    /\ inflight = {}
    /\ accepted = {}
    /\ late = {}

Init ==
    /\ now = 0
    /\ commitments = [h \in Hash |-> NoRow]
    /\ delegations = {}
    /\ deactivated = {}
    /\ SubmissionInit
-----------------------------------------------------------------------------
(* A run of process_pending_constraints.                                   *)

\* Mutant: the range of slots leaves out the current one.
StartRunLate(r) ==
    /\ spc[r] = "idle"
    /\ spc' = [spc EXCEPT ![r] = "slot"]
    /\ slot' = [slot EXCEPT ![r] = current_slot_estimate(now) + 1]
    /\ last' = [last EXCEPT ![r] = current_slot_estimate(now) + LOOKAHEAD]
    /\ UNCHANGED <<now, restarts, todo, msg, attempt, relayVars, storeVars>>

\* The cron job fires: the slots to check are computed once, from the clock.
StartRun(r) ==
    /\ spc[r] = "idle"
    /\ spc' = [spc EXCEPT ![r] = "slot"]
    /\ slot' = [slot EXCEPT ![r] = current_slot_estimate(now)]
    /\ last' = [last EXCEPT ![r] = current_slot_estimate(now) + LOOKAHEAD]
    /\ UNCHANGED <<now, restarts, todo, msg, attempt, relayVars, storeVars>>

\* The slot is inside its submission window: ask for its delegations.
EnterSlot(r) ==
    /\ spc[r] = "slot"
    /\ slot[r] <= last[r]
    /\ is_within_constraint_window(slot[r], now)
    /\ spc' = [spc EXCEPT ![r] = "delegations"]
    /\ UNCHANGED <<now, restarts, slot, last, todo, msg, attempt, relayVars, storeVars>>

\* The slot is outside its window and is skipped.
SkipSlot(r) ==
    /\ spc[r] = "slot"
    /\ slot[r] <= last[r]
    /\ ~is_within_constraint_window(slot[r], now)
    /\ slot' = [slot EXCEPT ![r] = @ + 1]
    /\ UNCHANGED <<now, restarts, spc, last, todo, msg, attempt, relayVars, storeVars>>

\* All slots are done.  The locals of the run are gone.
FinishRun(r) ==
    /\ spc[r] = "slot"
    /\ slot[r] > last[r]
    /\ spc' = [spc EXCEPT ![r] = "idle"]
    /\ slot' = [slot EXCEPT ![r] = 0]
    /\ last' = [last EXCEPT ![r] = 0]
    /\ UNCHANGED <<now, restarts, todo, msg, attempt, relayVars, storeVars>>

\* Mutant: the loop takes delegations to other gateways too.
ReadDelegationsOfAll(r) ==
    /\ spc[r] = "delegations"
    /\ todo' = [todo EXCEPT ![r] = get_delegations_for_slot(slot[r])]
    /\ spc' = [spc EXCEPT ![r] = "commitments"]
    /\ UNCHANGED <<now, restarts, slot, last, msg, attempt, relayVars, storeVars>>

\* get_delegations_for_slot answers; delegations to another gateway key are
\* skipped by the loop.
ReadDelegations(r) ==
    /\ spc[r] = "delegations"
    /\ todo' = [todo EXCEPT ![r] = {d \in get_delegations_for_slot(slot[r]) :
                                       d.delegate = OurDelegate}]
    /\ spc' = [spc EXCEPT ![r] = "commitments"]
    /\ UNCHANGED <<now, restarts, slot, last, msg, attempt, relayVars, storeVars>>

\* get_delegations_for_slot fails: logged, the next slot is tried.
ReadDelegationsFails(r) ==
    /\ spc[r] = "delegations"
    /\ spc' = [spc EXCEPT ![r] = "slot"]
    /\ slot' = [slot EXCEPT ![r] = @ + 1]
    /\ UNCHANGED <<now, restarts, last, todo, msg, attempt, relayVars, storeVars>>

\* The unprocessed commitments a delegation turns into constraints: the slasher
\* must be the delegation's committer, compared as strings, and the type 1.
create_constraints_from_commitments(s, committer) ==
    {h \in get_unprocessed_commitments_for_slot(s) :
        /\ commitments[h].slasher = committer
        /\ commitments[h].ctype = 1}

\* One delegation of the slot: read the commitments, build and sign a message
\* that names the delegation's proposer.
CreateConstraints(r) ==
    /\ spc[r] = "commitments"
    /\ \E d \in todo[r] :
         LET hashes == create_constraints_from_commitments(slot[r], d.committer) IN
         /\ hashes # {}
         /\ todo' = [todo EXCEPT ![r] = @ \ {d}]
         /\ msg' = [msg EXCEPT ![r] = [proposer |-> d.proposer, slot |-> slot[r],
                                       hashes |-> hashes]]
    /\ attempt' = [attempt EXCEPT ![r] = 0]
    /\ spc' = [spc EXCEPT ![r] = "post"]
    /\ UNCHANGED <<now, restarts, slot, last, relayVars, storeVars>>

\* Nothing to submit for this delegation, or the query, the builder keys of the
\* configuration or the signature fail: logged, the next delegation is tried.
SkipDelegation(r) ==
    /\ spc[r] = "commitments"
    /\ \E d \in todo[r] : todo' = [todo EXCEPT ![r] = @ \ {d}]
    /\ UNCHANGED <<now, restarts, spc, slot, last, msg, attempt, relayVars, storeVars>>

\* No delegation of the slot is left.
LeaveSlot(r) ==
    /\ spc[r] = "commitments"
    /\ todo[r] = {}
    /\ spc' = [spc EXCEPT ![r] = "slot"]
    /\ slot' = [slot EXCEPT ![r] = @ + 1]
    /\ UNCHANGED <<now, restarts, last, todo, msg, attempt, relayVars, storeVars>>
-----------------------------------------------------------------------------
(* submit_constraints: the retry loop of the relay client.                 *)

\* At least one attempt is made, even when max_retries is 0.
max_attempts == IF MaxRetries > 1 THEN MaxRetries ELSE 1

\* External: the relay takes a message in, whatever the time is.
RelayAccepts(m) ==
    /\ accepted' = accepted \cup {m}
    /\ late' = IF is_within_constraint_window(m.slot, now) THEN late
               ELSE late \cup {m}

\* Mutant: the message is dropped, but the loop over attempts goes on.
GiveUpMessageOnly(r) ==
    /\ msg' = [msg EXCEPT ![r] = NoMsg]
    /\ attempt' = [attempt EXCEPT ![r] = 0]
    /\ UNCHANGED spc

\* Back in the loop over delegations after an error.
GiveUp(r) ==
    /\ spc' = [spc EXCEPT ![r] = "commitments"]
    /\ msg' = [msg EXCEPT ![r] = NoMsg]
    /\ attempt' = [attempt EXCEPT ![r] = 0]

\* 200 or 202.
PostAccepted(r) ==
    /\ spc[r] = "post"
    /\ RelayAccepts(msg[r])
    /\ spc' = [spc EXCEPT ![r] = "mark"]
    /\ UNCHANGED <<now, restarts, slot, last, todo, msg, attempt, inflight, storeVars>>

\* Mutant: retries without counting them.
PostUnansweredForEver(r) ==
    /\ spc[r] = "post"
    /\ \/ UNCHANGED relayVars
       \/ RelayAccepts(msg[r]) /\ UNCHANGED inflight
       \/ inflight' = inflight \cup {msg[r]} /\ UNCHANGED <<accepted, late>>
    /\ UNCHANGED <<now, restarts, runVars, storeVars>>

\* 429, 408, 504, another 5xx or a network error: the client does not know what
\* became of the post.  It is lost, or the relay took it in and the answer is
\* lost, or it is still under way.  The client tries again while it may.
PostUnanswered(r) ==
    /\ spc[r] = "post"
    /\ \/ UNCHANGED relayVars
       \/ RelayAccepts(msg[r]) /\ UNCHANGED inflight
       \/ inflight' = inflight \cup {msg[r]} /\ UNCHANGED <<accepted, late>>
    /\ IF attempt[r] + 1 < max_attempts
       THEN attempt' = [attempt EXCEPT ![r] = @ + 1] /\ UNCHANGED <<spc, msg>>
       ELSE GiveUp(r)
    /\ UNCHANGED <<now, restarts, slot, last, todo, storeVars>>

\* Any other 4xx: no further attempt.
PostRefused(r) ==
    /\ spc[r] = "post"
    /\ GiveUp(r)
    /\ UNCHANGED <<now, restarts, slot, last, todo, relayVars, storeVars>>

\* External: a post the client has given up on reaches the relay after all.
LateDelivery ==
    /\ \E m \in inflight :
         /\ inflight' = inflight \ {m}
         /\ RelayAccepts(m)
    /\ UNCHANGED <<now, restarts, runVars, storeVars>>
-----------------------------------------------------------------------------
\* Mutant: marks all that is unprocessed in the slot, not only what was posted.
MarkWholeSlot(r) ==
    /\ spc[r] = "mark"
    /\ mark_commitments_as_processed(get_unprocessed_commitments_for_slot(slot[r]))
    /\ GiveUp(r)
    /\ UNCHANGED <<now, restarts, slot, last, todo, relayVars, delegations, deactivated>>

\* The mark_commitments_as_processed of the hashes converted for this message.
MarkProcessed(r) ==
    /\ spc[r] = "mark"
    /\ mark_commitments_as_processed(msg[r].hashes)
    /\ GiveUp(r)
    /\ UNCHANGED <<now, restarts, slot, last, todo, relayVars, delegations, deactivated>>

\* The UPDATE fails: the rows stay unprocessed and the error is logged.
MarkFails(r) ==
    /\ spc[r] = "mark"
    /\ GiveUp(r)
    /\ UNCHANGED <<now, restarts, slot, last, todo, relayVars, storeVars>>

\* The process dies and is started again: runs are forgotten, tables are not,
\* and a post that was being sent may still arrive.
Restart ==
    /\ restarts < MaxRestarts
    /\ restarts' = restarts + 1
    /\ spc' = [r \in Runs |-> "idle"]
    /\ slot' = [r \in Runs |-> 0]
    /\ last' = [r \in Runs |-> 0]
    /\ todo' = [r \in Runs |-> {}]
    /\ msg' = [r \in Runs |-> NoMsg]
    /\ attempt' = [r \in Runs |-> 0]
    /\ \E sent \in SUBSET {msg[r] : r \in {q \in Runs : spc[q] = "post"}} :
         inflight' = inflight \cup sent
    /\ UNCHANGED <<now, accepted, late, storeVars>>

Tick ==
    /\ now < MaxTime
    /\ now' = now + 1
    /\ UNCHANGED <<restarts, runVars, relayVars, storeVars>>
-----------------------------------------------------------------------------
(* What the rest of the gateway does to the tables: the request handler    *)
(* stores commitments, the polling service stores and deactivates          *)
(* delegations.  Their own modules model them in full.                     *)

HandlerStores ==
    /\ \E c \in CommitmentInputs :
         save_commitment(c.hash, NewRow(c.ctype, c.slot, c.slasher))
    /\ UNCHANGED <<now, restarts, runVars, relayVars, delegations, deactivated>>

PollerStores ==
    /\ \E ds \in SUBSET DelegationInputs : save_delegations_batch(ds)
    /\ UNCHANGED <<now, restarts, runVars, relayVars, commitments>>

PollerDeactivates ==
    /\ \E ds \in SUBSET (delegations \ deactivated) : deactivate(ds)
    /\ UNCHANGED <<now, restarts, runVars, relayVars, commitments>>

RunStep(r) ==
    \/ StartRun(r) \/ EnterSlot(r) \/ SkipSlot(r) \/ FinishRun(r)
    \/ ReadDelegations(r) \/ ReadDelegationsFails(r)
    \/ CreateConstraints(r) \/ SkipDelegation(r) \/ LeaveSlot(r)
    \/ PostAccepted(r) \/ PostUnanswered(r) \/ PostRefused(r)
    \/ MarkProcessed(r) \/ MarkFails(r)

Next ==
    \/ \E r \in Runs : RunStep(r)
    \/ LateDelivery \/ Restart \/ Tick
    \/ HandlerStores \/ PollerStores \/ PollerDeactivates

Spec == Init /\ [][Next]_vars

-----------------------------------------------------------------------------
(* Properties.                                                             *)

\* A commitment whose constraint_processed flag is set was in a message the
\* relay took in for the commitment's slot: marking never runs ahead of the
\* post, in no interleaving of overlapping runs, failed posts and crashes.
ProcessedWasAccepted ==
    \A h \in Hash : Processed(h) =>
        \E m \in accepted : h \in m.hashes /\ m.slot = commitments[h].slot

\* The gateway's authority for a commitment: a stored delegation of the slot, to
\* our key, whose committer is the commitment's slasher.
AuthorisedBy(h, m) ==
    \E d \in delegations :
        /\ d.proposer = m.proposer
        /\ d.slot = m.slot
        /\ d.delegate = OurDelegate
        /\ d.committer = commitments[h].slasher

\* A message is backed when all its constraints come from stored inclusion
\* commitments for its slot, under a delegation of the proposer it names.
Backed(m) ==
    \A h \in m.hashes :
        /\ commitment_exists(h)
        /\ commitments[h].slot = m.slot
        /\ commitments[h].ctype = 1
        /\ AuthorisedBy(h, m)

\* Whatever reaches the relay, now or late, is backed: no run ever posts a
\* constraint nobody was promised, or under a proposer who did not delegate.
PostsAreBacked == \A m \in accepted \cup inflight : Backed(m)

\* The strengthening that makes the two invariants above inductive.  What a run
\* remembers from the tables stays true of them: its delegations are stored ones
\* of its slot to our key, its message is backed, and by the time it marks the
\* relay has taken the message in.
RunRemembers(r) ==
    /\ spc[r] \in {"idle", "slot", "delegations"} => todo[r] = {}
    /\ \A d \in todo[r] : /\ d \in delegations
                          /\ d.slot = slot[r]
                          /\ d.delegate = OurDelegate
    /\ spc[r] \in {"post", "mark"} => Backed(msg[r])
    /\ spc[r] = "mark" => msg[r] \in accepted

SubmissionInv ==
    /\ TypeOK
    /\ \A r \in Runs : RunRemembers(r)
    /\ PostsAreBacked
    /\ ProcessedWasAccepted

\* A stored commitment is never rewritten or lost, and once processed it is
\* never offered to a run again: ON CONFLICT DO NOTHING must not touch it.
RowsKept == [][\A h \in Hash : RowKept(h)]_vars

\* Every run of the job ends: the retries of the posts are bounded, so a relay
\* that never answers does not keep a run for ever.
RunsEnd == \A r \in Runs : spc[r] # "idle" ~> spc[r] = "idle"

\* What handlers.rs says of the service: constraints reach the relay within the
\* 8-second deadline.
NoLateMessage == late = {}
=============================================================================
