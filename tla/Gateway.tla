------------------------------- MODULE Gateway -------------------------------
(***************************************************************************)
(* The gateway process: commitment_request calls (CommitmentHandler) and   *)
(* runs of the constraint submission job (ConstraintSubmission) over the   *)
(* shared tables, with the polling service changing the delegations under  *)
(* both.  A crash ends calls and runs together; the tables and the relay   *)
(* survive it.                                                             *)
(***************************************************************************)
EXTENDS CommitmentHandler, ConstraintSubmission

\* What the job sees of the request q once it is stored.
InputOf(q) == [hash |-> generate_request_hash(q), ctype |-> q.ctype, slot |-> q.slot,
               slasher |-> q.slasher]

\* Both components are told of the same outside: one poller, and the commitments
\* that turn up in the job's table are those of requests the handler may store.
ASSUME GatewayAssumption ==
    /\ DelegationInputs = SeenDelegations
    /\ \A q \in Request :
          Rejection(q) = "none" /\ chk_address_format(q.slasher)
             => InputOf(q) \in CommitmentInputs

handlerOnly == <<callVars, gas, crashes>>
serviceOnly == <<now, restarts, runVars, relayVars>>
gatewayVars == <<storeVars, handlerOnly, serviceOnly>>

GatewayInit == Init /\ CallsInit

Call == \E c \in Calls : (Receive(c) \/ CallStep(c)) /\ UNCHANGED serviceOnly

Job == \E r \in Runs : RunStep(r) /\ UNCHANGED handlerOnly

Relay == LateDelivery /\ UNCHANGED handlerOnly

Clock == Tick /\ UNCHANGED handlerOnly

Poller == (PollerStores \/ PollerDeactivates) /\ UNCHANGED handlerOnly

\* The process dies and is started again.
ProcessRestart == Crash /\ Restart

GatewayNext == Call \/ Job \/ Relay \/ Clock \/ Poller \/ ProcessRestart

GatewaySpec == GatewayInit /\ [][GatewayNext]_gatewayVars

\* The runtime keeps polling calls and runs and the scheduler starts runs again
\* and again; every await ends, because the clients and the pool time out.
Scheduling ==
    /\ \A c \in Calls : WF_gatewayVars(CallStep(c) /\ UNCHANGED serviceOnly)
    /\ \A r \in Runs : WF_gatewayVars(RunStep(r) /\ UNCHANGED handlerOnly)

\* Enough for termination: the outside may fail every time.
ScheduledSpec == GatewaySpec /\ Scheduling

\* What more is asked of the outside: the database and the relay do not fail
\* every time the job asks them about a slot.
Outside ==
    \A r \in Runs, s \in Slots :
        /\ SF_gatewayVars(ReadDelegations(r) /\ slot[r] = s /\ UNCHANGED handlerOnly)
        /\ SF_gatewayVars(CreateConstraints(r) /\ slot[r] = s /\ UNCHANGED handlerOnly)
        /\ SF_gatewayVars(PostAccepted(r) /\ slot[r] = s /\ UNCHANGED handlerOnly)
        /\ SF_gatewayVars(MarkProcessed(r) /\ slot[r] = s /\ UNCHANGED handlerOnly)

FairSpec == ScheduledSpec /\ Outside
-----------------------------------------------------------------------------
(* Properties.  CallsEnd of the handler and RunsEnd of the job are checked *)
(* of the whole as well.                                                   *)

Stored == {h \in Hash : commitment_exists(h)}
Promised == {<<c, HashOf(c)>> : c \in {e \in Calls : answer[e] = "signed"}}
Posted == UNION {m.hashes : m \in accepted}
Settled == {h \in Hash : Processed(h)}

P == INSTANCE PreconfPromise
        WITH stored <- Stored, promised <- Promised, posted <- Posted,
             settled <- Settled

\* The gateway keeps the promise: only stored requests are promised, each at
\* most once, only stored ones are posted and only posted ones are settled, and
\* none of it is ever taken back, across overlapping runs, retries and crashes.
KeepsPromise == P!PromiseSpec

\* Whatever the relay has taken in rests on a delegation that the scheduled
\* proposer of the slot signed, to a committer that is ours.
PostsRestOnSchedule ==
    \A m \in accepted : \A h \in m.hashes :
        \E d \in delegations : Grants(d, h) /\ d.slot = m.slot

\* A client holds a signed commitment for h, its slot is in reach of the job and
\* its window open, and our delegation for it, that of the scheduled proposer,
\* is active.
Owed(h) ==
    /\ \E c \in Calls : <<c, h>> \in Promised
    /\ h \notin Settled
    /\ commitments[h].slot - LOOKAHEAD <= current_slot_estimate(now)
    /\ is_within_constraint_window(commitments[h].slot, now)
    /\ \E d \in get_delegations_for_slot(commitments[h].slot) :
          Grants(d, h) /\ d.delegate = OurDelegate

\* What handlers.rs says: the background service automatically processes signed
\* commitments and creates constraints for the relay.
SignedIsConstrained == \A h \in Hash : Owed(h) ~> ~Owed(h)

\* The same for commitments whose slasher is written, letter by letter, as in
\* the delegations of its slot.
SameSpelling(h) ==
    \A d \in get_delegations_for_slot(commitments[h].slot) :
        d.committer = commitments[h].slasher

\* If the outside does not fail every time, a signed commitment spelled as its
\* delegations are does reach the relay and is settled, unless its window closes
\* or its delegation goes first.
SameSpellingIsConstrained ==
    Outside => \A h \in Hash : (Owed(h) /\ SameSpelling(h)) ~> ~(Owed(h) /\ SameSpelling(h))

\* What ConstraintsMessage says of its proposer field: the scheduled proposer.
NamesScheduledProposer == \A m \in accepted : m.proposer = Scheduled[m.slot]
=============================================================================
