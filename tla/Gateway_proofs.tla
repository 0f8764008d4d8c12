---------------------------- MODULE Gateway_proofs ----------------------------
(***************************************************************************)
(* Proofs about the composed gateway, for every number of calls, runs,     *)
(* requests, delegations, retries and crashes.  Each step of the gateway   *)
(* is a step of the submission service, and is a step of the handler or    *)
(* marks rows as processed.  So what is proved of either part holds of the *)
(* whole, up to what the marks do to the handler's invariant; from both    *)
(* together follows that the gateway implements PreconfPromise.            *)
(***************************************************************************)
EXTENDS Gateway, CommitmentHandler_proofs, ConstraintSubmission_proofs

USE DEF handlerOnly, serviceOnly, gatewayVars, callVars, handlerStoreVars, handlerVars, runVars,
    relayVars, storeVars, vars
-----------------------------------------------------------------------------
(* The gateway's steps, seen from its parts.                               *)

\* The UPDATE of a run, as the handler sees it.
Marks == \E r \in Runs : /\ MarkProcessed(r)
                         /\ UNCHANGED <<handlerOnly, delegations, deactivated>>

\* A run changes the tables only by its UPDATE.
LEMMA RunKeepsTables ==
    ASSUME NEW r \in Runs, RunStep(r), ~MarkProcessed(r)
    PROVE  UNCHANGED storeVars
BY DEF RunStep, StartRun, EnterSlot, SkipSlot, FinishRun, ReadDelegations,
   ReadDelegationsFails, CreateConstraints, SkipDelegation, LeaveSlot, PostAccepted,
   PostUnanswered, PostRefused, MarkFails

\* To the handler, every step is one of its own, or marks rows as processed.
LEMMA StepOfHandler == [GatewayNext]_gatewayVars => [HandlerNext]_handlerVars \/ Marks
<1> SUFFICES ASSUME [GatewayNext]_gatewayVars PROVE [HandlerNext]_handlerVars \/ Marks
    OBVIOUS
<1>1. CASE Call
    BY <1>1 DEF Call, HandlerNext
<1>2. ASSUME NEW r \in Runs, RunStep(r), UNCHANGED handlerOnly
      PROVE  [HandlerNext]_handlerVars \/ Marks
    <2>1. CASE MarkProcessed(r)
        BY <1>2, <2>1 DEF Marks, MarkProcessed
    <2>2. CASE ~MarkProcessed(r)
        BY <1>2, <2>2, RunKeepsTables
    <2> QED BY <2>1, <2>2
<1>3. CASE Relay \/ Clock \/ UNCHANGED gatewayVars
    BY <1>3 DEF Relay, Clock, LateDelivery, Tick
<1>4. CASE Poller
    BY <1>4, GatewayAssumption DEF Poller, PollerStores, PollerDeactivates, HandlerNext,
       DelegationArrives, DelegationGoes
<1>5. CASE ProcessRestart
    BY <1>5 DEF ProcessRestart, HandlerNext
<1> QED BY <1>1, <1>2, <1>3, <1>4, <1>5 DEF GatewayNext, Job

\* What a call inserts is a commitment the submission service may find.
LEMMA SaveIsInput ==
    ASSUME HandlerInv, NEW c \in Calls, hpc[c] = "save", chk_address_format(request[c].slasher),
           save_commitment(HashOf(c), RowOf(request[c]))
    PROVE  \E i \in CommitmentInputs : save_commitment(i.hash, NewRow(i.ctype, i.slot, i.slasher))
<1>1. request[c] \in Request /\ Rejection(request[c]) = "none"
    BY DEF HandlerInv, CallValid
<1>2. InputOf(request[c]) \in CommitmentInputs
    BY <1>1, GatewayAssumption
<1>3. /\ InputOf(request[c]).hash = HashOf(c)
      /\ NewRow(InputOf(request[c]).ctype, InputOf(request[c]).slot, InputOf(request[c]).slasher)
           = RowOf(request[c])
    BY DEF InputOf, HashOf, RowOf
<1> QED BY <1>2, <1>3

\* To the submission service, every step is one of its own.
LEMMA StepOfSubmission ==
    ASSUME HandlerInv, [GatewayNext]_gatewayVars
    PROVE  [Next]_vars
<1>1. ASSUME NEW c \in Calls, Receive(c) \/ CallStep(c), UNCHANGED serviceOnly
      PROVE  [Next]_vars
    <2>1. UNCHANGED <<delegations, deactivated>>
        BY <1>1 DEF Receive, CallStep, CheckDuplicate, CheckDuplicateFails, FindDelegation,
           FindDelegationFails, CheckProposer, CheckProposerFails, SaveCommitment, SaveFails,
           CalculateFee, CalculateFeeFails, ApplyGas, Reply
    <2>2. \/ UNCHANGED commitments
          \/ /\ hpc[c] = "save" /\ chk_address_format(request[c].slasher)
             /\ save_commitment(HashOf(c), RowOf(request[c]))
        BY <1>1 DEF Receive, CallStep, CheckDuplicate, CheckDuplicateFails, FindDelegation,
           FindDelegationFails, CheckProposer, CheckProposerFails, SaveCommitment, SaveFails,
           CalculateFee, CalculateFeeFails, ApplyGas, Reply
    <2>3. CASE UNCHANGED commitments
        BY <1>1, <2>1, <2>3
    <2>4. ASSUME \E i \in CommitmentInputs :
                   save_commitment(i.hash, NewRow(i.ctype, i.slot, i.slasher))
          PROVE  HandlerStores
        BY <1>1, <2>1, <2>4 DEF HandlerStores
    <2> QED BY <2>2, <2>3, <2>4, SaveIsInput DEF Next
<1>2. CASE Call
    BY <1>1, <1>2 DEF Call
<1>3. CASE ~Call
    BY <1>3 DEF GatewayNext, Job, Relay, Clock, Poller, ProcessRestart, Next
<1> QED BY <1>2, <1>3
-----------------------------------------------------------------------------
(* The invariants of the parts are invariants of the whole.                *)

GatewayInv == HandlerInv /\ SubmissionInv

\* The UPDATE leaves the rest of every row as it is.
LEMMA MarkedRow ==
    ASSUME CommitmentsTypeOK, NEW hs, mark_commitments_as_processed(hs), NEW h \in Hash
    PROVE  /\ commitment_exists(h)' <=> commitment_exists(h)
           /\ commitment_exists(h) => /\ commitments'[h].slot = commitments[h].slot
                                      /\ commitments'[h].ctype = commitments[h].ctype
                                      /\ commitments'[h].slasher = commitments[h].slasher
BY StoreAssumption DEF CommitmentsTypeOK, mark_commitments_as_processed, commitment_exists, Row

\* The handler's invariant does not read the processed flag: marks keep it.
LEMMA MarksKeepHandlerInv ==
    ASSUME HandlerInv, Marks
    PROVE  HandlerInv'
<1>1. PICK r \in Runs : mark_commitments_as_processed(msg[r].hashes)
    BY DEF Marks, MarkProcessed
<1>2. UNCHANGED <<hpc, request, authority, answer, gas, crashes, delegations, deactivated>>
    BY DEF Marks
<1>3. CommitmentsTypeOK
    BY DEF HandlerInv, HandlerTypeOK
<1>4. \A h \in Hash :
        /\ commitment_exists(h)' <=> commitment_exists(h)
        /\ commitment_exists(h) => /\ commitments'[h].slot = commitments[h].slot
                                   /\ commitments'[h].ctype = commitments[h].ctype
                                   /\ commitments'[h].slasher = commitments[h].slasher
    BY <1>1, <1>3, MarkedRow
<1>5. HandlerTypeOK'
    <2>1. CommitmentsTypeOK'
        BY <1>1, <1>3, MarkType
    <2> QED BY <1>2, <2>1 DEF HandlerInv, HandlerTypeOK, DelegationsTypeOK, CallsTypeOK
<1>6. \A c \in Calls : CallValid(c)' /\ CallAuthorised(c)'
    BY <1>2 DEF HandlerInv, CallValid, CallAuthorised
<1>7. \A c \in Calls : (Owns(c)' <=> Owns(c)) /\ HashOf(c)' = HashOf(c)
    BY <1>2 DEF Owns, HashOf
<1>8. OwnersInv'
    <2>1. ASSUME NEW c \in Calls, Owns(c)
          PROVE  /\ HashOf(c) \in Hash
                 /\ commitment_exists(HashOf(c))'
                 /\ commitments'[HashOf(c)].slasher = request[c].slasher
                 /\ commitments'[HashOf(c)].slot = request[c].slot
        BY <1>4, <1>7, <2>1 DEF HandlerInv, OwnersInv, commitment_exists
    <2> QED BY <1>2, <1>7, <2>1 DEF HandlerInv, OwnersInv, commitment_exists
<1>9. OriginInv' /\ GasInv'
    BY <1>2, <1>4, <1>7 DEF HandlerInv, OriginInv, GasInv
<1>10. StoredIsAuthorised'
    <2>1. \A h \in Hash : commitment_exists(h) => \A d : Grants(d, h)' <=> Grants(d, h)
        BY <1>4 DEF Grants, find_signing_key_for_committer
    <2> QED BY <1>2, <1>4, <2>1 DEF HandlerInv, StoredIsAuthorised
<1> QED BY <1>5, <1>6, <1>8, <1>9, <1>10 DEF HandlerInv

\* Every step keeps the invariants of both parts.
LEMMA GatewayStep == GatewayInv /\ [GatewayNext]_gatewayVars => GatewayInv' /\ [Next]_vars
<1> SUFFICES ASSUME GatewayInv, [GatewayNext]_gatewayVars PROVE GatewayInv' /\ [Next]_vars
    OBVIOUS
<1> USE DEF GatewayInv
<1>1. [Next]_vars
    BY StepOfSubmission
<1>2. SubmissionInv'
    BY <1>1, SubmissionInvStep
<1>3. HandlerInv'
    BY StepOfHandler, HandlerInvStep, MarksKeepHandlerInv
<1> QED BY <1>1, <1>2, <1>3

\* Both parts start in an initial state of their own.
LEMMA GatewayStart == GatewayInit => GatewayInv /\ Init
<1>1. GatewayInit => HandlerInit /\ Init
    BY DEF GatewayInit, HandlerInit, Init
<1> QED BY <1>1, HandlerInvInit, SubmissionInvInit DEF GatewayInv

\* The invariants of the handler and of the submission job hold of the two over
\* one database: calls, overlapping runs, the poller and crashes that end both do
\* not disturb what either part relies on.
THEOREM GatewayInvariant == GatewaySpec => []GatewayInv
<1> QED BY GatewayStart, GatewayStep, PTL DEF GatewaySpec

\* The composed gateway is a submission service whose commitments come from
\* somewhere: calls of commitment_request do nothing to it that the specification
\* of the job alone does not allow.
THEOREM GatewayImplementsSubmission == GatewaySpec => Spec
<1> QED BY GatewayStart, GatewayStep, GatewayInvariant, PTL DEF GatewaySpec, Spec

\* What handlers.rs checks before it signs (verify_delegation_authority) reaches
\* through the table to what constraint_submission.rs posts: every constraint the
\* relay has rests on a delegation of the scheduled proposer to our committer,
\* although the job itself asks the beacon node nothing.
THEOREM PostsOnSchedule == GatewaySpec => []PostsRestOnSchedule
<1>1. GatewayInv => PostsRestOnSchedule
    <2> SUFFICES ASSUME GatewayInv, NEW m \in accepted, NEW h \in m.hashes
                 PROVE  \E d \in delegations : Grants(d, h) /\ d.slot = m.slot
        BY DEF PostsRestOnSchedule
    <2>1. Backed(m) /\ m \in Message
        BY DEF GatewayInv, SubmissionInv, PostsAreBacked, TypeOK, SubmissionTypeOK
    <2>2. h \in Hash /\ commitment_exists(h) /\ commitments[h].slot = m.slot
        BY <2>1 DEF Backed, Message
    <2>3. PICK d \in delegations : Grants(d, h)
        BY <2>2 DEF GatewayInv, HandlerInv, StoredIsAuthorised
    <2> QED BY <2>2, <2>3 DEF Grants
<1> QED BY <1>1, GatewayInvariant, PTL

\* What is proved of the handler alone holds of it beside the submission job.
THEOREM GatewayHandlerSafe ==
    GatewaySpec => [](StoredIsAuthorised /\ SignedIsRetrievable /\ OneSignedPerHash /\ GasCountedOnce)
<1>1. GatewayInv => StoredIsAuthorised /\ SignedIsRetrievable /\ OneSignedPerHash /\ GasCountedOnce
    BY DEF GatewayInv, HandlerInv, OwnersInv, Owns, GasInv, SignedIsRetrievable,
       OneSignedPerHash, GasCountedOnce, commitment_result, commitment_exists
<1> QED BY <1>1, GatewayInvariant, PTL
-----------------------------------------------------------------------------
(* The gateway implements PreconfPromise.                                  *)

\* The stored and the settled requests depend on the commitments table alone.
LEMMA TableUnchanged == UNCHANGED commitments => UNCHANGED <<Stored, Settled>>
BY DEF Stored, Settled, Processed, commitment_exists

\* The posted requests depend on what the relay has taken in alone.
LEMMA PostedUnchanged == UNCHANGED accepted => UNCHANGED Posted
BY DEF Posted

\* A step that neither hands out nor takes back a signed commitment leaves the
\* promised requests alone.
LEMMA PromisedUnchanged ==
    ASSUME \A e \in Calls : answer'[e] = "signed" <=> answer[e] = "signed",
           \A e \in Calls : answer[e] = "signed" => request'[e] = request[e]
    PROVE  UNCHANGED Promised
BY DEF Promised, HashOf

\* The INSERT stores the request of the call, or finds it stored.
LEMMA SaveRefines ==
    ASSUME GatewayInv, NEW c \in Calls, hpc[c] = "save", UNCHANGED <<Promised, Posted>>,
           save_commitment(HashOf(c), RowOf(request[c]))
    PROVE  [P!PromiseNext]_P!promiseVars
<1>1. HashOf(c) \in Hash /\ RowOf(request[c]) \in Row
    BY CallHash DEF GatewayInv, HandlerInv
<1>2. CommitmentsTypeOK
    BY DEF GatewayInv, HandlerInv, HandlerTypeOK
<1>3. CASE commitment_exists(HashOf(c))
    BY <1>3, TableUnchanged DEF save_commitment, P!promiseVars
<1>4. CASE ~commitment_exists(HashOf(c))
    <2>1. commitments' = [commitments EXCEPT ![HashOf(c)] = RowOf(request[c])]
        BY <1>4 DEF save_commitment
    <2>2. RowOf(request[c]) # NoRow /\ ~RowOf(request[c]).processed
        BY <1>1, StoreAssumption DEF RowOf, NewRow, Row
    <2>3. Stored' = Stored \cup {HashOf(c)}
        BY <1>1, <1>2, <2>1, <2>2 DEF Stored, commitment_exists, CommitmentsTypeOK
    <2>4. Settled' = Settled
        BY <1>1, <1>2, <1>4, <2>1, <2>2 DEF Settled, Processed, commitment_exists,
           CommitmentsTypeOK
    <2>5. P!Store(HashOf(c))
        BY <2>3, <2>4 DEF P!Store
    <2> QED BY <1>1, <2>5 DEF P!PromiseNext
<1> QED BY <1>3, <1>4

\* A signed answer is a promise of a stored request that nobody was promised yet.
LEMMA AnswerRefines ==
    ASSUME GatewayInv, NEW c \in Calls, Reply(c), UNCHANGED serviceOnly
    PROVE  [P!PromiseNext]_P!promiseVars
<1>1. /\ hpc[c] = "reply"
      /\ answer' = [answer EXCEPT ![c] = "signed"]
      /\ UNCHANGED <<request, commitments, accepted>>
    BY DEF Reply, Answer
<1>2. Owns(c) /\ answer \in [Calls -> Answers] /\ answer[c] = "none"
    BY <1>1 DEF Owns, GatewayInv, HandlerInv, HandlerTypeOK, CallsTypeOK, CallValid
<1>3. HashOf(c) \in Hash /\ HashOf(c) \in Stored
    BY <1>2 DEF GatewayInv, HandlerInv, OwnersInv, Stored
<1>4. ASSUME NEW e \in Calls, <<e, HashOf(c)>> \in Promised
      PROVE  FALSE
    <2>1. answer[e] = "signed" /\ HashOf(e) = HashOf(c)
        BY <1>4 DEF Promised
    <2>2. Owns(e)
        BY <2>1 DEF Owns
    <2>3. e = c
        BY <1>2, <2>1, <2>2 DEF GatewayInv, HandlerInv, OwnersInv
    <2> QED BY <1>2, <2>1, <2>3
<1>5. Promised' = Promised \cup {<<c, HashOf(c)>>}
    <2>1. \A e \in Calls : HashOf(e)' = HashOf(e)
        BY <1>1 DEF HashOf
    <2>2. \A e \in Calls : answer'[e] = "signed" <=> answer[e] = "signed" \/ e = c
        BY <1>1, <1>2
    <2> QED BY <2>1, <2>2 DEF Promised
<1>6. P!Promise(c, HashOf(c))
    BY <1>1, <1>3, <1>4, <1>5, TableUnchanged, PostedUnchanged DEF P!Promise
<1> QED BY <1>3, <1>6 DEF P!PromiseNext

\* Steps of calls store a request, promise one, or are not seen.
LEMMA CallRefines ==
    ASSUME GatewayInv, NEW c \in Calls, Receive(c) \/ CallStep(c), UNCHANGED serviceOnly
    PROVE  [P!PromiseNext]_P!promiseVars
<1>1. CASE Reply(c)
    BY <1>1, AnswerRefines
<1>2. CASE ~Reply(c)
    <2>1. /\ answer \in [Calls -> Answers]
          /\ answer[c] # "signed"
        BY <1>2 DEF GatewayInv, HandlerInv, HandlerTypeOK, CallsTypeOK, CallValid, Receive,
           CallStep, CheckDuplicate, CheckDuplicateFails, FindDelegation, FindDelegationFails,
           CheckProposer, CheckProposerFails, SaveCommitment, SaveFails, CalculateFee,
           CalculateFeeFails, ApplyGas
    <2>2. answer'[c] # "signed"
        BY <1>2, <2>1 DEF Receive, Rejection, Answer,
           CallStep, CheckDuplicate, CheckDuplicateFails, FindDelegation, FindDelegationFails,
           CheckProposer, CheckProposerFails, SaveCommitment, SaveFails, CalculateFee,
           CalculateFeeFails, ApplyGas
    <2>3. \A e \in Calls : e # c => UNCHANGED <<answer[e], request[e]>>
        BY OtherCalls DEF GatewayInv, HandlerInv
    <2>4. UNCHANGED <<Promised, Posted>>
        BY <2>1, <2>2, <2>3, PromisedUnchanged, PostedUnchanged
    <2>5. CASE UNCHANGED commitments
        BY <2>4, <2>5, TableUnchanged DEF P!promiseVars
    <2>6. CASE hpc[c] = "save" /\ save_commitment(HashOf(c), RowOf(request[c]))
        BY <2>4, <2>6, SaveRefines
    <2> QED BY <1>2, <2>5, <2>6 DEF Receive, CallStep, CheckDuplicate, CheckDuplicateFails,
               FindDelegation, FindDelegationFails, CheckProposer, CheckProposerFails,
               SaveCommitment, SaveFails, CalculateFee, CalculateFeeFails, ApplyGas
<1> QED BY <1>1, <1>2

\* What the relay takes in is a post of stored requests.
LEMMA AcceptRefines ==
    ASSUME GatewayInv, NEW m \in Message, Backed(m), accepted' = accepted \cup {m},
           UNCHANGED <<commitments, answer, request>>
    PROVE  [P!PromiseNext]_P!promiseVars
<1>1. m.hashes \in SUBSET Hash /\ m.hashes \subseteq Stored
    BY DEF Message, Backed, Stored
<1>2. Posted' = Posted \cup m.hashes
    BY DEF Posted
<1>3. P!Post(m.hashes)
    BY <1>1, <1>2, TableUnchanged, PromisedUnchanged DEF P!Post
<1> QED BY <1>1, <1>3 DEF P!PromiseNext

\* The UPDATE settles what the relay has taken in.
LEMMA MarkRefines ==
    ASSUME GatewayInv, NEW r \in Runs, MarkProcessed(r), UNCHANGED handlerOnly
    PROVE  [P!PromiseNext]_P!promiseVars
<1> DEFINE hs == msg[r].hashes
<1>1. msg[r] \in accepted /\ Backed(msg[r]) /\ msg[r] \in Message /\ CommitmentsTypeOK
    BY DEF GatewayInv, SubmissionInv, RunRemembers, TypeOK, SubmissionTypeOK, MarkProcessed
<1>2. /\ hs \in SUBSET Hash
      /\ hs \subseteq Posted
      /\ \A h \in hs : commitment_exists(h)
    BY <1>1 DEF Message, Backed, Posted
<1>3. /\ commitments' = [h \in Hash |-> IF h \in hs /\ commitment_exists(h)
                                        THEN [commitments[h] EXCEPT !.processed = TRUE]
                                        ELSE commitments[h]]
      /\ UNCHANGED <<accepted, answer, request>>
    BY DEF MarkProcessed, mark_commitments_as_processed
<1>4. \A h \in Hash : commitment_exists(h)' <=> commitment_exists(h)
    BY <1>1, MarkedRow DEF MarkProcessed
<1>5. \A h \in Hash : Processed(h)' <=> Processed(h) \/ h \in hs
    <2> SUFFICES ASSUME NEW h \in Hash PROVE Processed(h)' <=> Processed(h) \/ h \in hs
        OBVIOUS
    <2>1. CASE h \in hs
        <3>1. commitment_exists(h) /\ commitments[h] \in Row
            BY <1>1, <1>2, <2>1 DEF CommitmentsTypeOK, commitment_exists
        <3>2. commitments'[h].processed
            BY <1>3, <2>1, <3>1 DEF Row
        <3> QED BY <1>4, <2>1, <3>1, <3>2 DEF Processed
    <2>2. CASE h \notin hs
        BY <1>3, <2>2 DEF Processed, commitment_exists
    <2> QED BY <2>1, <2>2
<1>6. Stored' = Stored /\ Settled' = Settled \cup hs
    BY <1>2, <1>4, <1>5 DEF Stored, Settled
<1>7. P!Settle(hs)
    BY <1>2, <1>3, <1>6, PostedUnchanged, PromisedUnchanged DEF P!Settle
<1> QED BY <1>2, <1>7 DEF P!PromiseNext

\* Steps of runs post stored requests, settle posted ones, or are not seen.
LEMMA RunRefines ==
    ASSUME GatewayInv, NEW r \in Runs, RunStep(r), UNCHANGED handlerOnly
    PROVE  [P!PromiseNext]_P!promiseVars
<1>1. CASE MarkProcessed(r)
    BY <1>1, MarkRefines
<1>2. CASE ~MarkProcessed(r)
    <2>1. UNCHANGED <<commitments, answer, request>>
        BY <1>2, RunKeepsTables
    <2>2. CASE UNCHANGED accepted
        BY <2>1, <2>2, TableUnchanged, PostedUnchanged, PromisedUnchanged DEF P!promiseVars
    <2>3. CASE spc[r] = "post" /\ accepted' = accepted \cup {msg[r]}
        <3>1. msg[r] \in Message /\ Backed(msg[r])
            BY <2>3 DEF GatewayInv, SubmissionInv, RunRemembers, TypeOK, SubmissionTypeOK
        <3> QED BY <2>1, <2>3, <3>1, AcceptRefines
    <2> QED BY <1>2, <2>2, <2>3 DEF RunStep, StartRun, EnterSlot, SkipSlot, FinishRun,
               ReadDelegations, ReadDelegationsFails, CreateConstraints, SkipDelegation,
               LeaveSlot, PostAccepted, PostUnanswered, PostRefused, MarkFails, RelayAccepts
<1> QED BY <1>1, <1>2

\* Every step of the gateway is a step of PreconfPromise or is not seen in it.
LEMMA StepRefines ==
    GatewayInv /\ [GatewayNext]_gatewayVars => [P!PromiseNext]_P!promiseVars
<1> SUFFICES ASSUME GatewayInv, [GatewayNext]_gatewayVars
             PROVE  [P!PromiseNext]_P!promiseVars
    OBVIOUS
<1>1. CASE Call
    BY <1>1, CallRefines DEF Call
<1>2. CASE Job
    BY <1>2, RunRefines DEF Job
<1>3. CASE Relay
    <2>1. PICK m \in inflight : accepted' = accepted \cup {m}
        BY <1>3 DEF Relay, LateDelivery, RelayAccepts
    <2>2. m \in Message /\ Backed(m)
        BY DEF GatewayInv, SubmissionInv, PostsAreBacked, TypeOK, SubmissionTypeOK
    <2>3. UNCHANGED <<commitments, answer, request>>
        BY <1>3 DEF Relay, LateDelivery
    <2> QED BY <2>1, <2>2, <2>3, AcceptRefines
<1>4. CASE Clock \/ Poller \/ UNCHANGED gatewayVars
    <2>1. UNCHANGED <<commitments, accepted, answer, request>>
        BY <1>4 DEF Clock, Tick, Poller, PollerStores, PollerDeactivates
    <2> QED BY <2>1, TableUnchanged, PostedUnchanged, PromisedUnchanged DEF P!promiseVars
<1>5. CASE ProcessRestart
    <2>1. UNCHANGED <<commitments, accepted, request>>
        BY <1>5 DEF ProcessRestart, Crash, Restart
    <2>2. \A e \in Calls : answer'[e] = "signed" <=> answer[e] = "signed"
        BY <1>5 DEF ProcessRestart, Crash, GatewayInv, HandlerInv, CallValid
    <2> QED BY <2>1, <2>2, TableUnchanged, PostedUnchanged, PromisedUnchanged DEF P!promiseVars
<1> QED BY <1>1, <1>2, <1>3, <1>4, <1>5 DEF GatewayNext

\* Nothing is stored, promised, posted or settled at the start.
LEMMA StartRefines == GatewayInit => P!PromiseInit
BY DEF GatewayInit, Init, SubmissionInit, CallsInit, P!PromiseInit, Stored, Promised, Posted,
   Settled, Processed, commitment_exists

\* The gateway keeps the promise of PreconfPromise for every number of calls and
\* runs: handlers.rs stores before it answers and answers one call per hash, and
\* constraint_submission.rs posts only what is stored and marks only what the relay
\* took in, in every interleaving with failed calls, lost answers and crashes.
THEOREM PromiseKept == GatewaySpec => KeepsPromise
<1> QED BY StartRefines, StepRefines, GatewayInvariant, PTL
        DEF GatewaySpec, KeepsPromise, P!PromiseSpec
=============================================================================
