----------------------- MODULE CommitmentHandler_proofs -----------------------
(***************************************************************************)
(* Proofs about CommitmentHandler for every number of calls, requests,     *)
(* delegations and crashes.                                                *)
(***************************************************************************)
EXTENDS CommitmentHandler, TLAPS

USE DEF callVars, handlerStoreVars, handlerVars
-----------------------------------------------------------------------------
(* Requests and their hashes.                                              *)

\* A request that passes the checks of Receive has a slot, and a hash in Hash.
LEMMA ValidRequest ==
    ASSUME NEW q \in Request, Rejection(q) = "none"
    PROVE  /\ q.slot \in Slots
           /\ q.ctype = 1
           /\ normalize_address(q.slasher) \in Whitelist
           /\ generate_request_hash(q) \in Hash
           /\ RowOf(q) \in Row
<1>1. q.ctype = 1 /\ validate_slasher_address(q) /\ validate_and_extract_slot(q)
    BY DEF Rejection
<1>2. q.slot \in Slots
    BY <1>1 DEF validate_and_extract_slot, Request
<1>3. generate_request_hash(q) \in Hash
    BY <1>2, HandlerAssumption DEF generate_request_hash
<1>4. RowOf(q) \in Row
    BY <1>2 DEF RowOf, NewRow, Row, Request
<1> QED BY <1>1, <1>2, <1>3, <1>4 DEF validate_slasher_address

\* The hash of a call under way is in Hash.
LEMMA CallHash ==
    ASSUME NEW c \in Calls, CallValid(c), hpc[c] \notin {"ready", "done"}
    PROVE  HashOf(c) \in Hash /\ RowOf(request[c]) \in Row
BY ValidRequest DEF CallValid, HashOf
-----------------------------------------------------------------------------
(* Type correctness.                                                       *)

\* The initial state has the right types.
LEMMA HandlerInitType == HandlerInit => HandlerTypeOK
BY DEF HandlerInit, CallsInit, HandlerTypeOK, CallsTypeOK, CommitmentsTypeOK, DelegationsTypeOK,
   CallStates, Answers, Errors

\* What a step of a call keeps: types, rows and delegations.
LEMMA CallStepType ==
    ASSUME HandlerTypeOK, NEW c \in Calls, CallValid(c), Receive(c) \/ CallStep(c)
    PROVE  HandlerTypeOK'
<1> USE DEF HandlerTypeOK, CallsTypeOK, CallStates, Answers, Errors, Goto, Answer
<1>1. CASE Receive(c)
    BY <1>1, HandlerAssumption DEF Receive, Rejection, CommitmentsTypeOK, DelegationsTypeOK
<1>2. CASE CheckDuplicate(c) \/ CheckDuplicateFails(c)
    BY <1>2 DEF CheckDuplicate, CheckDuplicateFails, CommitmentsTypeOK, DelegationsTypeOK
<1>3. CASE FindDelegation(c) \/ FindDelegationFails(c)
    BY <1>3, HandlerAssumption DEF FindDelegation, FindDelegationFails,
       get_delegations_for_slot, CommitmentsTypeOK, DelegationsTypeOK
<1>4. CASE CheckProposer(c) \/ CheckProposerFails(c)
    BY <1>4 DEF CheckProposer, CheckProposerFails, CommitmentsTypeOK, DelegationsTypeOK
<1>5. CASE SaveCommitment(c)
    <2>1. CommitmentsTypeOK'
        BY <1>5, CallHash DEF SaveCommitment, CommitmentsTypeOK, save_commitment
    <2> QED BY <1>5, <2>1 DEF SaveCommitment, DelegationsTypeOK
<1>6. CASE SaveFails(c)
    <2>1. CommitmentsTypeOK'
        BY <1>6, CallHash DEF SaveFails, CommitmentsTypeOK, save_commitment
    <2> QED BY <1>6, <2>1 DEF SaveFails, DelegationsTypeOK
<1>7. CASE CalculateFee(c) \/ CalculateFeeFails(c)
    BY <1>7 DEF CalculateFee, CalculateFeeFails, CommitmentsTypeOK, DelegationsTypeOK
<1>8. CASE ApplyGas(c) \/ Reply(c)
    BY <1>8, CallHash DEF ApplyGas, Reply, CommitmentsTypeOK, DelegationsTypeOK
<1> QED BY <1>1, <1>2, <1>3, <1>4, <1>5, <1>6, <1>7, <1>8 DEF CallStep

\* Every step keeps the types.
LEMMA HandlerStepType ==
    ASSUME HandlerTypeOK, \A c \in Calls : CallValid(c), [HandlerNext]_handlerVars
    PROVE  HandlerTypeOK'
<1> USE DEF HandlerTypeOK, CallsTypeOK
<1>1. CASE \E c \in Calls : Receive(c) \/ CallStep(c)
    BY <1>1, CallStepType
<1>2. CASE Crash
    BY <1>2 DEF Crash, CallStates, Answers, Errors, CommitmentsTypeOK, DelegationsTypeOK
<1>3. CASE DelegationArrives
    <2>1. \A ds \in SUBSET SeenDelegations : ds \in SUBSET Delegation
        BY HandlerAssumption
    <2>2. DelegationsTypeOK'
        BY <1>3, <2>1 DEF DelegationArrives, DelegationsTypeOK, save_delegations_batch
    <2> QED BY <1>3, <2>2 DEF DelegationArrives, CommitmentsTypeOK
<1>4. CASE DelegationGoes
    BY <1>4 DEF DelegationGoes, deactivate, CommitmentsTypeOK, DelegationsTypeOK
<1>5. CASE UNCHANGED handlerVars
    BY <1>5 DEF CommitmentsTypeOK, DelegationsTypeOK
<1> QED BY <1>1, <1>2, <1>3, <1>4, <1>5 DEF HandlerNext
-----------------------------------------------------------------------------
(* Calls.                                                                  *)

\* Delegations are kept by every step.
LEMMA HandlerKeepsDelegations ==
    ASSUME HandlerTypeOK, [HandlerNext]_handlerVars
    PROVE  delegations \subseteq delegations'
<1>1. CASE DelegationArrives
    <2>1. \A ds \in SUBSET SeenDelegations : ds \in SUBSET Delegation
        BY HandlerAssumption
    <2> QED BY <1>1, <2>1 DEF DelegationArrives, save_delegations_batch
<1>2. CASE ~DelegationArrives
    BY <1>2 DEF HandlerNext, CallStep, Receive, CheckDuplicate, CheckDuplicateFails,
       FindDelegation, FindDelegationFails, CheckProposer, CheckProposerFails,
       SaveCommitment, SaveFails, CalculateFee, CalculateFeeFails, ApplyGas, Reply, Crash,
       DelegationGoes, deactivate
<1> QED BY <1>1, <1>2

\* A step of one call leaves the others alone.
LEMMA OtherCalls ==
    ASSUME HandlerTypeOK, NEW c \in Calls, Receive(c) \/ CallStep(c), NEW e \in Calls, e # c
    PROVE  UNCHANGED <<hpc[e], request[e], authority[e], answer[e]>>
BY DEF HandlerTypeOK, CallsTypeOK, CallStep, Receive, CheckDuplicate, CheckDuplicateFails,
   FindDelegation, FindDelegationFails, CheckProposer, CheckProposerFails,
   SaveCommitment, SaveFails, CalculateFee, CalculateFeeFails, ApplyGas, Reply, Goto, Answer

\* The call that steps stays valid and authorised.
LEMMA StepperValid ==
    ASSUME HandlerTypeOK, NEW c \in Calls, CallValid(c), CallAuthorised(c),
           Receive(c) \/ CallStep(c)
    PROVE  CallValid(c)' /\ CallAuthorised(c)'
<1> USE DEF HandlerTypeOK, CallsTypeOK, CallValid, CallAuthorised, Goto, Answer
<1>1. CASE Receive(c)
    BY <1>1, HandlerAssumption DEF Receive, Rejection
<1>2. CASE CheckDuplicate(c) \/ CheckDuplicateFails(c)
    BY <1>2 DEF CheckDuplicate, CheckDuplicateFails
<1>3. CASE FindDelegation(c)
    BY <1>3 DEF FindDelegation, get_delegations_for_slot
<1>4. CASE FindDelegationFails(c)
    BY <1>4 DEF FindDelegationFails
<1>5. CASE CheckProposer(c) \/ CheckProposerFails(c)
    BY <1>5 DEF CheckProposer, CheckProposerFails
<1>6. CASE SaveCommitment(c) \/ SaveFails(c)
    BY <1>6 DEF SaveCommitment, SaveFails
<1>7. CASE CalculateFee(c) \/ CalculateFeeFails(c) \/ ApplyGas(c) \/ Reply(c)
    BY <1>7 DEF CalculateFee, CalculateFeeFails, ApplyGas, Reply
<1> QED BY <1>1, <1>2, <1>3, <1>4, <1>5, <1>6, <1>7 DEF CallStep

\* Every call stays valid and authorised.
LEMMA StepValid ==
    ASSUME HandlerInv, [HandlerNext]_handlerVars, NEW e \in Calls
    PROVE  CallValid(e)' /\ CallAuthorised(e)'
<1> USE DEF HandlerInv
<1>k. delegations \subseteq delegations'
    BY HandlerKeepsDelegations
<1>u. ASSUME UNCHANGED <<hpc[e], request[e], authority[e], answer[e]>>
      PROVE  CallValid(e)' /\ CallAuthorised(e)'
    BY <1>k, <1>u DEF CallValid, CallAuthorised
<1>1. CASE \E c \in Calls : Receive(c) \/ CallStep(c)
    BY <1>1, <1>u, OtherCalls, StepperValid
<1>2. CASE Crash
    BY <1>2 DEF Crash, CallValid, CallAuthorised, HandlerTypeOK, CallsTypeOK
<1>3. CASE DelegationArrives \/ DelegationGoes \/ UNCHANGED handlerVars
    BY <1>3, <1>u DEF DelegationArrives, DelegationGoes
<1> QED BY <1>1, <1>2, <1>3 DEF HandlerNext
-----------------------------------------------------------------------------
(* Rows and the calls that own them.                                       *)

\* A stored row is left as it is by every step.
LEMMA RowStays ==
    ASSUME HandlerInv, [HandlerNext]_handlerVars, NEW h \in Hash, commitment_exists(h)
    PROVE  commitments'[h] = commitments[h] /\ commitment_exists(h)'
<1> USE DEF HandlerInv, HandlerTypeOK, CommitmentsTypeOK, commitment_exists
<1>1. ASSUME NEW c \in Calls, SaveCommitment(c) \/ SaveFails(c)
      PROVE  commitments'[h] = commitments[h]
    <2>1. HashOf(c) \in Hash
        BY <1>1, CallHash DEF SaveCommitment, SaveFails
    <2> QED BY <1>1, <2>1 DEF SaveCommitment, SaveFails, save_commitment
<1>2. ASSUME ~ \E c \in Calls : SaveCommitment(c) \/ SaveFails(c)
      PROVE  commitments'[h] = commitments[h]
    BY <1>2 DEF HandlerNext, CallStep, Receive, CheckDuplicate, CheckDuplicateFails,
       FindDelegation, FindDelegationFails, CheckProposer, CheckProposerFails,
       CalculateFee, CalculateFeeFails, ApplyGas, Reply, Crash, DelegationArrives,
       DelegationGoes
<1> QED BY <1>1, <1>2

\* A row appears only when a call with its hash, past all checks, inserts it;
\* that call owns the row, or is told of an error although the row is there.
LEMMA RowAppears ==
    ASSUME HandlerInv, [HandlerNext]_handlerVars, NEW h \in Hash,
           ~commitment_exists(h), commitment_exists(h)'
    PROVE  \E c \in Calls :
             /\ hpc[c] = "save"
             /\ HashOf(c) = h
             /\ chk_address_format(request[c].slasher)
             /\ commitments'[h] = RowOf(request[c])
             /\ request'[c] = request[c]
             /\ hpc'[c] = "fee" \/ answer'[c] = "InternalError"
<1> USE DEF HandlerInv, HandlerTypeOK, CommitmentsTypeOK, commitment_exists
<1>1. \E c \in Calls : SaveCommitment(c) \/ SaveFails(c)
    BY DEF HandlerNext, CallStep, Receive, CheckDuplicate, CheckDuplicateFails,
       FindDelegation, FindDelegationFails, CheckProposer, CheckProposerFails,
       CalculateFee, CalculateFeeFails, ApplyGas, Reply, Crash, DelegationArrives,
       DelegationGoes
<1>2. PICK c \in Calls : SaveCommitment(c) \/ SaveFails(c)
    BY <1>1
<1>3. HashOf(c) \in Hash
    BY <1>2, CallHash DEF SaveCommitment, SaveFails
<1>4. HashOf(c) = h /\ commitments'[h] = RowOf(request[c])
    BY <1>2, <1>3 DEF SaveCommitment, SaveFails, save_commitment
<1>5. /\ hpc[c] = "save"
      /\ chk_address_format(request[c].slasher)
      /\ request'[c] = request[c]
    BY <1>2, <1>4 DEF SaveCommitment, SaveFails
<1>6. hpc'[c] = "fee" \/ answer'[c] = "InternalError"
    BY <1>2, <1>4 DEF SaveCommitment, SaveFails, Goto, Answer, CallsTypeOK
<1> QED BY <1>4, <1>5, <1>6

\* A call owns its row from the INSERT that created it on.
LEMMA OwnerIsOld ==
    ASSUME HandlerInv, [HandlerNext]_handlerVars, NEW e \in Calls, Owns(e)'
    PROVE  \/ Owns(e) /\ request'[e] = request[e]
           \/ /\ SaveCommitment(e)
              /\ hpc[e] = "save"
              /\ ~commitment_exists(HashOf(e))
              /\ request'[e] = request[e]
<1> USE DEF HandlerInv, HandlerTypeOK, CallsTypeOK, Owns
<1>u. ASSUME UNCHANGED <<hpc[e], request[e], answer[e]>>
      PROVE  Owns(e) /\ request'[e] = request[e]
    BY <1>u
<1>1. ASSUME NEW c \in Calls, Receive(c) \/ CallStep(c), c # e
      PROVE  Owns(e) /\ request'[e] = request[e]
    BY <1>1, <1>u, OtherCalls
<1>2. CASE Receive(e)
    BY <1>2 DEF Receive, Rejection, Goto, Answer, CallValid
<1>3. CASE SaveCommitment(e)
    BY <1>3 DEF SaveCommitment, Goto, Answer, CallValid
<1>4. CASE CallStep(e) /\ ~SaveCommitment(e)
    BY <1>4 DEF CallStep, CheckDuplicate, CheckDuplicateFails, FindDelegation,
       FindDelegationFails, CheckProposer, CheckProposerFails, SaveFails, CalculateFee,
       CalculateFeeFails, ApplyGas, Reply, Goto, Answer, CallValid
<1>5. CASE Crash
    BY <1>5 DEF Crash
<1>6. CASE DelegationArrives \/ DelegationGoes \/ UNCHANGED handlerVars
    BY <1>6, <1>u DEF DelegationArrives, DelegationGoes
<1> QED BY <1>1, <1>2, <1>3, <1>4, <1>5, <1>6 DEF HandlerNext

\* Rows keep their owners, and no row gets a second one.
LEMMA StepOwners ==
    ASSUME HandlerInv, [HandlerNext]_handlerVars
    PROVE  OwnersInv'
<1> DEFINE New(e) == /\ SaveCommitment(e)
                     /\ hpc[e] = "save"
                     /\ ~commitment_exists(HashOf(e))
<1>1. \A e \in Calls : Owns(e)' => /\ Owns(e) \/ New(e)
                                   /\ request'[e] = request[e]
                                   /\ HashOf(e)' = HashOf(e)
    BY OwnerIsOld DEF HashOf
<1>2. ASSUME NEW e \in Calls, New(e)
      PROVE  /\ HashOf(e) \in Hash
             /\ commitments'[HashOf(e)] = RowOf(request[e])
             /\ commitments'[HashOf(e)] # NoRow
    <2>1. HashOf(e) \in Hash /\ RowOf(request[e]) \in Row
        BY <1>2, CallHash DEF HandlerInv
    <2>2. commitments'[HashOf(e)] = RowOf(request[e])
        BY <1>2, <2>1 DEF SaveCommitment, save_commitment, HandlerInv, HandlerTypeOK,
           CommitmentsTypeOK
    <2> QED BY <2>1, <2>2, StoreAssumption DEF Row
<1>3. ASSUME NEW e \in Calls, Owns(e)'
      PROVE  /\ HashOf(e)' \in Hash
             /\ commitment_exists(HashOf(e))'
             /\ commitments'[HashOf(e)'].slasher = request'[e].slasher
             /\ commitments'[HashOf(e)'].slot = request'[e].slot
    <2>1. CASE Owns(e)
        BY <1>1, <1>3, <2>1, RowStays DEF HandlerInv, OwnersInv, commitment_exists
    <2>2. CASE New(e)
        <3>1. HashOf(e)' = HashOf(e) /\ request'[e] = request[e]
            BY <1>1, <1>3
        <3>2. HashOf(e)' \in Hash /\ commitment_exists(HashOf(e))'
            BY <1>2, <2>2, <3>1 DEF commitment_exists
        <3>3. commitments'[HashOf(e)'] = RowOf(request[e])
            BY <1>2, <2>2, <3>1
        <3> QED BY <3>1, <3>2, <3>3 DEF RowOf, NewRow
    <2> QED BY <1>1, <1>3, <2>1, <2>2
<1>4. ASSUME NEW c \in Calls, NEW e \in Calls, Owns(c)', Owns(e)',
             HashOf(c)' = HashOf(e)'
      PROVE  c = e
    <2>1. HashOf(c) = HashOf(e)
        BY <1>1, <1>4
    <2>2. CASE Owns(c) /\ Owns(e)
        BY <2>1, <2>2 DEF HandlerInv, OwnersInv
    <2>3. CASE New(c) /\ New(e)
        <3>1. SUFFICES ASSUME c # e PROVE FALSE
            OBVIOUS
        <3>2. hpc'[c] = "fee" /\ hpc'[e] = hpc[e]
            BY <2>3, <3>1 DEF SaveCommitment, Goto, HandlerInv, HandlerTypeOK, CallsTypeOK
        <3>3. hpc'[e] = "fee"
            BY <2>3 DEF SaveCommitment, Goto, HandlerInv, HandlerTypeOK, CallsTypeOK
        <3> QED BY <2>3, <3>2, <3>3
    <2>4. CASE Owns(c) /\ New(e)
        BY <2>1, <2>4 DEF HandlerInv, OwnersInv
    <2>5. CASE New(c) /\ Owns(e)
        BY <2>1, <2>5 DEF HandlerInv, OwnersInv
    <2> QED BY <1>1, <1>4, <2>2, <2>3, <2>4, <2>5
<1> QED BY <1>3, <1>4 DEF OwnersInv

\* A call that owns its row, or failed or died with it, stays one of these.
LEMMA OriginStays ==
    ASSUME HandlerInv, [HandlerNext]_handlerVars, NEW e \in Calls,
           Owns(e) \/ answer[e] \in {"InternalError", "lost"}
    PROVE  /\ request'[e] = request[e]
           /\ Owns(e)' \/ answer'[e] \in {"InternalError", "lost"}
<1> USE DEF HandlerInv, HandlerTypeOK, CallsTypeOK, Owns
<1>u. ASSUME UNCHANGED <<hpc[e], request[e], answer[e]>>
      PROVE  /\ request'[e] = request[e]
             /\ Owns(e)' \/ answer'[e] \in {"InternalError", "lost"}
    BY <1>u
<1>1. ASSUME NEW c \in Calls, Receive(c) \/ CallStep(c), c # e
      PROVE  UNCHANGED <<hpc[e], request[e], answer[e]>>
    BY <1>1, OtherCalls
<1>2. CASE Receive(e)
    BY <1>2 DEF Receive, CallValid
<1>3. CASE CallStep(e)
    <2>1. hpc[e] \in {"fee", "gas", "reply"}
        BY <1>3 DEF CallStep, CheckDuplicate, CheckDuplicateFails, FindDelegation,
           FindDelegationFails, CheckProposer, CheckProposerFails, SaveCommitment,
           SaveFails, CalculateFee, CalculateFeeFails, ApplyGas, Reply, CallValid
    <2>2. CalculateFee(e) \/ CalculateFeeFails(e) \/ ApplyGas(e) \/ Reply(e)
        BY <1>3, <2>1 DEF CallStep, CheckDuplicate, CheckDuplicateFails, FindDelegation,
           FindDelegationFails, CheckProposer, CheckProposerFails, SaveCommitment,
           SaveFails
    <2> QED BY <2>2 DEF CalculateFee, CalculateFeeFails, ApplyGas, Reply, Goto, Answer
<1>4. CASE Crash
    BY <1>4 DEF Crash, CallValid
<1>5. CASE DelegationArrives \/ DelegationGoes \/ UNCHANGED handlerVars
    BY <1>5, <1>u DEF DelegationArrives, DelegationGoes
<1> QED BY <1>u, <1>1, <1>2, <1>3, <1>4, <1>5 DEF HandlerNext

\* Every row keeps a call it came from.
LEMMA StepOrigin ==
    ASSUME HandlerInv, [HandlerNext]_handlerVars
    PROVE  OriginInv'
<1> SUFFICES ASSUME NEW h \in Hash, commitment_exists(h)'
             PROVE  \E c \in Calls :
                      /\ request'[c] \in Request
                      /\ HashOf(c)' = h
                      /\ Owns(c)' \/ answer'[c] \in {"InternalError", "lost"}
    BY DEF OriginInv
<1>1. CASE commitment_exists(h)
    <2>1. PICK c \in Calls : /\ request[c] \in Request
                             /\ HashOf(c) = h
                             /\ Owns(c) \/ answer[c] \in {"InternalError", "lost"}
        BY <1>1 DEF HandlerInv, OriginInv
    <2> QED BY <2>1, OriginStays DEF HashOf
<1>2. CASE ~commitment_exists(h)
    <2>1. PICK c \in Calls : /\ hpc[c] = "save"
                             /\ HashOf(c) = h
                             /\ request'[c] = request[c]
                             /\ hpc'[c] = "fee" \/ answer'[c] = "InternalError"
        BY <1>2, RowAppears
    <2>2. request[c] \in Request
        BY <2>1 DEF HandlerInv, CallValid
    <2> QED BY <2>1, <2>2 DEF HashOf, Owns
<1> QED BY <1>1, <1>2

\* Gas is counted at "gas" alone, by the one call that owns the row and has not
\* counted it yet; wherever calls fail or die, the count stays.
LEMMA StepGas ==
    ASSUME HandlerInv, [HandlerNext]_handlerVars
    PROVE  GasInv'
<1> USE DEF HandlerInv, HandlerTypeOK, CallsTypeOK
<1>r. \A h \in Hash : commitment_exists(h) => commitment_exists(h)'
    BY RowStays
<1>1. ASSUME NEW c \in Calls, hpc'[c] \in {"fee", "gas"}
      PROVE  /\ HashOf(c)' = HashOf(c)
             /\ HashOf(c) \in Hash
             /\ gas[HashOf(c)] = 0
    <2>1. Owns(c)'
        BY <1>1 DEF Owns
    <2>2. CASE SaveCommitment(c) /\ hpc[c] = "save" /\ ~commitment_exists(HashOf(c))
        <3>1. HashOf(c) \in Hash
            BY <2>2, CallHash
        <3> QED BY <2>2, <3>1 DEF SaveCommitment, HashOf, GasInv
    <2>3. CASE Owns(c) /\ request'[c] = request[c]
        <3>1. HashOf(c)' = HashOf(c) /\ HashOf(c) \in Hash
            BY <2>3 DEF HashOf, OwnersInv
        <3>2. hpc[c] \in {"fee", "gas"}
            <4>1. ASSUME NEW e \in Calls, Receive(e) \/ CallStep(e), e # c
                  PROVE  hpc[c] = hpc'[c]
                BY <4>1, OtherCalls
            <4>2. ~Receive(c)
                BY <2>3 DEF Receive, CallValid, Owns
            <4>3. CASE CallStep(c)
                BY <1>1, <2>3, <4>3 DEF CallStep, CheckDuplicate, CheckDuplicateFails, FindDelegation,
                   FindDelegationFails, CheckProposer, CheckProposerFails, SaveCommitment,
                   SaveFails, CalculateFee, CalculateFeeFails, ApplyGas, Reply, Goto, Answer,
                   CallValid, Owns
            <4>4. CASE Crash
                BY <1>1, <4>4 DEF Crash
            <4>5. CASE DelegationArrives \/ DelegationGoes \/ UNCHANGED handlerVars
                BY <1>1, <4>5 DEF DelegationArrives, DelegationGoes
            <4> QED BY <1>1, <4>1, <4>2, <4>3, <4>4, <4>5 DEF HandlerNext
        <3> QED BY <3>1, <3>2 DEF GasInv
    <2> QED BY <2>1, <2>2, <2>3, OwnerIsOld
<1>2. CASE UNCHANGED gas
    BY <1>1, <1>2, <1>r DEF GasInv
<1>3. ASSUME NEW c \in Calls, ApplyGas(c), gas' # gas
      PROVE  GasInv'
    <2>1. /\ HashOf(c) \in Hash
          /\ Owns(c)
          /\ commitment_exists(HashOf(c))
          /\ gas[HashOf(c)] = 0
        BY <1>3, CallHash DEF ApplyGas, Owns, OwnersInv, GasInv
    <2>2. gas' = [gas EXCEPT ![HashOf(c)] = gas[HashOf(c)] + 1]
        BY <1>3 DEF ApplyGas
    <2>3. ASSUME NEW h \in Hash
          PROVE  gas'[h] \in {0, 1} /\ (gas'[h] = 1 => commitment_exists(h)')
        BY <1>r, <2>1, <2>2 DEF GasInv
    <2>4. ASSUME NEW e \in Calls, hpc'[e] \in {"fee", "gas"}
          PROVE  gas'[HashOf(e)'] = 0
        <3>1. e # c
            BY <1>3, <2>4 DEF ApplyGas, Goto
        <3>2. hpc'[e] = hpc[e]
            BY <1>3, <3>1 DEF ApplyGas, Goto
        <3>3. HashOf(e) # HashOf(c)
            BY <2>1, <2>4, <3>1, <3>2 DEF OwnersInv, Owns
        <3> QED BY <1>1, <2>1, <2>2, <2>4, <3>3
    <2> QED BY <2>3, <2>4 DEF GasInv
<1>4. CASE gas' # gas
    BY <1>3, <1>4 DEF HandlerNext, CallStep, Receive, CheckDuplicate, CheckDuplicateFails,
       FindDelegation, FindDelegationFails, CheckProposer, CheckProposerFails,
       SaveCommitment, SaveFails, CalculateFee, CalculateFeeFails, Reply, Crash,
       DelegationArrives, DelegationGoes
<1> QED BY <1>2, <1>4

\* A row that is there stays authorised, and one that appears is.
LEMMA StepAuthorised ==
    ASSUME HandlerInv, [HandlerNext]_handlerVars
    PROVE  StoredIsAuthorised'
<1>k. delegations \subseteq delegations'
    BY HandlerKeepsDelegations DEF HandlerInv
<1> SUFFICES ASSUME NEW h \in Hash, commitment_exists(h)'
             PROVE  /\ commitments'[h].ctype = 1
                    /\ normalize_address(commitments'[h].slasher) \in Whitelist
                    /\ chk_address_format(commitments'[h].slasher)
                    /\ \E d \in delegations' : Grants(d, h)'
    BY DEF StoredIsAuthorised
<1>1. CASE commitment_exists(h)
    <2>1. commitments'[h] = commitments[h]
        BY <1>1, RowStays
    <2>2. PICK d \in delegations : Grants(d, h)
        BY <1>1 DEF HandlerInv, StoredIsAuthorised
    <2>3. Grants(d, h)'
        BY <2>1, <2>2 DEF Grants
    <2> QED BY <1>1, <1>k, <2>1, <2>3 DEF HandlerInv, StoredIsAuthorised
<1>2. CASE ~commitment_exists(h)
    <2>1. PICK c \in Calls : /\ hpc[c] = "save"
                             /\ HashOf(c) = h
                             /\ chk_address_format(request[c].slasher)
                             /\ commitments'[h] = RowOf(request[c])
        BY <1>2, RowAppears
    <2>2. request[c] \in Request /\ Rejection(request[c]) = "none" /\ CallAuthorised(c)
        BY <2>1 DEF HandlerInv, CallValid
    <2>3. /\ commitments'[h].ctype = 1
          /\ commitments'[h].slasher = request[c].slasher
          /\ commitments'[h].slot = request[c].slot
          /\ normalize_address(request[c].slasher) \in Whitelist
        BY <2>1, <2>2, ValidRequest DEF RowOf, NewRow
    <2>4. PICK d \in delegations : d = authority[c]
        BY <2>1, <2>2 DEF CallAuthorised
    <2>5. Grants(d, h)'
        BY <2>1, <2>2, <2>3, <2>4 DEF Grants, CallAuthorised
    <2> QED BY <1>k, <2>1, <2>3, <2>5
<1> QED BY <1>1, <1>2
-----------------------------------------------------------------------------
(* The theorems.                                                           *)

\* The inductive invariant holds at the start.
LEMMA HandlerInvInit == HandlerInit => HandlerInv
<1> SUFFICES ASSUME HandlerInit PROVE HandlerInv
    OBVIOUS
<1>1. HandlerTypeOK
    BY HandlerInitType
<1>2. \A h \in Hash : ~commitment_exists(h)
    BY DEF HandlerInit, commitment_exists
<1>3. \A c \in Calls : CallValid(c) /\ CallAuthorised(c) /\ ~Owns(c)
    BY DEF HandlerInit, CallsInit, CallValid, CallAuthorised, Owns
<1>4. GasInv
    BY DEF HandlerInit, CallsInit, GasInv
<1> QED BY <1>1, <1>2, <1>3, <1>4 DEF HandlerInv, OwnersInv, OriginInv, StoredIsAuthorised

\* Every step keeps the inductive invariant.
LEMMA HandlerInvStep == HandlerInv /\ [HandlerNext]_handlerVars => HandlerInv'
<1> SUFFICES ASSUME HandlerInv, [HandlerNext]_handlerVars PROVE HandlerInv'
    OBVIOUS
<1>1. HandlerTypeOK'
    BY HandlerStepType DEF HandlerInv
<1>2. \A c \in Calls : CallValid(c)' /\ CallAuthorised(c)'
    BY StepValid
<1>3. OwnersInv' /\ OriginInv' /\ GasInv' /\ StoredIsAuthorised'
    BY StepOwners, StepOrigin, StepGas, StepAuthorised
<1> QED BY <1>1, <1>2, <1>3 DEF HandlerInv

\* The inductive invariant holds in every reachable state of the handler.
THEOREM HandlerInvariant == HandlerSpec => []HandlerInv
<1> QED BY HandlerInvInit, HandlerInvStep, PTL DEF HandlerSpec

\* The state of the handler keeps its types: every table row, request, granted
\* delegation and answer is one the code can hold.
THEOREM HandlerTypeCorrect == HandlerSpec => []HandlerTypeOK
<1>1. HandlerInv => HandlerTypeOK
    BY DEF HandlerInv
<1> QED BY <1>1, HandlerInvariant, PTL

\* verify_delegation_authority before the INSERT suffices, whatever the poller
\* does in between: no row is stored that the scheduled proposer did not allow.
THEOREM StoredAuthorised == HandlerSpec => []StoredIsAuthorised
<1>1. HandlerInv => StoredIsAuthorised
    BY DEF HandlerInv
<1> QED BY <1>1, HandlerInvariant, PTL

\* What a client was given is what commitment_result finds, for any number of
\* racing calls and crashes.
THEOREM SignedRetrievable == HandlerSpec => []SignedIsRetrievable
<1>1. HandlerInv => SignedIsRetrievable
    BY DEF HandlerInv, OwnersInv, Owns, SignedIsRetrievable, commitment_result,
       commitment_exists
<1> QED BY <1>1, HandlerInvariant, PTL

\* However many calls race past the duplicate check, the ON CONFLICT clause lets
\* at most one of them answer with a signed commitment.
THEOREM SignedOnce == HandlerSpec => []OneSignedPerHash
<1>1. HandlerInv => OneSignedPerHash
    BY DEF HandlerInv, OwnersInv, Owns, OneSignedPerHash
<1> QED BY <1>1, HandlerInvariant, PTL

\* apply_gas_usage_to_slot takes effect at most once per stored commitment, also
\* where the process dies after it and before the answer.
THEOREM GasOnce == HandlerSpec => []GasCountedOnce
<1>1. HandlerInv => GasCountedOnce
    BY DEF HandlerInv, GasInv, OwnersInv, Owns, GasCountedOnce
<1> QED BY <1>1, HandlerInvariant, PTL

\* A row is never left behind by calls that were all told InvalidParams or
\* InvalidRequest.
THEOREM InvalidStoresNothing == HandlerSpec => []InvalidLeavesNothing
<1>1. HandlerInv => InvalidLeavesNothing
    <2> SUFFICES ASSUME HandlerInv, NEW h \in Hash, commitment_exists(h)
                 PROVE  \E c \in Calls :
                          /\ request[c] # NoRequest
                          /\ HashOf(c) = h
                          /\ answer[c] \in {"none", "signed", "InternalError", "lost"}
        BY DEF InvalidLeavesNothing
    <2>1. PICK c \in Calls : /\ request[c] \in Request
                             /\ HashOf(c) = h
                             /\ Owns(c) \/ answer[c] \in {"InternalError", "lost"}
        BY DEF HandlerInv, OriginInv
    <2>2. request[c] # NoRequest
        BY <2>1, HandlerAssumption
    <2>3. Owns(c) => answer[c] \in {"none", "signed"}
        BY DEF HandlerInv, CallValid, Owns
    <2> QED BY <2>1, <2>2, <2>3
<1> QED BY <1>1, HandlerInvariant, PTL
=============================================================================
