-------------------------- MODULE CommitmentHandler --------------------------
(***************************************************************************)
(* The commitment_request method (rpc/handlers.rs).  The server runs every *)
(* call as a task of its own: calls c \in Calls interleave at their awaits *)
(* (database, beacon node, fee engine) and share nothing but the tables.   *)
(* A client that gets no answer, or an error, may call again with the same *)
(* request, which is another call.                                         *)
(***************************************************************************)
EXTENDS CommitmentStore, DelegationStore

CONSTANTS
    Calls,          \* calls of commitment_request
    Requests,       \* the requests clients send
    Bodies,         \* payloads, up to the slot in them (bytes, not meaning)
    NoSlot,         \* a payload that does not parse
    Whitelist,      \* accounts of config.validation.slasher_whitelist
    OurCommitter,   \* config.signing.committer_address
    Scheduled,      \* external: proposer of each slot, by the beacon chain
    NoProposer,     \* no proposer known for a slot
    NoRequest,
    NoDelegation,
    SeenDelegations,   \* delegations the poller may store in the model
    MaxCrashes      \* bound: crashes of the gateway process

Request == [ctype : CommitmentTypes, slot : Slots \cup {NoSlot}, body : Bodies,
            slasher : Address]

ASSUME HandlerAssumption ==
    /\ Requests \subseteq Request
    /\ \A q \in Request : q.slot \in Slots =>
          <<q.ctype, q.slot, q.body, normalize_address(q.slasher)>> \in Hash
    /\ NoSlot \notin Slots
    /\ NoRequest \notin Request
    /\ NoDelegation \notin Delegation
    /\ OurCommitter \in Address
    /\ Scheduled \in [Slots -> Proposers \cup {NoProposer}]
    /\ NoProposer \notin Proposers
    /\ SeenDelegations \subseteq Delegation
    /\ \A d \in SeenDelegations : chk_address_format(d.committer)
    /\ MaxCrashes \in Nat

VARIABLES
    hpc,        \* the await each call is at
    request,    \* its parameter
    authority,  \* the delegation it was granted on
    answer,     \* what the client was told
    gas,        \* how often the gas of each commitment was added to its slot
    crashes     \* crashes so far

callVars == <<hpc, request, authority, answer>>
handlerStoreVars == <<commitments, delegations, deactivated>>
handlerVars == <<callVars, gas, crashes, handlerStoreVars>>

CallStates == {"ready", "exists", "delegations", "beacon", "save", "fee", "gas", "reply",
               "done"}

Errors == {"InvalidParams", "InvalidRequest", "InternalError"}

\* "lost": the process died before it answered.
Answers == Errors \cup {"none", "signed", "lost"}

CallsTypeOK ==
    /\ hpc \in [Calls -> CallStates]
    /\ request \in [Calls -> Request \cup {NoRequest}]
    /\ authority \in [Calls -> Delegation \cup {NoDelegation}]
    /\ \A c \in Calls : hpc[c] \in {"beacon", "save"} => authority[c] # NoDelegation
    /\ answer \in [Calls -> Answers]
    /\ gas \in [Hash -> Nat]
    /\ crashes \in Nat

CallsInit ==
    /\ hpc = [c \in Calls |-> "ready"]
    /\ request = [c \in Calls |-> NoRequest]
    /\ authority = [c \in Calls |-> NoDelegation]
    /\ answer = [c \in Calls |-> "none"]
    /\ gas = [h \in Hash |-> 0]
    /\ crashes = 0
-----------------------------------------------------------------------------
\* Keccak over the ABI encoding of type, payload and address bytes: it tells two
\* requests apart unless they differ only in how the address is written.
generate_request_hash(q) == <<q.ctype, q.slot, q.body, normalize_address(q.slasher)>>

HashOf(c) == generate_request_hash(request[c])

validate_slasher_address(q) == normalize_address(q.slasher) \in Whitelist

validate_and_extract_slot(q) == q.slot # NoSlot

Goto(c, label) == hpc' = [hpc EXCEPT ![c] = label]

Answer(c, what) ==
    /\ hpc' = [hpc EXCEPT ![c] = "done"]
    /\ answer' = [answer EXCEPT ![c] = what]

\* The checks before the first await, with the early returns in the order of the
\* code: type, slasher whitelist, payload, request hash.
Rejection(q) ==
    IF q.ctype # 1 THEN "InvalidParams"
    ELSE IF ~validate_slasher_address(q) THEN "InvalidRequest"
    ELSE IF ~validate_and_extract_slot(q) THEN "InvalidParams"
    ELSE IF ~parse_ethereum_address_ok(q.slasher) THEN "InternalError"
    ELSE "none"

Receive(c) ==
    /\ hpc[c] = "ready"
    /\ \E q \in Requests :
         /\ request' = [request EXCEPT ![c] = q]
         /\ IF Rejection(q) = "none"
            THEN Goto(c, "exists") /\ UNCHANGED answer
            ELSE Answer(c, Rejection(q))
    /\ UNCHANGED <<authority, gas, crashes, handlerStoreVars>>

\* Early duplicate detection.
CheckDuplicate(c) ==
    /\ hpc[c] = "exists"
    /\ IF commitment_exists(HashOf(c))
       THEN Answer(c, "InvalidRequest")
       ELSE Goto(c, "delegations") /\ UNCHANGED answer
    /\ UNCHANGED <<request, authority, gas, crashes, handlerStoreVars>>

CheckDuplicateFails(c) ==
    /\ hpc[c] = "exists"
    /\ Answer(c, "InternalError")
    /\ UNCHANGED <<request, authority, gas, crashes, handlerStoreVars>>

\* verify_delegation_authority up to the beacon call: the first active
\* delegation of the slot whose committer is the request's slasher, both
\* normalized, and its BLS signature.
FindDelegation(c) ==
    /\ hpc[c] = "delegations"
    /\ \E d \in get_delegations_for_slot(request[c].slot) :
         /\ normalize_address(d.committer) = normalize_address(request[c].slasher)
         /\ IF d.verified
            THEN /\ authority' = [authority EXCEPT ![c] = d]
                 /\ Goto(c, "beacon")
                 /\ UNCHANGED answer
            ELSE Answer(c, "InvalidRequest") /\ UNCHANGED authority
    /\ UNCHANGED <<request, gas, crashes, handlerStoreVars>>

\* Mutant: the error is logged and the call goes on.
FindDelegationIgnored(c) ==
    /\ hpc[c] = "delegations"
    /\ Goto(c, "beacon")
    /\ UNCHANGED <<request, authority, answer, gas, crashes, handlerStoreVars>>

\* No delegation matches, or the query fails.
FindDelegationFails(c) ==
    /\ hpc[c] = "delegations"
    /\ Answer(c, "InvalidRequest")
    /\ UNCHANGED <<request, authority, gas, crashes, handlerStoreVars>>

find_signing_key_for_committer(a) ==
    normalize_address(a) = normalize_address(OurCommitter)

\* Mutant: the delegation is trusted whoever is scheduled.
CheckProposerTrusting(c) ==
    /\ hpc[c] = "beacon"
    /\ IF find_signing_key_for_committer(authority[c].committer)
       THEN Goto(c, "save") /\ UNCHANGED answer
       ELSE Answer(c, "InvalidRequest")
    /\ UNCHANGED <<request, authority, gas, crashes, handlerStoreVars>>

\* The beacon node names the proposer of the slot; it must be the delegation's,
\* and the committer must be ours.  The commitment is signed here.
CheckProposer(c) ==
    /\ hpc[c] = "beacon"
    /\ IF /\ Scheduled[request[c].slot] = authority[c].proposer
          /\ find_signing_key_for_committer(authority[c].committer)
       THEN Goto(c, "save") /\ UNCHANGED answer
       ELSE Answer(c, "InvalidRequest")
    /\ UNCHANGED <<request, authority, gas, crashes, handlerStoreVars>>

\* Mutant: the authority is looked up again, as often as the node fails.
CheckProposerAgain(c) ==
    /\ hpc[c] = "beacon"
    /\ Goto(c, "delegations")
    /\ UNCHANGED <<request, authority, answer, gas, crashes, handlerStoreVars>>

\* The beacon node fails, or does not know the slot.
CheckProposerFails(c) ==
    /\ hpc[c] = "beacon"
    /\ Answer(c, "InvalidRequest")
    /\ UNCHANGED <<request, authority, gas, crashes, handlerStoreVars>>

RowOf(q) == NewRow(q.ctype, q.slot, q.slasher)

\* Mutant: whether RETURNING yields an id is not looked at.
SaveCommitmentAnyway(c) ==
    /\ hpc[c] = "save"
    /\ chk_address_format(request[c].slasher)
    /\ save_commitment(HashOf(c), RowOf(request[c]))
    /\ Goto(c, "fee")
    /\ UNCHANGED <<request, authority, answer, gas, crashes, delegations, deactivated>>

\* The INSERT.  RETURNING yields nothing if another call has stored the hash
\* since the duplicate check.
SaveCommitment(c) ==
    /\ hpc[c] = "save"
    /\ chk_address_format(request[c].slasher)
    /\ save_commitment(HashOf(c), RowOf(request[c]))
    /\ IF commitment_exists(HashOf(c))
       THEN Answer(c, "InvalidRequest")
       ELSE Goto(c, "fee") /\ UNCHANGED answer
    /\ UNCHANGED <<request, authority, gas, crashes, delegations, deactivated>>

\* Mutant: the error of the INSERT is logged and the call goes on.
SaveFailsIgnored(c) ==
    /\ hpc[c] = "save"
    /\ Goto(c, "fee")
    /\ UNCHANGED <<request, authority, answer, gas, crashes, handlerStoreVars>>

\* The INSERT reports an error: the CHECK on the slasher, or a connection that
\* breaks before or after the row was committed.
SaveFails(c) ==
    /\ hpc[c] = "save"
    /\ \/ UNCHANGED commitments
       \/ /\ chk_address_format(request[c].slasher)
          /\ save_commitment(HashOf(c), RowOf(request[c]))
    /\ Answer(c, "InternalError")
    /\ UNCHANGED <<request, authority, gas, crashes, delegations, deactivated>>

\* External to this module: the fee engine prices the commitment.
CalculateFee(c) ==
    /\ hpc[c] = "fee"
    /\ Goto(c, "gas")
    /\ UNCHANGED <<request, authority, answer, gas, crashes, handlerStoreVars>>

\* Mutant: the caller is told that the request was invalid.
CalculateFeeFailsInvalid(c) ==
    /\ hpc[c] = "fee"
    /\ Answer(c, "InvalidRequest")
    /\ UNCHANGED <<request, authority, gas, crashes, handlerStoreVars>>

\* The fee engine fails: an error is answered although the row is stored.
CalculateFeeFails(c) ==
    /\ hpc[c] = "fee"
    /\ Answer(c, "InternalError")
    /\ UNCHANGED <<request, authority, gas, crashes, handlerStoreVars>>

\* Mutant: a failure to apply the gas is retried by pricing again, although a
\* transaction reported as failed may have committed.
ApplyGasRetrying(c) ==
    /\ hpc[c] = "gas"
    /\ \/ gas' = [gas EXCEPT ![HashOf(c)] = @ + 1] /\ Goto(c, "reply")
       \/ gas' \in {gas, [gas EXCEPT ![HashOf(c)] = @ + 1]} /\ Goto(c, "fee")
    /\ UNCHANGED <<request, authority, answer, crashes, handlerStoreVars>>

\* The transaction that adds the gas to the slot's congestion commits, or fails,
\* which is logged only.  The client has no answer yet.
ApplyGas(c) ==
    /\ hpc[c] = "gas"
    /\ \/ gas' = [gas EXCEPT ![HashOf(c)] = @ + 1]
       \/ UNCHANGED gas
    /\ Goto(c, "reply")
    /\ UNCHANGED <<request, authority, answer, crashes, handlerStoreVars>>

\* The signed commitment is the answer.
Reply(c) ==
    /\ hpc[c] = "reply"
    /\ Answer(c, "signed")
    /\ UNCHANGED <<request, authority, gas, crashes, handlerStoreVars>>

\* The process dies: the calls under way get no answer.
Crash ==
    /\ crashes < MaxCrashes
    /\ crashes' = crashes + 1
    /\ hpc' = [c \in Calls |-> IF hpc[c] = "ready" THEN "ready" ELSE "done"]
    /\ answer' = [c \in Calls |->
                    IF hpc[c] \in {"ready", "done"} THEN answer[c] ELSE "lost"]
    /\ UNCHANGED <<request, authority, gas, handlerStoreVars>>
-----------------------------------------------------------------------------
\* commitment_result: the stored commitment, or InvalidRequest.
commitment_result(h) == IF commitment_exists(h) THEN commitments[h] ELSE NoRow

(* What the polling service does to the delegations table.                 *)
DelegationArrives ==
    /\ \E ds \in SUBSET SeenDelegations : save_delegations_batch(ds)
    /\ UNCHANGED <<callVars, gas, crashes, commitments>>

DelegationGoes ==
    /\ \E ds \in SUBSET (delegations \ deactivated) : deactivate(ds)
    /\ UNCHANGED <<callVars, gas, crashes, commitments>>

CallStep(c) ==
    \/ CheckDuplicate(c) \/ CheckDuplicateFails(c)
    \/ FindDelegation(c) \/ FindDelegationFails(c)
    \/ CheckProposer(c) \/ CheckProposerFails(c)
    \/ SaveCommitment(c) \/ SaveFails(c)
    \/ CalculateFee(c) \/ CalculateFeeFails(c)
    \/ ApplyGas(c) \/ Reply(c)

HandlerInit ==
    /\ commitments = [h \in Hash |-> NoRow]
    /\ delegations = {}
    /\ deactivated = {}
    /\ CallsInit

HandlerNext ==
    \/ \E c \in Calls : Receive(c) \/ CallStep(c)
    \/ Crash \/ DelegationArrives \/ DelegationGoes

HandlerSpec == HandlerInit /\ [][HandlerNext]_handlerVars

-----------------------------------------------------------------------------
(* Properties.                                                             *)

\* Tables, gas counters and the locals of every call have their types, and a call
\* at the beacon check or the INSERT holds the delegation it was granted on.
HandlerTypeOK == CommitmentsTypeOK /\ DelegationsTypeOK /\ CallsTypeOK

\* The authority that allows us to commit for a slot with this slasher.
Grants(d, h) ==
    /\ d.slot = commitments[h].slot
    /\ d.verified
    /\ normalize_address(d.committer) = normalize_address(commitments[h].slasher)
    /\ d.proposer = Scheduled[commitments[h].slot]
    /\ find_signing_key_for_committer(d.committer)

\* No commitment is stored without a delegation that the scheduled proposer
\* signed, to a whitelisted slasher that is our committer, whatever happened
\* between the checks and the INSERT.
StoredIsAuthorised ==
    \A h \in Hash : commitment_exists(h) =>
        /\ commitments[h].ctype = 1
        /\ normalize_address(commitments[h].slasher) \in Whitelist
        /\ chk_address_format(commitments[h].slasher)
        /\ \E d \in delegations : Grants(d, h)

\* A client that was given a signed commitment finds that very commitment, its
\* slasher written the same way, with commitment_result, after crashes too.
SignedIsRetrievable ==
    \A c \in Calls : answer[c] = "signed" =>
        /\ commitment_result(HashOf(c)) # NoRow
        /\ commitment_result(HashOf(c)).slasher = request[c].slasher
        /\ commitment_result(HashOf(c)).slot = request[c].slot

\* Of the calls with one request hash at most one is given a signed commitment,
\* although the duplicate check and the INSERT are separate statements.
OneSignedPerHash ==
    \A c, e \in Calls :
        answer[c] = "signed" /\ answer[e] = "signed" /\ HashOf(c) = HashOf(e)
            => c = e

\* A commitment's gas is added to its slot at most once, however many calls race
\* for it and wherever they fail or die, and only if it is stored.
GasCountedOnce ==
    \A h \in Hash : gas[h] <= 1 /\ (gas[h] = 1 => commitment_exists(h))

\* If every call for a hash was turned down as invalid, nothing was stored: a
\* commitment is left behind only by a call that was answered with it, failed
\* inside the gateway, or was lost.
InvalidLeavesNothing ==
    \A h \in Hash : commitment_exists(h) =>
        \E c \in Calls :
            /\ request[c] # NoRequest
            /\ HashOf(c) = h
            /\ answer[c] \in {"none", "signed", "InternalError", "lost"}

(* The strengthening that makes the invariants above inductive.            *)

\* A call under way has passed the checks of Receive and is not answered yet; an
\* answer is final.
CallValid(c) ==
    /\ hpc[c] \notin {"ready", "done"} =>
          request[c] \in Request /\ Rejection(request[c]) = "none"
    /\ hpc[c] # "done" => answer[c] = "none"
    /\ hpc[c] = "done" => answer[c] # "none" /\ request[c] \in Request

\* The checks a call has passed stay passed: rows of delegations are kept.
CallAuthorised(c) ==
    hpc[c] \in {"beacon", "save"} =>
        /\ authority[c] \in delegations
        /\ authority[c].verified
        /\ authority[c].slot = request[c].slot
        /\ normalize_address(authority[c].committer)
             = normalize_address(request[c].slasher)
        /\ hpc[c] = "save" =>
              /\ Scheduled[request[c].slot] = authority[c].proposer
              /\ find_signing_key_for_committer(authority[c].committer)

\* The call whose INSERT created the row and that may answer with it.
Owns(c) == hpc[c] \in {"fee", "gas", "reply"} \/ answer[c] = "signed"

OwnersInv ==
    /\ \A c \in Calls : Owns(c) =>
          /\ HashOf(c) \in Hash
          /\ commitment_exists(HashOf(c))
          /\ commitments[HashOf(c)].slasher = request[c].slasher
          /\ commitments[HashOf(c)].slot = request[c].slot
    /\ \A c, e \in Calls : Owns(c) /\ Owns(e) /\ HashOf(c) = HashOf(e) => c = e

\* Every row was left by a call that owns it or has failed or died since.
OriginInv ==
    \A h \in Hash : commitment_exists(h) =>
        \E c \in Calls :
            /\ request[c] \in Request
            /\ HashOf(c) = h
            /\ Owns(c) \/ answer[c] \in {"InternalError", "lost"}

\* Gas is counted by the owner of a row, which has not counted it before.
GasInv ==
    /\ \A h \in Hash : gas[h] \in {0, 1} /\ (gas[h] = 1 => commitment_exists(h))
    /\ \A c \in Calls : hpc[c] \in {"fee", "gas"} => gas[HashOf(c)] = 0

HandlerInv ==
    /\ HandlerTypeOK
    /\ \A c \in Calls : CallValid(c) /\ CallAuthorised(c)
    /\ OwnersInv
    /\ OriginInv
    /\ GasInv
    /\ StoredIsAuthorised

\* Every call is answered or lost in a crash.
CallsEnd == \A c \in Calls : hpc[c] # "ready" ~> hpc[c] = "done"
=============================================================================
