------------------------------ MODULE Encodings ------------------------------
(***************************************************************************)
(* The gateway as its data sees it: a proposer signs a delegation, a relay *)
(* hands it on, the gateway stores it, commits under it, answers and posts *)
(* constraints, and every value on the way is encoded, hashed, signed,     *)
(* stored, written as JSON and read back.  A relay and a client may write  *)
(* the same value in other ways and may put a signature they have seen     *)
(* under another message.  Calls run one at a time here: their             *)
(* interleavings are CommitmentHandler's, DelegationPolling's and          *)
(* ConstraintSubmission's.                                                 *)
(***************************************************************************)
EXTENDS Signing, Integers, FiniteSets

CONSTANTS
    OurKey,           \* config.signing.bls_public_key, and its secret key
    OurCommitter,     \* config.signing.committer_address
    EcdsaKey,         \* config.signing.ecdsa_private_key, and its public key
    Domain,           \* config.delegation.domain_application_gateway
    slasher_whitelist,    \* config.validation.slasher_whitelist
    authorized_builders,  \* config.constraints_api.authorized_builders
    Scheduled,        \* external: the proposer of each slot that has one
    Messages,         \* delegation messages proposers sign
    Offers,           \* delegations relays send, but for the signature
    RequestInputs,    \* requests clients send
    MaxSigned,        \* bound: delegations signed
    MaxCommitments    \* bound: commitments made

Byte == 0..(BASE - 1)

\* A text that is, or is not, hex.
HexText == [prefix : {"", "0x", "0X"}, upper : BOOLEAN, odd : BOOLEAN, bytes : Seq(Byte)]

PayloadHex == [prefix : {"", "0x", "0X"}, upper : BOOLEAN, odd : BOOLEAN,
               bytes : [form : PayloadForms, slot : Nat, tx : Seq(Byte)]]

\* Keys are BlsPublicKey, of KEY_LEN bytes; slots are u64; a proposer signs for a
\* committer that is an address; payloads are bytes.
ASSUME EncodingsAssumption ==
    /\ {KEY_LEN, ADDRESS_LEN} \subseteq Nat
    /\ \A m \in Messages :
          /\ m \in [proposer : Seq(Byte), delegate : Seq(Byte), committer : HexText,
                     slot : 0..MAX_U64]
          /\ Len(m.proposer) = KEY_LEN /\ Len(m.delegate) = KEY_LEN
          /\ parse_ethereum_address(m.committer).ok
    /\ \A o \in Offers :
          o \in [proposer : HexText, delegate : HexText, committer : HexText,
                 slot : 0..MAX_U64, signature : HexText]
    /\ \A w \in RequestInputs :
          /\ w \in [ctype : Nat, payload : PayloadHex, slasher : HexText]
          /\ Text(w.payload.bytes) \in Seq(Byte)
    /\ authorized_builders \in Seq(HexText)

VARIABLES
    signed,        \* the delegation messages their proposers have signed
    signatures,    \* BLS signatures in circulation
    delegations,   \* the delegations table
    commitments,   \* the commitments table, in the order of created_at
    posted,        \* SignedConstraints the relay has, as they were sent
    answers        \* what clients were told, and what they asked for

vars == <<signed, signatures, delegations, commitments, posted, answers>>

Init ==
    /\ signed = {} /\ signatures = {} /\ delegations = {}
    /\ commitments = <<>> /\ posted = {} /\ answers = {}

\* External: a proposer delegates.
ProposerSigns ==
    /\ Cardinality(signed) < MaxSigned
    /\ \E m \in Messages \ signed :
         /\ signed' = signed \cup {m}
         /\ signatures' = signatures \cup {sign_delegation(m)}
    /\ UNCHANGED <<delegations, commitments, posted, answers>>
-----------------------------------------------------------------------------
(* The delegations table.                                                  *)

chk_address_format(h) == h.prefix = "0x" /\ ~h.odd /\ Len(h.bytes) = ADDRESS_LEN

RowOfDelegation(d) ==
    [proposer_pubkey |-> d.message.proposer, delegate_pubkey |-> d.message.delegate,
     committer_address |-> d.message.committer, slot_number |-> as_i64(d.message.slot),
     signature |-> d.signature, is_active |-> TRUE]

\* The reverse, which all the queries share.
DelegationOfRow(r) ==
    [message |-> [proposer |-> r.proposer_pubkey, delegate |-> r.delegate_pubkey,
                  committer |-> r.committer_address, slot |-> as_u64(r.slot_number)],
     signature |-> r.signature]

\* INSERT under the table's constraints: address format, slot_number >= 0 and
\* UNIQUE (proposer_pubkey, slot_number).
InsertDelegation(d) ==
    LET row == RowOfDelegation(d) IN
    /\ chk_address_format(row.committer_address)
    /\ row.slot_number >= 0
    /\ \A r \in delegations : \/ r.proposer_pubkey # row.proposer_pubkey
                              \/ r.slot_number # row.slot_number
    /\ delegations' = delegations \cup {row}

save_delegation(d) == verify_delegation_signature(d) /\ InsertDelegation(d)

Active == {r \in delegations : r.is_active}

\* Mutant: WHERE slot_number = $1 only.
get_delegations_for_slot_inactive_too(slot) ==
    {DelegationOfRow(r) : r \in {x \in delegations : x.slot_number = as_i64(slot)}}

get_delegations_for_slot(slot) ==
    {DelegationOfRow(r) : r \in {x \in Active : x.slot_number = as_i64(slot)}}

get_delegation_by_proposer_slot(key, slot) ==
    {DelegationOfRow(r) : r \in {x \in Active : /\ x.proposer_pubkey = key
                                                /\ x.slot_number = as_i64(slot)}}

get_delegations_by_delegate(key) ==
    {DelegationOfRow(r) : r \in {x \in Active : x.delegate_pubkey = key}}

delegation_exists_for_slot_and_committer(slot, address) ==
    \E r \in Active : /\ r.slot_number = as_i64(slot)
                      /\ LOWER(r.committer_address) = LOWER(address)

\* UPDATE ... SET is_active = false WHERE slot_number < $1 AND is_active = true.
deactivate_expired_delegations(current_slot) ==
    delegations' = {IF r.slot_number < as_i64(current_slot)
                    THEN [r EXCEPT !.is_active = FALSE] ELSE r : r \in delegations}

\* A relay answers with a delegation under some signature in circulation; what
\* does not parse is an error of the call.
Offered ==
    {deserialize_delegation([o EXCEPT !.signature = [@ EXCEPT !.bytes = <<s>>]]) :
        o \in Offers, s \in signatures}

\* poll_delegations_for_slot for a delegation to our key.
PollDelegation ==
    /\ \E d \in {x.value : x \in {y \in Offered : y.ok}} :
         /\ d.message.delegate = OurKey
         /\ save_delegation(d)
    /\ UNCHANGED <<signed, signatures, commitments, posted, answers>>

\* DatabaseContext::save_delegation, whoever is the delegate.
SaveDelegation ==
    /\ \E d \in {x.value : x \in {y \in Offered : y.ok}} : save_delegation(d)
    /\ UNCHANGED <<signed, signatures, commitments, posted, answers>>

ExpireDelegations ==
    /\ \E r \in Active : deactivate_expired_delegations(as_u64(r.slot_number) + 1)
    /\ UNCHANGED <<signed, signatures, commitments, posted, answers>>
-----------------------------------------------------------------------------
(* commitmentRequest and commitmentResult.                                 *)

NULL == Err

\* Mutant: the payload is stored in its canonical form.
save_commitment_canonical(s) ==
    LET c == s.commitment IN
    commitments' = Append(commitments,
        [request_hash |-> c.request_hash, ctype |-> c.ctype,
         payload |-> encode_inclusion_payload(parse_inclusion_payload(c.payload).value),
         slasher |-> c.slasher, signature |-> s.signature,
         slot_number |-> extract_slot(c.ctype, c.payload), processed |-> FALSE])

\* Mutant: the slot is read from JSON only.
save_commitment_json_slot(s) ==
    LET c == s.commitment IN
    commitments' = Append(commitments,
        [request_hash |-> c.request_hash, ctype |-> c.ctype, payload |-> c.payload,
         slasher |-> c.slasher, signature |-> s.signature,
         slot_number |-> SlotOf(json_inclusion(c.payload)), processed |-> FALSE])

\* The slot is read from the payload once more; what cannot be read, or is no
\* i64, is stored as NULL.
save_commitment(s) ==
    LET c    == s.commitment
        slot == extract_slot(c.ctype, c.payload)
        slot_number == IF slot.ok THEN IF slot.value <= MAX_I64 THEN slot ELSE NULL ELSE NULL
    IN commitments' = Append(commitments,
           [request_hash |-> c.request_hash, ctype |-> c.ctype, payload |-> c.payload,
            slasher |-> c.slasher, signature |-> s.signature, slot_number |-> slot_number,
            processed |-> FALSE])

CommitmentOfRow(r) ==
    [commitment |-> [ctype |-> r.ctype, payload |-> r.payload,
                     request_hash |-> r.request_hash, slasher |-> r.slasher],
     signature |-> r.signature]

get_commitment_by_hash(h) ==
    {CommitmentOfRow(commitments[i]) : i \in {j \in DOMAIN commitments :
                                                 commitments[j].request_hash = h}}

validate_slasher_address(h) ==
    \E w \in slasher_whitelist : normalize_address(w) = normalize_address(h)

find_signing_key_for_committer(h) == normalize_address(h) = normalize_address(OurCommitter)

\* The delegation the handler goes by, all its checks passed.
verify_delegation_authority(slot, slasher) ==
    {d \in get_delegations_for_slot(slot) :
        /\ normalize_address(d.message.committer) = normalize_address(slasher)
        /\ d.message.slot = slot
        /\ verify_delegation_signature(d)
        /\ slot \in DOMAIN Scheduled
        /\ Scheduled[slot] = d.message.proposer}

\* The recovery id comes with the signature; it is a function of the message.
RecoveryId(c) == Len(Text(c.payload)) % 2

\* The whole of commitment_request_handler for a request it signs; any other is
\* refused and changes nothing.
commitment_request(w) ==
    LET parsed == deserialize_request(w) IN
    /\ Len(commitments) < MaxCommitments
    /\ parsed.ok
    /\ LET q    == parsed.value
           slot == validate_and_extract_slot(q.ctype, q.payload)
           hash == generate_request_hash(q)
       IN /\ q.ctype = 1
          /\ validate_slasher_address(q.slasher)
          /\ slot.ok
          /\ hash.ok
          /\ get_commitment_by_hash(hash.value) = {}
          /\ \E d \in verify_delegation_authority(slot.value, q.slasher) :
               find_signing_key_for_committer(d.message.committer)
          /\ chk_address_format(q.slasher)
          /\ LET c == [ctype |-> q.ctype, payload |-> q.payload,
                       request_hash |-> hash.value, slasher |-> q.slasher]
                 s == [commitment |-> c,
                       signature |-> sign_commitment(c, EcdsaKey, RecoveryId(c)).value]
             IN /\ save_commitment(s)
                /\ answers' = answers \cup {[asked |-> hash.value, by |-> "request",
                                             got |-> serialize_commitment(s)]}
    /\ UNCHANGED <<signed, signatures, delegations, posted>>

CommitmentRequest == \E w \in RequestInputs : commitment_request(w)

\* A client asks for a commitment that is there.
CommitmentResult ==
    /\ \E i \in DOMAIN commitments : \E s \in get_commitment_by_hash(commitments[i].request_hash) :
         answers' = answers \cup {[asked |-> commitments[i].request_hash, by |-> "result",
                                   got |-> serialize_commitment(s)]}
    /\ UNCHANGED <<signed, signatures, delegations, commitments, posted>>
-----------------------------------------------------------------------------
(* A run of the submission job for one delegation.                         *)

\* Mutant: the constraint holds the transaction alone.
from_inclusion_commitment_tx(p) ==
    [constraint_type |-> 1,
     payload |-> parse_inclusion_payload(p).value.signed_tx]

from_inclusion_commitment(p) == [constraint_type |-> 1, payload |-> Text(p)]

ConstraintsMessage(proposer, delegate, slot, constraints, receivers) ==
    [proposer |-> proposer, delegate |-> delegate, slot |-> slot,
     constraints |-> constraints, receivers |-> receivers]

\* Rows the delegation d turns into constraints: the query's, with the slasher
\* equal to the committer as a string.
Due(r, d) ==
    /\ r.slot_number = Ok(d.message.slot)
    /\ ~r.processed
    /\ r.slasher = d.message.committer
    /\ r.ctype = 1

DueRows(d) ==
    FlattenSeq([i \in DOMAIN commitments |->
                   IF Due(commitments[i], d) THEN <<commitments[i]>> ELSE <<>>])

ProcessDelegation ==
    /\ parse_authorized_builders(authorized_builders).ok
    /\ \E r \in Active :
         LET d    == DelegationOfRow(r)
             due  == DueRows(d)
             m    == ConstraintsMessage(d.message.proposer, d.message.delegate, d.message.slot,
                         [i \in DOMAIN due |-> from_inclusion_commitment(due[i].payload)],
                         parse_authorized_builders(authorized_builders).value)
             signature == sign_constraints_message(m, OurKey, Domain)
         IN /\ d.message.delegate = OurKey
            /\ due # <<>>
            /\ posted' = posted \cup {serialize_constraints([message |-> m, signature |-> signature])}
            /\ signatures' = signatures \cup {signature}
            /\ commitments' = [i \in DOMAIN commitments |->
                                 IF Due(commitments[i], d)
                                 THEN [commitments[i] EXCEPT !.processed = TRUE]
                                 ELSE commitments[i]]
    /\ UNCHANGED <<signed, delegations, answers>>

Next ==
    \/ ProposerSigns \/ PollDelegation \/ SaveDelegation \/ ExpireDelegations
    \/ CommitmentRequest \/ CommitmentResult \/ ProcessDelegation

Spec == Init /\ [][Next]_vars
-----------------------------------------------------------------------------
(* Properties.                                                             *)

SameGrant(m, n) ==
    /\ m.proposer = n.proposer /\ m.delegate = n.delegate /\ m.slot = n.slot
    /\ m.committer.bytes = n.committer.bytes

\* What is in the table is what its proposer signed, up to the spelling of the
\* committer, whatever a relay puts together from the signatures it has seen:
\* not for another slot, delegate or account, and not out of the gateway's own
\* signatures over constraints, even where the gateway's key is a proposer's and
\* the configured domain is the delegations' (bls.rs:130, 142, 181).
DelegationsAuthentic ==
    \A r \in delegations : \E m \in signed : SameGrant(m, DelegationOfRow(r).message)

Parsed == {x.value : x \in {y \in {deserialize_request(w) : w \in RequestInputs} : y.ok}}

Hashed == {[request |-> q, hash |-> generate_request_hash(q)] : q \in Parsed}

\* A request is taken for a duplicate only of itself: a stored commitment whose
\* hash is the request's has its type, its payload byte by byte and its slasher's
\* account (crypto/mod.rs:43; the ABI encoding is all that keeps them apart).
RequestHashBinds ==
    \A i \in DOMAIN commitments : \A x \in Hashed :
        x.hash = Ok(commitments[i].request_hash) =>
            /\ x.request.ctype = commitments[i].ctype
            /\ Text(x.request.payload) = Text(commitments[i].payload)
            /\ x.request.slasher.bytes = commitments[i].slasher.bytes

\* The client can use every answer: it parses, the signature verifies under the
\* gateway's key, and it is a commitment to the request the client hashed, both
\* for the call that signed it and for one that reads it back from the table.
AnswersVerify ==
    \A a \in answers :
        LET got == deserialize_commitment(a.got) IN
        /\ got.ok
        /\ verify_commitment_signature(got.value.commitment, got.value.signature, EcdsaKey) = Ok(TRUE)
        /\ got.value.commitment.request_hash = a.asked
        /\ generate_request_hash([ctype   |-> got.value.commitment.ctype,
                                  payload |-> got.value.commitment.payload,
                                  slasher |-> got.value.commitment.slasher]) = Ok(a.asked)

\* All readers of a payload agree on it.  The slot column of a stored commitment,
\* by which the submission job finds it, is never NULL and is the slot a proposer
\* delegated (operations.rs:35, handlers.rs:180); the gas is estimated from the
\* transaction, not by the fallback (fee_pricing.rs:185).
ReadersAgree ==
    \A i \in DOMAIN commitments :
        LET r == commitments[i] IN
        /\ r.slot_number.ok
        /\ \E m \in signed : m.slot = r.slot_number.value
        /\ estimate_gas_for_commitment(r.ctype, r.payload)
             = Ok(31000 + 16 * Len(r.payload.tx))

\* The message that the texts and numbers of one on the wire stand for.
Written(n) ==
    ConstraintsMessage(n.proposer.bytes, n.delegate.bytes, n.slot, n.constraints,
                       [i \in DOMAIN n.receivers |-> n.receivers[i].bytes])

\* A post rests on a grant and on commitments, byte for byte.  It names proposer,
\* delegate and slot of a delegation its proposer signed, and the configured
\* builders; each of its constraints is the type and the payload of a commitment
\* under that grant's account, whose slot is the message's in the column the job
\* looks it up by and in the bytes a builder parses; and the signature beside it
\* is over these very bytes (constraint_submission.rs:478, delegation.rs:191).
PostsAreGranted ==
    \A w \in posted :
        LET m == Written(w.message) IN
        /\ w.signature.bytes = <<sign_constraints_message(m, OurKey, Domain)>>
        /\ m.receivers = [i \in DOMAIN authorized_builders |-> authorized_builders[i].bytes]
        /\ \E g \in signed :
             /\ g.proposer = m.proposer /\ g.delegate = m.delegate /\ g.slot = m.slot
             /\ \A i \in DOMAIN m.constraints : \E j \in DOMAIN commitments :
                  LET r == commitments[j] IN
                  /\ r.ctype = m.constraints[i].constraint_type
                  /\ Text(r.payload) = m.constraints[i].payload
                  /\ r.slasher.bytes = g.committer.bytes
                  /\ r.slot_number = Ok(m.slot)
                  /\ extract_slot_from_inclusion_payload(r.payload) = Ok(m.slot)

Committers == {o.committer : o \in Offers}

\* The lookups of the table agree with each other on every slot: by slot, by
\* proposer (at most one, which fetch_optional relies on), by delegate, and by
\* committer, where what SQL's LOWER matches normalize_address matches too.
LookupsAgree ==
    \A m \in Messages :
        LET here == get_delegations_for_slot(m.slot) IN
        /\ get_delegation_by_proposer_slot(m.proposer, m.slot)
             = {d \in here : d.message.proposer = m.proposer}
        /\ Cardinality(get_delegation_by_proposer_slot(m.proposer, m.slot)) <= 1
        /\ {d \in get_delegations_by_delegate(m.delegate) : d.message.slot = m.slot}
             = {d \in here : d.message.delegate = m.delegate}
        /\ \A a \in Committers :
             delegation_exists_for_slot_and_committer(m.slot, a) =>
                 \E d \in here : normalize_address(d.message.committer) = normalize_address(a)
=============================================================================
