------------------------------- MODULE Signing -------------------------------
(***************************************************************************)
(* What is hashed and signed, and how it is written on the wire            *)
(* (crypto/mod.rs, crypto/bls.rs, types/hex_serde.rs and the serde code of *)
(* types/delegation.rs).  The primitives are ideal: keccak256 is           *)
(* injective, a signature names its key and the digest it is over, and no  *)
(* one else can make it.  Everything around them is as in the code: the    *)
(* encodings, the domain separation, the parsing of hex.                   *)
(***************************************************************************)
EXTENDS Abi, Payload

CONSTANTS
    KEY_LEN,       \* bytes of a BLS public key: one word and a half
    ADDRESS_LEN,   \* bytes of an address: less than a word
    Points,        \* the KEY_LEN-byte strings that are public keys
    DELEGATION_DOMAIN_SEPARATOR

\* A digest and a signature are byte strings nothing looks into.
HASH_LEN == 1
SIGNATURE_LEN == 1

\* A string of hex digits as it is written: its prefix, the case of its digits,
\* a digit too many, and the bytes.  Equal strings are equal records.
Hex(prefix, upper, bytes) == [prefix |-> prefix, upper |-> upper, odd |-> FALSE, bytes |-> bytes]

\* format!("0x{}", hex::encode(bytes)).
hex_encode(bytes) == Hex("0x", FALSE, bytes)

\* strip_prefix("0x"), then hex::decode: "0X" stays and is no digit.
hex_decode(h) == IF h.prefix # "0X" /\ ~h.odd THEN Ok(h.bytes) ELSE Err

parse_hex_bytes(h, len) ==
    IF hex_decode(h).ok /\ Len(h.bytes) = len THEN hex_decode(h) ELSE Err

parse_ethereum_address(h) == parse_hex_bytes(h, ADDRESS_LEN)

\* normalize_address: either prefix is stripped, the case lowered.
normalize_address(h) == <<h.odd, h.bytes>>

\* LOWER(address) in a query.
LOWER(h) == [h EXCEPT !.upper = FALSE, !.prefix = IF @ = "" THEN "" ELSE "0x"]

keccak256(input) == <<[digest |-> input]>>
-----------------------------------------------------------------------------
(* Commitments: ECDSA over the hash of the ABI encoding.                   *)

\* Mutant: the bytes without their length, as a packed encoding has them.
abi_encode_commitment_request_packed(q) ==
    IF parse_ethereum_address(q.slasher).ok
    THEN Ok(<<Number(q.ctype)>> \o Chunks(Text(q.payload))
            \o <<AddressToken(q.slasher.bytes).word>>)
    ELSE Err

abi_encode_commitment_request(q) ==
    IF parse_ethereum_address(q.slasher).ok
    THEN Ok(encode(<<Uint(q.ctype), Bytes(Text(q.payload)), AddressToken(q.slasher.bytes)>>))
    ELSE Err

generate_request_hash(q) ==
    LET encoded == abi_encode_commitment_request(q) IN
    IF encoded.ok THEN Ok(hex_encode(keccak256(encoded.value))) ELSE Err

abi_encode_commitment(c) ==
    IF parse_hex_bytes(c.request_hash, HASH_LEN).ok /\ parse_ethereum_address(c.slasher).ok
    THEN Ok(encode(<<Uint(c.ctype), Bytes(Text(c.payload)), FixedBytes(c.request_hash.bytes),
                     AddressToken(c.slasher.bytes)>>))
    ELSE Err

\* r || s || v with v = 27 + recovery id; the id depends on the nonce.
sign_commitment(c, key, recovery_id) ==
    LET encoded == abi_encode_commitment(c) IN
    IF encoded.ok
    THEN Ok(hex_encode(<<[by |-> key, over |-> keccak256(encoded.value), v |-> 27 + recovery_id]>>))
    ELSE Err

recovery_id_of(v) == IF v >= 27 THEN v - 27 ELSE v

\* Ok(TRUE), Ok(FALSE) or an error.
verify_commitment_signature(c, signature, key) ==
    LET encoded == abi_encode_commitment(c)
        bytes   == parse_hex_bytes(signature, SIGNATURE_LEN)
    IN IF encoded.ok /\ bytes.ok
       THEN IF recovery_id_of(bytes.value[1].v) \in 0..3
            THEN Ok(/\ bytes.value[1].by = key
                    /\ bytes.value[1].over = keccak256(encoded.value))
            ELSE Err
       ELSE Err
-----------------------------------------------------------------------------
(* Delegations and constraints: BLS over a domain-separated root.          *)

\* The domain is of fixed length, the message a whole number of words.
calculate_signing_root(message, domain) == keccak256(<<[domain |-> domain]>> \o message)

\* Mutant: the slot is left out of what the proposer signs.
abi_encode_delegation_message_no_slot(m) ==
    IF parse_ethereum_address(m.committer).ok
    THEN Ok(encode(<<Bytes(m.proposer), Bytes(m.delegate), AddressToken(m.committer.bytes)>>))
    ELSE Err

abi_encode_delegation_message(m) ==
    IF parse_ethereum_address(m.committer).ok
    THEN Ok(encode(<<Bytes(m.proposer), Bytes(m.delegate), AddressToken(m.committer.bytes),
                     Uint(m.slot)>>))
    ELSE Err

abi_encode_constraints_message(m) ==
    encode(<<Bytes(m.proposer), Bytes(m.delegate), Uint(m.slot),
             Array([i \in DOMAIN m.constraints |->
                       Tuple(<<Uint(m.constraints[i].constraint_type),
                               Bytes(m.constraints[i].payload)>>)]),
             Array([i \in DOMAIN m.receivers |-> Bytes(m.receivers[i])])>>)

\* External: a BLS signature of the holder of key over root.
bls_sign(key, root) == [by |-> key, over |-> root]

\* External: what a proposer's signer does for a delegation it grants.
sign_delegation(m) ==
    bls_sign(m.proposer, calculate_signing_root(abi_encode_delegation_message(m).value,
                                                DELEGATION_DOMAIN_SEPARATOR))

sign_constraints_message(m, key, domain) ==
    bls_sign(key, calculate_signing_root(abi_encode_constraints_message(m), domain))

\* True only if everything parses and the signature verifies.
verify_delegation_signature(d) ==
    /\ abi_encode_delegation_message(d.message).ok
    /\ d.message.proposer \in Points
    /\ d.signature.by = d.message.proposer
    /\ d.signature.over =
         calculate_signing_root(abi_encode_delegation_message(d.message).value,
                                DELEGATION_DOMAIN_SEPARATOR)
-----------------------------------------------------------------------------
(* JSON.  Keys and signatures travel as hex strings.                       *)

serialize_key(key) == hex_encode(key)
deserialize_key(h) == parse_hex_bytes(h, KEY_LEN)

serialize_signature(s) == hex_encode(<<s>>)
deserialize_signature(h) ==
    IF parse_hex_bytes(h, SIGNATURE_LEN).ok THEN Ok(h.bytes[1]) ELSE Err

\* SignedDelegation: the committer stays the string it is.
deserialize_delegation(w) ==
    IF /\ deserialize_key(w.proposer).ok
       /\ deserialize_key(w.delegate).ok
       /\ deserialize_signature(w.signature).ok
    THEN Ok([message |-> [proposer |-> w.proposer.bytes, delegate |-> w.delegate.bytes,
                          committer |-> w.committer, slot |-> w.slot],
             signature |-> w.signature.bytes[1]])
    ELSE Err

\* Payloads: hex_serde, any number of bytes.
serialize_payload(p) == hex_encode(p)
deserialize_payload(h) == hex_decode(h)

deserialize_request(w) ==
    IF deserialize_payload(w.payload).ok THEN Ok([w EXCEPT !.payload = w.payload.bytes]) ELSE Err

\* SignedCommitment, out and back in.
serialize_commitment(s) == [s EXCEPT !.commitment.payload = serialize_payload(@)]
deserialize_commitment(w) ==
    IF deserialize_payload(w.commitment.payload).ok
    THEN Ok([w EXCEPT !.commitment.payload = @.bytes]) ELSE Err

\* SignedConstraints as it is posted.  Keys and the signature are hex texts; slots
\* and types are JSON numbers, and a constraint's payload, unlike all others, is a
\* JSON array of its bytes.  What a relay makes of these forms is not modelled.
serialize_constraints(s) ==
    [message   |-> [s.message EXCEPT !.proposer = serialize_key(@),
                                     !.delegate = serialize_key(@),
                                     !.receivers = [i \in DOMAIN @ |-> serialize_key(@[i])]],
     signature |-> serialize_signature(s.signature)]

\* The authorized_builders of the configuration: all parse, or none is used.
parse_authorized_builders(texts) ==
    IF \A i \in DOMAIN texts : parse_hex_bytes(texts[i], KEY_LEN).ok
    THEN Ok([i \in DOMAIN texts |-> texts[i].bytes]) ELSE Err
=============================================================================
