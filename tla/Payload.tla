------------------------------- MODULE Payload -------------------------------
(***************************************************************************)
(* The payload of a commitment (types/payload.rs), an opaque byte string   *)
(* to the RPC layer that every reader parses for itself: the handler, the  *)
(* insert, the fee engine and, outside, the builder.  A payload is the way *)
(* it is written, and the slot and the transaction written in it.          *)
(***************************************************************************)
EXTENDS Naturals, Sequences

CONSTANTS
    MAX_I64,       \* the last value of i64
    MAX_U64,       \* the last value of u64
    SlotText(_)    \* the bytes a slot number is written with

ASSUME PayloadAssumption == MAX_I64 \in Nat /\ MAX_U64 = 2 * MAX_I64 + 1

Ok(v) == [ok |-> TRUE, value |-> v]
Err == [ok |-> FALSE]

\* json: the object of InclusionPayload, signed_tx prefixed 0x; json_bare: not
\* prefixed; json_0X: prefixed 0X, which hex::decode refuses; json_exec: the
\* object of ExecutionPayload; json_both: one object with the fields of both
\* (unknown fields are ignored); rlp: the list [slot, signed_tx]; rlp_more: the
\* list and a zero byte after it, which the decoder does not look at; rlp_3: a
\* list of three items; junk: neither JSON nor RLP.  A JSON text never starts
\* with the byte of an RLP list.
PayloadForms == {"json", "json_bare", "json_0X", "json_exec", "json_both",
                 "rlp", "rlp_more", "rlp_3", "junk"}

FormCode == [json |-> 1, json_bare |-> 2, json_0X |-> 3, json_exec |-> 4, json_both |-> 5,
             rlp |-> 6, rlp_more |-> 6, rlp_3 |-> 7, junk |-> 8]

\* The bytes: as many different texts as there are payloads, and rlp_more has rlp
\* as a prefix.
Text(p) ==
    <<FormCode[p.form]>> \o SlotText(p.slot) \o p.tx
    \o (IF p.form = "rlp_more" THEN <<0>> ELSE <<>>)

InclusionPayload(slot, tx) == [slot |-> slot, signed_tx |-> tx]

\* External: serde_json::from_slice::<InclusionPayload>.
json_inclusion(p) ==
    IF p.form \in {"json", "json_bare", "json_both"} /\ p.slot <= MAX_U64
    THEN Ok(InclusionPayload(p.slot, p.tx)) ELSE Err

\* External: serde_json::from_slice::<ExecutionPayload>.
json_execution(p) ==
    IF p.form \in {"json_exec", "json_both"} /\ p.slot <= MAX_U64
    THEN Ok([slot |-> p.slot, transaction |-> p.tx]) ELSE Err

parse_inclusion_payload_rlp(p) ==
    IF p.form \in {"rlp", "rlp_more"} /\ p.slot <= MAX_U64
    THEN Ok(InclusionPayload(p.slot, p.tx)) ELSE Err

parse_inclusion_payload(p) ==
    IF json_inclusion(p).ok THEN json_inclusion(p) ELSE parse_inclusion_payload_rlp(p)

parse_execution_payload(p) == json_execution(p)

SlotOf(parsed) == IF parsed.ok THEN Ok(parsed.value.slot) ELSE Err

extract_slot_from_inclusion_payload(p) == SlotOf(parse_inclusion_payload(p))
extract_slot_from_execution_payload(p) == SlotOf(parse_execution_payload(p))

extract_slot(ctype, p) ==
    CASE ctype = 1 -> extract_slot_from_inclusion_payload(p)
      [] ctype = 2 -> extract_slot_from_execution_payload(p)
      [] OTHER     -> Err

encode_inclusion_payload(x) == [form |-> "json", slot |-> x.slot, tx |-> x.signed_tx]
encode_inclusion_payload_rlp(x) == [form |-> "rlp", slot |-> x.slot, tx |-> x.signed_tx]

\* validate_and_extract_slot of rpc/handlers.rs.  InclusionPayload::validate is
\* not called: slot 0 and an empty transaction pass.
validate_and_extract_slot(ctype, p) == extract_slot(ctype, p)

\* The gas the fee engine takes a commitment to use.
estimate_gas_for_commitment(ctype, p) ==
    CASE ctype = 1 -> IF parse_inclusion_payload(p).ok
                      THEN Ok(21000 + 16 * Len(parse_inclusion_payload(p).value.signed_tx) + 10000)
                      ELSE Ok(50000)
      [] ctype = 2 -> Ok(100000)
      [] OTHER     -> Err

\* "slot as i64" and "slot_number as u64": two's complement.
as_i64(n) == IF n <= MAX_I64 THEN n ELSE n - (MAX_U64 + 1)
as_u64(n) == IF n >= 0 THEN n ELSE n + (MAX_U64 + 1)
=============================================================================
