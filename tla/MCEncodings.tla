----------------------------- MODULE MCEncodings -----------------------------
(***************************************************************************)
(* Values of the constants of Encodings.  Bytes are small numbers, a word  *)
(* two of them and a key three.  The gateway's own key also proposes, and  *)
(* its configured domain is the one of delegations: the worst cases.       *)
(***************************************************************************)
EXTENDS Encodings

key == <<1, 2, 3>>       \* a proposer's key
gateway == <<1, 2, 4>>   \* the gateway's key
account == <<7>>         \* the gateway's account
other == <<8>>           \* another account

MCSlotText(slot) == <<slot>>

MCPoints == {key, gateway}
MCScheduled == 1 :> key @@ 2 :> gateway @@ (MAX_I64 + 2) :> gateway

MCCommitter == Hex("0x", FALSE, account)
MCWhitelist == {Hex("0x", TRUE, account), Hex("0x", FALSE, other)}
MCBuilders == <<Hex("0x", FALSE, key), Hex("", FALSE, gateway)>>

Message(proposer, delegate, committer, slot) ==
    [proposer |-> proposer, delegate |-> delegate, committer |-> Hex("0x", FALSE, committer),
     slot |-> slot]

\* One proposer for two slots, for another gateway and for another account; the
\* gateway for itself; a slot that is no i64.
MCMessages ==
    {Message(key, gateway, account, 1), Message(key, gateway, account, 2),
     Message(key, gateway, other, 1), Message(key, key, account, 1),
     Message(gateway, gateway, account, 2), Message(gateway, gateway, account, MAX_I64 + 2)}

Offer(m, prefix, spelling) ==
    [proposer |-> Hex(prefix, FALSE, m.proposer), delegate |-> Hex(prefix, FALSE, m.delegate),
     committer |-> Hex(spelling.prefix, spelling.upper, m.committer.bytes), slot |-> m.slot,
     signature |-> Hex(prefix, FALSE, <<>>)]

Spellings == {Hex("0x", FALSE, <<>>), Hex("0x", TRUE, <<>>), Hex("", FALSE, <<>>),
              Hex("0X", FALSE, <<>>)}

MCOffers ==
    {Offer(m, "0x", MCCommitter) : m \in MCMessages}
    \cup {Offer(m, "0x", s) : m \in {Message(key, gateway, account, 1)}, s \in Spellings}
    \cup {Offer(m, p, MCCommitter) : m \in {Message(key, gateway, account, 2)}, p \in {"", "0X"}}

\* Transactions of two lengths, one that ends in a zero byte, none; every form.
MCPayloads ==
    {encode_inclusion_payload(InclusionPayload(1, <<5>>)),
     encode_inclusion_payload_rlp(InclusionPayload(1, <<5>>)),
     [form |-> "rlp_more", slot |-> 1, tx |-> <<5>>],
     encode_inclusion_payload_rlp(InclusionPayload(2, <<>>)),
     [form |-> "json_both", slot |-> 2, tx |-> <<5, 6>>],
     encode_inclusion_payload(InclusionPayload(MAX_I64 + 2, <<5>>)),
     encode_inclusion_payload(InclusionPayload(MAX_U64 + 1, <<5>>))}
    \cup {[form |-> f, slot |-> 1, tx |-> <<5>>] : f \in {"json_0X", "json_exec", "rlp_3", "junk"}}

RequestOf(ctype, payload, slasher) == [ctype |-> ctype, payload |-> payload, slasher |-> slasher]

MCRequests ==
    {RequestOf(1, serialize_payload(p), Hex(s.prefix, s.upper, account)) :
        p \in MCPayloads, s \in Spellings}
    \cup {RequestOf(1, serialize_payload(p), Hex("0x", FALSE, other)) : p \in MCPayloads}
    \cup {RequestOf(1, Hex("0X", FALSE, p), MCCommitter) : p \in MCPayloads}
    \cup {RequestOf(2, serialize_payload(p), MCCommitter) : p \in MCPayloads}
=============================================================================
