--------------------------------- MODULE Abi ---------------------------------
(***************************************************************************)
(* Solidity ABI encoding as the ethabi crate does it, in words.  What the  *)
(* gateway signs and hashes is such an encoding, so what a signature binds *)
(* is what the encoding tells apart.  A word is a number, but for a digest *)
(* placed in a word of its own.  Raw bytes become number words like any    *)
(* other: bytes that look like a length or an offset are not excluded.     *)
(***************************************************************************)
EXTENDS Naturals, Sequences, SequencesExt

CONSTANTS
    WORD,    \* bytes of a word, 32 in Ethereum
    BASE     \* bytes are 0 .. BASE - 1, 256 in Ethereum

ASSUME AbiAssumption == WORD \in Nat \ {0} /\ BASE \in Nat \ {0, 1}

Number(n) == [number |-> n]

\* The number that bytes are the digits of.
Value(bytes) ==
    LET value[k \in 0..Len(bytes)] == IF k = 0 THEN 0 ELSE value[k - 1] * BASE + bytes[k]
    IN value[Len(bytes)]

\* Tokens.
Uint(n) == [kind |-> "word", word |-> Number(n)]
AddressToken(account) == [kind |-> "word", word |-> Number(Value(account))]
FixedBytes(digest) == [kind |-> "word", word |-> digest[1]]
Bytes(bytes) == [kind |-> "bytes", bytes |-> bytes]
Array(items) == [kind |-> "array", items |-> items]
Tuple(items) == [kind |-> "tuple", items |-> items]

\* Bytes cut into words, the last one padded with zeros on the right.
Chunks(bytes) ==
    [k \in 1..((Len(bytes) + WORD - 1) \div WORD) |->
        Number(Value([i \in 1..WORD |-> IF (k - 1) * WORD + i <= Len(bytes)
                                       THEN bytes[(k - 1) * WORD + i] ELSE 0]))]

\* A head of one word per token, then the tails of the dynamic ones: the head of
\* a dynamic token is the offset of its tail.  (A tuple without dynamic members
\* would lie in the head; the gateway encodes none.)
Layout(tokens, tails) ==
    LET Offset(i) == WORD * (Len(tokens) + Len(FlattenSeq(SubSeq(tails, 1, i - 1))))
        heads == [i \in DOMAIN tokens |->
                     IF tokens[i].kind = "word" THEN tokens[i].word ELSE Number(Offset(i))]
    IN heads \o FlattenSeq(tails)

\* Tails.  What the gateway encodes nests no deeper than an array of tuples of
\* words and bytes.
BytesTail(token) ==
    IF token.kind = "word" THEN <<>> ELSE <<Number(Len(token.bytes))>> \o Chunks(token.bytes)

TupleTail(token) ==
    IF token.kind = "tuple"
    THEN Layout(token.items, [i \in DOMAIN token.items |-> BytesTail(token.items[i])])
    ELSE BytesTail(token)

TailOf(token) ==
    IF token.kind = "array"
    THEN <<Number(Len(token.items))>>
         \o Layout(token.items, [i \in DOMAIN token.items |-> TupleTail(token.items[i])])
    ELSE TupleTail(token)

encode(tokens) == Layout(tokens, [i \in DOMAIN tokens |-> TailOf(tokens[i])])
=============================================================================
