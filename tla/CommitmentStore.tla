--------------------------- MODULE CommitmentStore ---------------------------
(***************************************************************************)
(* The commitments table (migrations 001 and 009) and the queries of       *)
(* db/operations.rs.  request_hash is UNIQUE, so the table is a function   *)
(* from hashes to rows.  Postgres runs each statement atomically; a caller *)
(* that issues two statements can be interleaved between them.             *)
(***************************************************************************)
EXTENDS GatewayTypes

CONSTANTS
    Hash,              \* request hashes
    CommitmentTypes,   \* commitment_type values
    NoRow              \* "no row with this hash"

ASSUME StoreAssumption ==
    /\ CommitmentTypes \subseteq Nat
    /\ NoRow \notin [ctype : CommitmentTypes, slot : Slots,
                     slasher : Address, processed : BOOLEAN]

VARIABLE commitments

Row == [ctype : CommitmentTypes, slot : Slots, slasher : Address,
        processed : BOOLEAN]

CommitmentsTypeOK == commitments \in [Hash -> Row \cup {NoRow}]

NewRow(ctype, slot, slasher) ==
    [ctype |-> ctype, slot |-> slot, slasher |-> slasher, processed |-> FALSE]

commitment_exists(h) == commitments[h] # NoRow

\* constraint_processed of the row of h.
Processed(h) == commitment_exists(h) /\ commitments[h].processed

\* Mutant: ON CONFLICT DO UPDATE, the row is overwritten.
save_commitment_upsert(h, row) == commitments' = [commitments EXCEPT ![h] = row]

\* INSERT ... ON CONFLICT (request_hash) DO NOTHING.  The statement affects a
\* row, and RETURNING yields its id, only if the hash was not there.
save_commitment(h, row) ==
    commitments' = IF commitment_exists(h)
                   THEN commitments
                   ELSE [commitments EXCEPT ![h] = row]

get_unprocessed_commitments_for_slot(s) ==
    {h \in Hash : /\ commitment_exists(h)
                  /\ commitments[h].slot = s
                  /\ ~commitments[h].processed}

\* UPDATE ... WHERE request_hash = ANY(hs).
mark_commitments_as_processed(hs) ==
    commitments' = [h \in Hash |->
                      IF h \in hs /\ commitment_exists(h)
                      THEN [commitments[h] EXCEPT !.processed = TRUE]
                      ELSE commitments[h]]

\* The row of h is kept: same commitment, and processed only from FALSE to TRUE.
RowKept(h) ==
    commitment_exists(h) =>
        /\ commitment_exists(h)'
        /\ Processed(h) => Processed(h)'
        /\ [commitments[h] EXCEPT !.processed = TRUE]
             = [commitments'[h] EXCEPT !.processed = TRUE]
=============================================================================
