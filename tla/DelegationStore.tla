--------------------------- MODULE DelegationStore ---------------------------
(***************************************************************************)
(* The delegations table (migration 003) and the queries of                *)
(* db/delegation_ops.rs.  A row never changes but for is_active, which     *)
(* only ever goes from true to false: the rows are the set delegations and *)
(* the rows whose is_active is false the subset deactivated.               *)
(***************************************************************************)
EXTENDS GatewayTypes

CONSTANT Delegates    \* gateway BLS public keys

VARIABLES delegations, deactivated

\* verified: the BLS signature verifies under the configured domain.
Delegation == [proposer : Proposers, delegate : Delegates,
               committer : Address, slot : Slots, verified : BOOLEAN]

DelegationsTypeOK ==
    /\ delegations \subseteq Delegation
    /\ deactivated \subseteq delegations

\* SELECT ... WHERE slot_number = $1 AND is_active = true, without ORDER BY:
\* a reader that takes the first match takes any of them.
get_delegations_for_slot(s) ==
    {d \in delegations \ deactivated : d.slot = s}

SameKey(d, e) == d.proposer = e.proposer /\ d.slot = e.slot

\* The UNIQUE (proposer_pubkey, slot_number) constraint, whether or not the row
\* is active.
delegation_exists(d) == \E e \in delegations : SameKey(d, e)

\* One transaction of INSERT ... ON CONFLICT (proposer_pubkey, slot_number) DO
\* NOTHING: of the rows of ds that share a free key one is inserted, the first
\* of the relay's list; a taken key keeps its row, active or not.
save_delegations_batch(ds) ==
    /\ \E ins \in SUBSET {d \in ds : ~delegation_exists(d)} :
         /\ \A d, e \in ins : SameKey(d, e) => d = e
         /\ \A d \in ds : delegation_exists(d) \/ \E e \in ins : SameKey(d, e)
         /\ delegations' = delegations \cup ins
    /\ UNCHANGED deactivated

\* UPDATE delegations SET is_active = false.
deactivate(ds) ==
    /\ deactivated' = deactivated \cup (delegations \cap ds)
    /\ UNCHANGED delegations
=============================================================================
