---------------------- MODULE ConstraintSubmission_proofs ----------------------
(***************************************************************************)
(* Proofs about ConstraintSubmission for every number of runs, commitments,*)
(* delegations, retries and crashes.                                       *)
(***************************************************************************)
EXTENDS ConstraintSubmission, TLAPS

USE DEF runVars, relayVars, storeVars, vars

-----------------------------------------------------------------------------
(* What the statements on the two tables keep.                             *)

\* The INSERT of a well-formed row keeps the type of the table.
LEMMA SaveType ==
    ASSUME CommitmentsTypeOK, NEW h \in Hash, NEW row \in Row, save_commitment(h, row)
    PROVE  CommitmentsTypeOK'
BY DEF CommitmentsTypeOK, save_commitment

\* The INSERT leaves every row that is there as it is.
LEMMA SaveKeeps ==
    ASSUME CommitmentsTypeOK, NEW h \in Hash, NEW row \in Row, save_commitment(h, row),
           NEW g \in Hash
    PROVE  RowKept(g)
BY DEF CommitmentsTypeOK, save_commitment, RowKept, commitment_exists, Processed

\* The UPDATE keeps the type of the table.
LEMMA MarkType ==
    ASSUME CommitmentsTypeOK, NEW hs, mark_commitments_as_processed(hs)
    PROVE  CommitmentsTypeOK'
BY DEF CommitmentsTypeOK, mark_commitments_as_processed, commitment_exists, Row

\* The UPDATE changes nothing but the processed flag, from FALSE to TRUE.
LEMMA MarkKeeps ==
    ASSUME CommitmentsTypeOK, NEW hs, mark_commitments_as_processed(hs), NEW g \in Hash
    PROVE  RowKept(g)
BY StoreAssumption DEF CommitmentsTypeOK, mark_commitments_as_processed, RowKept,
   commitment_exists, Processed, Row

\* A batch of new delegations keeps the type of the table.
LEMMA BatchType ==
    ASSUME DelegationsTypeOK, NEW ds \in SUBSET Delegation, save_delegations_batch(ds)
    PROVE  DelegationsTypeOK' /\ delegations \subseteq delegations'
BY DEF DelegationsTypeOK, save_delegations_batch

-----------------------------------------------------------------------------
(* The clock.                                                              *)

\* current_slot_estimate is a natural number whatever the clock says, also
\* before genesis.
LEMMA CurrentSlotNat == ASSUME NEW t \in Nat PROVE current_slot_estimate(t) \in Nat
BY TimingAssumption, SMT DEF current_slot_estimate

-----------------------------------------------------------------------------
(* Type correctness.                                                       *)

\* The initial state has the right types.
LEMMA InitType == Init => TypeOK
BY DEF Init, SubmissionInit, TypeOK, CommitmentsTypeOK, DelegationsTypeOK,
   SubmissionTypeOK, RunStates

\* A message is well formed because the commitments in it, of which there is at
\* least one, are for the slot of the run.
LEMMA ConstraintsSlot ==
    ASSUME TypeOK, NEW s, NEW a, create_constraints_from_commitments(s, a) # {}
    PROVE  s \in Slots /\ create_constraints_from_commitments(s, a) \subseteq Hash
<1> PICK h \in create_constraints_from_commitments(s, a) : TRUE
    OBVIOUS
<1>1. /\ h \in Hash
      /\ commitments[h] # NoRow
      /\ commitments[h].slot = s
    BY DEF create_constraints_from_commitments, get_unprocessed_commitments_for_slot,
       commitment_exists
<1>2. commitments[h] \in Row
    BY <1>1 DEF TypeOK, CommitmentsTypeOK
<1>3. s \in Slots
    BY <1>1, <1>2 DEF Row
<1> QED BY <1>3 DEF create_constraints_from_commitments, get_unprocessed_commitments_for_slot

\* The step of one run keeps the types.
LEMMA RunStepType ==
    ASSUME TypeOK, NEW r \in Runs, RunStep(r)
    PROVE  TypeOK'
<1> USE DEF TypeOK, SubmissionTypeOK, RunStates
<1>1. CASE StartRun(r)
    <2>1. current_slot_estimate(now) \in Nat
        BY CurrentSlotNat
    <2>2. current_slot_estimate(now) + LOOKAHEAD \in Nat
        BY <2>1, SubmissionAssumption
    <2> QED BY <1>1, <2>1, <2>2 DEF StartRun, CommitmentsTypeOK, DelegationsTypeOK
<1>2. CASE EnterSlot(r)
    BY <1>2 DEF EnterSlot, GiveUp, CommitmentsTypeOK, DelegationsTypeOK
<1>3. CASE SkipSlot(r)
    BY <1>3 DEF SkipSlot, GiveUp, CommitmentsTypeOK, DelegationsTypeOK
<1>4. CASE FinishRun(r)
    BY <1>4 DEF FinishRun, GiveUp, CommitmentsTypeOK, DelegationsTypeOK
<1>5. CASE ReadDelegations(r)
    BY <1>5 DEF ReadDelegations, get_delegations_for_slot, CommitmentsTypeOK, DelegationsTypeOK
<1>6. CASE ReadDelegationsFails(r)
    BY <1>6 DEF ReadDelegationsFails, GiveUp, CommitmentsTypeOK, DelegationsTypeOK
<1>7. CASE CreateConstraints(r)
    <2> PICK d \in todo[r] :
            /\ create_constraints_from_commitments(slot[r], d.committer) # {}
            /\ todo' = [todo EXCEPT ![r] = @ \ {d}]
            /\ msg' = [msg EXCEPT ![r] =
                         [proposer |-> d.proposer, slot |-> slot[r],
                          hashes |-> create_constraints_from_commitments(slot[r], d.committer)]]
        BY <1>7 DEF CreateConstraints
    <2> DEFINE m == [proposer |-> d.proposer, slot |-> slot[r],
                     hashes |-> create_constraints_from_commitments(slot[r], d.committer)]
    <2>1. d \in Delegation
        OBVIOUS
    <2>2. m \in Message
        BY <2>1, ConstraintsSlot DEF Message, Delegation
    <2>3. msg' \in [Runs -> Message \cup {NoMsg}]
        BY <2>2
    <2>4. m # NoMsg
        BY <2>2, SubmissionAssumption DEF Message
    <2> QED BY <1>7, <2>3, <2>4 DEF CreateConstraints, CommitmentsTypeOK, DelegationsTypeOK
<1>8. CASE SkipDelegation(r)
    BY <1>8 DEF SkipDelegation, GiveUp, CommitmentsTypeOK, DelegationsTypeOK
<1>9. CASE LeaveSlot(r)
    BY <1>9 DEF LeaveSlot, GiveUp, CommitmentsTypeOK, DelegationsTypeOK
<1>10. CASE PostAccepted(r)
    BY <1>10 DEF PostAccepted, RelayAccepts, GiveUp, CommitmentsTypeOK, DelegationsTypeOK
<1>11. CASE PostUnanswered(r)
    BY <1>11 DEF PostUnanswered, RelayAccepts, GiveUp, CommitmentsTypeOK, DelegationsTypeOK
<1>12. CASE PostRefused(r)
    BY <1>12 DEF PostRefused, GiveUp, CommitmentsTypeOK, DelegationsTypeOK
<1>13. CASE MarkProcessed(r)
    BY <1>13, MarkType DEF MarkProcessed, GiveUp, DelegationsTypeOK
<1>14. CASE MarkFails(r)
    BY <1>14 DEF MarkFails, GiveUp, CommitmentsTypeOK, DelegationsTypeOK
<1> QED BY <1>1, <1>2, <1>3, <1>4, <1>5, <1>6, <1>7, <1>8, <1>9, <1>10, <1>11, <1>12, <1>13, <1>14 DEF RunStep

\* A row the handler stores is well formed.
LEMMA InputRow ==
    ASSUME NEW c \in CommitmentInputs
    PROVE  c.hash \in Hash /\ NewRow(c.ctype, c.slot, c.slasher) \in Row
BY SubmissionAssumption DEF NewRow, Row

\* Every step keeps the types.
LEMMA StepType == TypeOK /\ [Next]_vars => TypeOK'
<1> SUFFICES ASSUME TypeOK, [Next]_vars PROVE TypeOK'
    OBVIOUS
<1> USE DEF TypeOK, SubmissionTypeOK
<1>1. CASE \E r \in Runs : RunStep(r)
    BY <1>1, RunStepType
<1>2. CASE LateDelivery
    BY <1>2 DEF LateDelivery, RelayAccepts, CommitmentsTypeOK, DelegationsTypeOK
<1>3. CASE Restart
    BY <1>3 DEF Restart, CommitmentsTypeOK, DelegationsTypeOK, RunStates
<1>4. CASE Tick
    BY <1>4 DEF Tick, CommitmentsTypeOK, DelegationsTypeOK
<1>5. CASE HandlerStores
    <2> PICK c \in CommitmentInputs :
            save_commitment(c.hash, NewRow(c.ctype, c.slot, c.slasher))
        BY <1>5 DEF HandlerStores
    <2>1. CommitmentsTypeOK'
        BY InputRow, SaveType
    <2> QED BY <1>5, <2>1 DEF HandlerStores, DelegationsTypeOK
<1>6. CASE PollerStores
    <2> PICK ds \in SUBSET DelegationInputs : save_delegations_batch(ds)
        BY <1>6 DEF PollerStores
    <2>1. ds \in SUBSET Delegation
        BY SubmissionAssumption
    <2>2. DelegationsTypeOK'
        BY <2>1, BatchType
    <2> QED BY <1>6, <2>2 DEF PollerStores, CommitmentsTypeOK
<1>7. CASE PollerDeactivates
    BY <1>7 DEF PollerDeactivates, deactivate, CommitmentsTypeOK, DelegationsTypeOK
<1>8. CASE UNCHANGED vars
    BY <1>8 DEF CommitmentsTypeOK, DelegationsTypeOK
<1> QED BY <1>1, <1>2, <1>3, <1>4, <1>5, <1>6, <1>7, <1>8 DEF Next

\* Type correctness of the submission service: in particular a run that posts or
\* marks has a message, and every message is for a slot of the model.
THEOREM TypeCorrect == Spec => []TypeOK
BY InitType, StepType, PTL DEF Spec
-----------------------------------------------------------------------------
(* Rows are kept.                                                          *)

\* No step takes away or rewrites a commitment or a delegation.
LEMMA StepKeeps ==
    ASSUME TypeOK, [Next]_vars
    PROVE  (\A h \in Hash : RowKept(h)) /\ delegations \subseteq delegations'
<1> USE DEF TypeOK
<1>1. ASSUME UNCHANGED commitments PROVE \A h \in Hash : RowKept(h)
    BY <1>1 DEF RowKept, commitment_exists, Processed
<1>2. CASE \E r \in Runs : RunStep(r)
    <2> PICK r \in Runs : RunStep(r)
        BY <1>2
    <2>1. CASE MarkProcessed(r)
        BY <2>1, MarkKeeps DEF MarkProcessed
    <2>2. CASE ~MarkProcessed(r)
        <3>1. UNCHANGED <<commitments, delegations>>
            BY <2>2 DEF RunStep, StartRun, EnterSlot, SkipSlot, FinishRun,
               ReadDelegations, ReadDelegationsFails, CreateConstraints, SkipDelegation,
               LeaveSlot, PostAccepted, PostUnanswered, PostRefused, MarkFails
        <3> QED BY <1>1, <3>1
    <2> QED BY <2>1, <2>2
<1>3. CASE HandlerStores
    BY <1>3, InputRow, SaveKeeps DEF HandlerStores
<1>4. CASE PollerStores
    <2>1. \A ds \in SUBSET DelegationInputs : ds \in SUBSET Delegation
        BY SubmissionAssumption
    <2>2. delegations \subseteq delegations'
        BY <1>4, <2>1, BatchType DEF PollerStores
    <2> QED BY <1>1, <1>4, <2>2 DEF PollerStores
<1>5. CASE LateDelivery \/ Restart \/ Tick \/ PollerDeactivates \/ UNCHANGED vars
    BY <1>1, <1>5 DEF LateDelivery, Restart, Tick, PollerDeactivates, deactivate
<1> QED BY <1>2, <1>3, <1>4, <1>5 DEF Next

\* The action property RowsKept: a stored commitment is never rewritten or lost
\* and its processed flag never goes back.
THEOREM StoredRowsKept == Spec => RowsKept
<1>1. TypeOK /\ [Next]_vars => [\A h \in Hash : RowKept(h)]_vars
    BY StepKeeps
<1> QED BY <1>1, TypeCorrect, PTL DEF Spec, RowsKept
-----------------------------------------------------------------------------
(* The main invariant.                                                     *)

\* A backed message stays backed: its rows and its delegation are kept.
LEMMA BackedStays ==
    ASSUME TypeOK, [Next]_vars, NEW m \in Message, Backed(m)
    PROVE  Backed(m)'
<1> SUFFICES ASSUME NEW h \in m.hashes
             PROVE  /\ commitment_exists(h)'
                    /\ commitments'[h].slot = m.slot
                    /\ commitments'[h].ctype = 1
                    /\ AuthorisedBy(h, m)'
    BY DEF Backed
<1>1. h \in Hash
    BY DEF Message
<1>2. /\ commitment_exists(h)
      /\ commitments[h].slot = m.slot
      /\ commitments[h].ctype = 1
      /\ AuthorisedBy(h, m)
    BY DEF Backed
<1>3. RowKept(h) /\ delegations \subseteq delegations'
    BY <1>1, StepKeeps
<1>4. /\ commitment_exists(h)'
      /\ [commitments[h] EXCEPT !.processed = TRUE]
           = [commitments'[h] EXCEPT !.processed = TRUE]
    BY <1>2, <1>3 DEF RowKept
<1>5. commitments[h] \in Row /\ commitments'[h] \in Row
    BY <1>1, <1>2, <1>4, StepType DEF TypeOK, CommitmentsTypeOK, commitment_exists
<1>6. /\ commitments'[h].slot = commitments[h].slot
      /\ commitments'[h].ctype = commitments[h].ctype
      /\ commitments'[h].slasher = commitments[h].slasher
    BY <1>4, <1>5 DEF Row
<1> QED BY <1>2, <1>3, <1>4, <1>6 DEF AuthorisedBy

\* The message a run builds is backed: the query returned its commitments and
\* the delegation it names was read from the table.
LEMMA CreatedIsBacked ==
    ASSUME TypeOK, NEW s, NEW d \in delegations, d.slot = s, d.delegate = OurDelegate
    PROVE  Backed([proposer |-> d.proposer, slot |-> s,
                   hashes |-> create_constraints_from_commitments(s, d.committer)])
BY DEF Backed, AuthorisedBy, create_constraints_from_commitments,
   get_unprocessed_commitments_for_slot, commitment_exists

\* A run that does not step goes on remembering the truth.
LEMMA OthersRemember ==
    ASSUME SubmissionInv, [Next]_vars, NEW q \in Runs, accepted \subseteq accepted',
           UNCHANGED <<spc[q], slot[q], todo[q], msg[q]>>
    PROVE  RunRemembers(q)'
<1>1. RunRemembers(q) /\ TypeOK
    BY DEF SubmissionInv
<1>2. delegations \subseteq delegations'
    BY <1>1, StepKeeps
<1>3. ASSUME spc[q] \in {"post", "mark"} PROVE Backed(msg[q])'
    <2> PICK m \in Message : m = msg[q]
        BY <1>1, <1>3 DEF TypeOK, SubmissionTypeOK
    <2>1. Backed(m)'
        BY <1>1, <1>3, BackedStays DEF RunRemembers
    <2> QED BY <2>1
<1> QED BY <1>1, <1>2, <1>3 DEF RunRemembers

\* The run that steps does, too.
LEMMA StepperRemembers ==
    ASSUME SubmissionInv, [Next]_vars, NEW r \in Runs, RunStep(r)
    PROVE  RunRemembers(r)'
<1>1. RunRemembers(r) /\ TypeOK
    BY DEF SubmissionInv
<1>2. delegations \subseteq delegations'
    BY <1>1, StepKeeps
<1> USE <1>1, <1>2 DEF RunRemembers, TypeOK, SubmissionTypeOK
<1>3. CASE StartRun(r) \/ EnterSlot(r) \/ SkipSlot(r) \/ FinishRun(r)
    BY <1>3 DEF StartRun, EnterSlot, SkipSlot, FinishRun
<1>4. CASE ReadDelegations(r)
    BY <1>4 DEF ReadDelegations, get_delegations_for_slot
<1>5. CASE ReadDelegationsFails(r)
    BY <1>5 DEF ReadDelegationsFails
<1>6. CASE CreateConstraints(r)
    <2> PICK d \in todo[r] :
            /\ create_constraints_from_commitments(slot[r], d.committer) # {}
            /\ todo' = [todo EXCEPT ![r] = @ \ {d}]
            /\ msg' = [msg EXCEPT ![r] =
                         [proposer |-> d.proposer, slot |-> slot[r],
                          hashes |-> create_constraints_from_commitments(slot[r], d.committer)]]
        BY <1>6 DEF CreateConstraints
    <2> PICK m : m = [proposer |-> d.proposer, slot |-> slot[r],
                      hashes |-> create_constraints_from_commitments(slot[r], d.committer)]
        OBVIOUS
    <2>1. Backed(m)
        BY CreatedIsBacked
    <2>2. m \in Message
        BY ConstraintsSlot DEF Message, Delegation
    <2>3. Backed(m)'
        BY <2>1, <2>2, BackedStays
    <2>4. msg'[r] = m
        OBVIOUS
    <2>5. Backed(msg[r])'
        BY <2>3, <2>4
    <2> QED BY <1>6, <2>5 DEF CreateConstraints
<1>7. CASE SkipDelegation(r) \/ LeaveSlot(r)
    BY <1>7 DEF SkipDelegation, LeaveSlot
<1>8. CASE PostAccepted(r)
    <2> PICK m \in Message : m = msg[r]
        BY <1>8 DEF PostAccepted
    <2>1. Backed(m)'
        BY <1>8, BackedStays DEF PostAccepted
    <2>2. Backed(msg[r])'
        BY <1>8, <2>1 DEF PostAccepted
    <2> QED BY <1>8, <2>2 DEF PostAccepted, RelayAccepts
<1>9. CASE PostUnanswered(r)
    <2> PICK m \in Message : m = msg[r]
        BY <1>9 DEF PostUnanswered
    <2>1. Backed(m)'
        BY <1>9, BackedStays DEF PostUnanswered
    <2>2. CASE GiveUp(r)
        BY <1>9, <2>2 DEF PostUnanswered, GiveUp
    <2>3. CASE UNCHANGED <<spc, msg>>
        <3>1. Backed(msg[r])'
            BY <2>1, <2>3
        <3> QED BY <1>9, <2>3, <3>1 DEF PostUnanswered
    <2> QED BY <1>9, <2>2, <2>3 DEF PostUnanswered
<1>10. CASE PostRefused(r) \/ MarkProcessed(r) \/ MarkFails(r)
    BY <1>10 DEF PostRefused, MarkProcessed, MarkFails, GiveUp
<1> QED BY <1>3, <1>4, <1>5, <1>6, <1>7, <1>8, <1>9, <1>10 DEF RunStep

\* The relay forgets nothing.
LEMMA StepAccepted == ASSUME [Next]_vars PROVE accepted \subseteq accepted'
BY DEF Next, RunStep, StartRun, EnterSlot, SkipSlot, FinishRun, ReadDelegations,
   ReadDelegationsFails, CreateConstraints, SkipDelegation, LeaveSlot, PostAccepted,
   PostUnanswered, PostRefused, MarkProcessed, MarkFails, RelayAccepts, LateDelivery,
   Restart, Tick, HandlerStores, PollerStores, PollerDeactivates

\* Every run remembers the truth after every step.
LEMMA StepRemembers ==
    ASSUME SubmissionInv, [Next]_vars, NEW q \in Runs
    PROVE  RunRemembers(q)'
<1>1. accepted \subseteq accepted'
    BY StepAccepted
<1>2. CASE \E r \in Runs : RunStep(r)
    <2> PICK r \in Runs : RunStep(r)
        BY <1>2
    <2>1. CASE q = r
        BY <2>1, StepperRemembers
    <2>2. CASE q # r
        <3>1. UNCHANGED <<spc[q], slot[q], todo[q], msg[q]>>
            BY <2>2 DEF SubmissionInv, TypeOK, SubmissionTypeOK, RunStep, StartRun,
               EnterSlot, SkipSlot, FinishRun, ReadDelegations, ReadDelegationsFails,
               CreateConstraints, SkipDelegation, LeaveSlot, PostAccepted, PostUnanswered,
               PostRefused, MarkProcessed, MarkFails, GiveUp
        <3> QED BY <1>1, <3>1, OthersRemember
    <2> QED BY <2>1, <2>2
<1>3. CASE Restart
    BY <1>3 DEF Restart, RunRemembers
<1>4. CASE ~Restart /\ ~\E r \in Runs : RunStep(r)
    <2>1. UNCHANGED <<spc[q], slot[q], todo[q], msg[q]>>
        BY <1>4 DEF Next, LateDelivery, Tick, HandlerStores, PollerStores,
           PollerDeactivates
    <2> QED BY <1>1, <2>1, OthersRemember
<1> QED BY <1>2, <1>3, <1>4

\* A message that is newly with the relay, or newly on its way there, is one a
\* run was posting, or was on its way before.
LEMMA StepPosts ==
    ASSUME SubmissionInv, [Next]_vars, NEW m \in accepted' \cup inflight'
    PROVE  \/ m \in accepted \cup inflight
           \/ \E r \in Runs : spc[r] = "post" /\ m = msg[r]
<1>1. CASE \E r \in Runs : RunStep(r)
    BY <1>1 DEF RunStep, StartRun, EnterSlot, SkipSlot, FinishRun, ReadDelegations,
       ReadDelegationsFails, CreateConstraints, SkipDelegation, LeaveSlot, PostAccepted,
       PostUnanswered, PostRefused, MarkProcessed, MarkFails, RelayAccepts
<1>2. CASE LateDelivery
    BY <1>2 DEF LateDelivery, RelayAccepts
<1>3. CASE Restart
    BY <1>3 DEF Restart
<1>4. CASE Tick \/ HandlerStores \/ PollerStores \/ PollerDeactivates \/ UNCHANGED vars
    BY <1>4 DEF Tick, HandlerStores, PollerStores, PollerDeactivates
<1> QED BY <1>1, <1>2, <1>3, <1>4 DEF Next

\* What is with the relay or on its way stays backed.
LEMMA StepBacked == ASSUME SubmissionInv, [Next]_vars PROVE PostsAreBacked'
<1> SUFFICES ASSUME NEW m \in accepted' \cup inflight' PROVE Backed(m)'
    BY DEF PostsAreBacked
<1>1. m \in Message
    BY StepType DEF SubmissionInv, TypeOK, SubmissionTypeOK
<1>2. Backed(m)
    BY StepPosts DEF SubmissionInv, PostsAreBacked, RunRemembers
<1> QED BY <1>1, <1>2, BackedStays DEF SubmissionInv

\* A commitment that is processed after a step was so before, or a run marks it
\* whose message the relay has.
LEMMA StepProcessed == ASSUME SubmissionInv, [Next]_vars PROVE ProcessedWasAccepted'
<1> SUFFICES ASSUME NEW h \in Hash, Processed(h)'
             PROVE  \E m \in accepted' : h \in m.hashes /\ m.slot = commitments'[h].slot
    BY DEF ProcessedWasAccepted
<1> USE DEF SubmissionInv
<1>a. accepted \subseteq accepted'
    BY StepAccepted
<1>1. CASE Processed(h)
    <2>1. PICK m \in accepted : h \in m.hashes /\ m.slot = commitments[h].slot
        BY <1>1 DEF ProcessedWasAccepted
    <2>2. m \in Message /\ Backed(m)
        BY DEF PostsAreBacked, TypeOK, SubmissionTypeOK
    <2>3. Backed(m)'
        BY <2>2, BackedStays
    <2> QED BY <1>a, <2>1, <2>3 DEF Backed
<1>2. CASE ~Processed(h)
    <2>1. PICK r \in Runs : MarkProcessed(r) /\ h \in msg[r].hashes
        <3>1. CASE UNCHANGED commitments
            BY <1>2, <3>1 DEF Processed, commitment_exists
        <3>2. CASE HandlerStores
            <4> PICK c \in CommitmentInputs :
                    save_commitment(c.hash, NewRow(c.ctype, c.slot, c.slasher))
                BY <3>2 DEF HandlerStores
            <4>1. ~NewRow(c.ctype, c.slot, c.slasher).processed
                BY DEF NewRow
            <4>2. commitments'[h] \in {commitments[h], NewRow(c.ctype, c.slot, c.slasher)}
                BY InputRow DEF save_commitment, TypeOK, CommitmentsTypeOK
            <4> QED BY <1>2, <4>1, <4>2 DEF Processed, commitment_exists
        <3>3. CASE \E r \in Runs : MarkProcessed(r)
            BY <1>2, <3>3 DEF MarkProcessed, mark_commitments_as_processed, Processed,
               commitment_exists
        <3> QED BY <3>1, <3>2, <3>3 DEF Next, RunStep, StartRun, EnterSlot, SkipSlot,
                FinishRun, ReadDelegations, ReadDelegationsFails, CreateConstraints,
                SkipDelegation, LeaveSlot, PostAccepted, PostUnanswered, PostRefused,
                MarkFails, LateDelivery, Restart, Tick, PollerStores, PollerDeactivates
    <2>2. msg[r] \in accepted
        BY <2>1 DEF MarkProcessed, RunRemembers
    <2>3. PICK m \in Message : m = msg[r]
        BY <2>2 DEF TypeOK, SubmissionTypeOK
    <2>4. Backed(m)'
        BY <2>2, <2>3, BackedStays DEF PostsAreBacked
    <2> QED BY <1>a, <2>1, <2>2, <2>3, <2>4 DEF Backed
<1> QED BY <1>1, <1>2

\* The inductive invariant holds at the start.
LEMMA SubmissionInvInit == Init => SubmissionInv
BY InitType, StoreAssumption DEF Init, SubmissionInit, SubmissionInv, RunRemembers,
   PostsAreBacked, ProcessedWasAccepted, Processed, commitment_exists

\* Every step keeps the inductive invariant.
LEMMA SubmissionInvStep == SubmissionInv /\ [Next]_vars => SubmissionInv'
<1> SUFFICES ASSUME SubmissionInv, [Next]_vars PROVE SubmissionInv'
    OBVIOUS
<1>1. TypeOK'
    BY StepType DEF SubmissionInv
<1> QED BY <1>1, StepRemembers, StepBacked, StepProcessed DEF SubmissionInv

\* The inductive invariant of the submission service.
THEOREM SubmissionInvariant == Spec => []SubmissionInv
<1> QED BY SubmissionInvInit, SubmissionInvStep, PTL DEF Spec

\* Whatever reaches the relay comes from stored commitments of the message's
\* slot, under a stored delegation to us by the proposer it names.
THEOREM PostsBacked == Spec => []PostsAreBacked
<1>1. SubmissionInv => PostsAreBacked
    BY DEF SubmissionInv
<1> QED BY <1>1, SubmissionInvariant, PTL

\* A commitment marked processed has been taken in by the relay: marking never
\* runs ahead of the post, for any number of overlapping runs and crashes.
THEOREM ProcessedAccepted == Spec => []ProcessedWasAccepted
<1>1. SubmissionInv => ProcessedWasAccepted
    BY DEF SubmissionInv
<1> QED BY <1>1, SubmissionInvariant, PTL
=============================================================================
