------------------------ MODULE DirectSubmission_proofs ------------------------
(***************************************************************************)
(* Direct submissions beside the job, for any number of calls and runs:    *)
(* they do not disturb the job, they are in time, and the slots the        *)
(* gateway offers are open.                                                *)
(***************************************************************************)
EXTENDS DirectSubmission, ConstraintSubmission_proofs

\* A step is one of the job and its surroundings, or leaves those alone.
LEMMA DirectStepIsStep == [DirectNext]_dvars => [Next]_vars
  BY DEF DirectNext, ServiceStep, CallStep, submit_constraint_now, PostDirectly,
         RefuseDirectly, DirectAccepted, DirectUnanswered, DirectRefused, Next, dvars

\* submit_constraint_now beside the job changes nothing the job sees: what is
\* proved of ConstraintSubmission holds with direct calls too.
THEOREM DirectImplements == DirectSpec => Spec
  BY DirectStepIsStep, PTL DEF DirectSpec, DirectInit, Spec

\* So what is posted is backed, and what is marked was accepted, with direct calls too.
COROLLARY DirectPostsBacked == DirectSpec => [](PostsAreBacked /\ ProcessedWasAccepted)
  BY DirectImplements, PostsBacked, ProcessedAccepted, PTL
-----------------------------------------------------------------------------
(* In time.                                                                *)

CallPoints == {"idle", "delegations", "post", "ended"}

DirectType ==
    /\ dpc \in [Calls -> CallPoints]
    /\ job \in [Calls -> [slot : Slots \cup {0}, committer : Address, using : SUBSET Delegation]]

\* DirectInTime is not inductive: a call that posts has read its delegation some
\* awaits ago, and is not past the deadline because its timer would have ended.
CallInTime(c) ==
    dpc[c] = "post" =>
        /\ is_within_constraint_window(job[c].slot, now)
        /\ \A d \in job[c].using :
              d \in delegations /\ d.slot = job[c].slot /\ d.delegate = OurDelegate

DirectInv ==
    /\ TypeOK
    /\ DirectType
    /\ \A c \in Calls : CallInTime(c)
    /\ DirectInTime

\* Deadlines are times.
LEMMA DeadlineNat == ASSUME NEW s \in Nat PROVE constraint_deadline_for_slot(s) \in Nat
  BY TimingAssumption DEF constraint_deadline_for_slot

\* Ticks are what moves the clock, by one second.
LEMMA ClockStep == [Next]_vars /\ ~Tick => UNCHANGED now
  BY DEF Next, RunStep, StartRun, EnterSlot, SkipSlot, FinishRun, ReadDelegations,
   ReadDelegationsFails, CreateConstraints, SkipDelegation, LeaveSlot, PostAccepted,
   PostUnanswered, PostRefused, MarkProcessed, MarkFails, LateDelivery,
   Restart, HandlerStores, PollerStores, PollerDeactivates, vars

\* What was answered stays true: delegations are never removed.
LEMMA AnsweredStays ==
    ASSUME DirectInTime, delegations \subseteq delegations', UNCHANGED answered
    PROVE  DirectInTime'
  BY DEF DirectInTime, is_within_constraint_window

\* A call that does not step stays in time while the clock stands still.
LEMMA WaitingInTime ==
    ASSUME NEW c \in Calls, CallInTime(c), delegations \subseteq delegations',
           UNCHANGED <<now, dpc[c], job[c]>>
    PROVE  CallInTime(c)'
  BY DEF CallInTime, is_within_constraint_window

\* The job, the clock, the tables and a crash keep the calls in time.
LEMMA DirectInvService ==
    ASSUME DirectInv, ServiceStep
    PROVE  DirectType' /\ (\A c \in Calls : CallInTime(c)') /\ DirectInTime'
<1>1. [Next]_vars
  BY DirectStepIsStep DEF DirectNext
<1>2. delegations \subseteq delegations'
  BY <1>1, StepKeeps DEF DirectInv
<1>3. UNCHANGED answered
  BY DEF ServiceStep, directVars
<1>4. DirectInTime'
  BY <1>2, <1>3, AnsweredStays DEF DirectInv
<1>5. CASE Tick /\ (\A c \in Calls : ~Overdue(c)) /\ UNCHANGED directVars
  <2>1. DirectType'
    BY <1>5 DEF DirectInv, DirectType, directVars
  <2>2. ASSUME NEW c \in Calls, dpc[c] = "post"
        PROVE  is_within_constraint_window(job[c].slot, now')
    <3>1. constraint_deadline_for_slot(job[c].slot) \in Nat /\ now \in Nat
      BY DeadlineNat, SlotsAssumption DEF DirectInv, DirectType, TypeOK, SubmissionTypeOK
    <3>2. now < constraint_deadline_for_slot(job[c].slot)
      BY <1>5, <2>2, <3>1 DEF Overdue
    <3> QED BY <1>5, <3>1, <3>2 DEF Tick, is_within_constraint_window
  <2>3. ASSUME NEW c \in Calls PROVE CallInTime(c)'
    BY <1>2, <1>5, <2>2 DEF DirectInv, CallInTime, directVars, is_within_constraint_window
  <2> QED BY <1>4, <2>1, <2>3
<1>6. CASE UNCHANGED directVars /\ ~Tick
  <2>1. UNCHANGED now
    BY <1>1, <1>6, ClockStep
  <2>2. DirectType'
    BY <1>6 DEF DirectInv, DirectType, directVars
  <2> QED BY <1>2, <1>4, <1>6, <2>1, <2>2, WaitingInTime DEF DirectInv, directVars
<1>7. CASE Restart /\ dpc' = [c \in Calls |-> IF dpc[c] = "idle" THEN "idle" ELSE "ended"]
                   /\ job' = [c \in Calls |-> NoJob]
  <2>1. DirectType'
    BY <1>7, DirectAssumption DEF DirectInv, DirectType, NoJob, CallPoints
  <2>2. ASSUME NEW c \in Calls PROVE CallInTime(c)'
    BY <1>7 DEF CallInTime
  <2> QED BY <1>4, <2>1, <2>2
<1>8. (\E r \in Runs : RunStep(r)) \/ LateDelivery \/ HandlerStores \/ PollerStores
        \/ PollerDeactivates => (Tick => now' = now)
  BY DEF RunStep, StartRun, EnterSlot, SkipSlot, FinishRun, ReadDelegations,
   ReadDelegationsFails, CreateConstraints, SkipDelegation, LeaveSlot, PostAccepted,
   PostUnanswered, PostRefused, MarkProcessed, MarkFails, LateDelivery,
   HandlerStores, PollerStores, PollerDeactivates
<1>9. now \in Nat /\ (Tick => now' = now + 1)
  BY DEF DirectInv, TypeOK, SubmissionTypeOK, Tick
<1> QED BY <1>5, <1>6, <1>7, <1>8, <1>9 DEF ServiceStep

\* Every step of a call keeps all calls in time.
LEMMA DirectInvCall ==
    ASSUME DirectInv, NEW c \in Calls, CallStep(c)
    PROVE  DirectType' /\ (\A b \in Calls : CallInTime(b)') /\ DirectInTime'
<1> USE DEF DirectInv
<1>1. UNCHANGED vars
  BY DEF CallStep, submit_constraint_now, PostDirectly, RefuseDirectly, DirectAccepted,
         DirectUnanswered, DirectRefused
<1>2. UNCHANGED <<now, delegations>>
  BY <1>1 DEF vars, storeVars
<1>3. ASSUME UNCHANGED answered PROVE DirectInTime'
  BY <1>2, <1>3, AnsweredStays
<1>4. ASSUME NEW b \in Calls, UNCHANGED <<dpc[b], job[b]>> PROVE CallInTime(b)'
  BY <1>2, <1>4, WaitingInTime
<1>5. CASE Return(c)
  <2>1. DirectType'
    BY <1>5, DirectAssumption DEF Return, DirectType, NoJob, CallPoints
  <2>2. ASSUME NEW b \in Calls PROVE CallInTime(b)'
    <3>1. CASE b = c
      BY <1>5, <3>1 DEF Return, CallInTime, DirectType
    <3>2. CASE b # c
      BY <1>4, <1>5, <3>2 DEF Return, DirectType
    <3> QED BY <3>1, <3>2
  <2>3. ASSUME DirectAccepted(c) PROVE DirectInTime'
    BY <1>2, <2>3 DEF DirectAccepted, DirectInTime, CallInTime, is_within_constraint_window
  <2>4. DirectInTime'
    BY <1>3, <2>3 DEF CallStep, submit_constraint_now, PostDirectly, RefuseDirectly,
       DirectUnanswered, DirectRefused
  <2> QED BY <2>1, <2>2, <2>4
<1>6. CASE submit_constraint_now(c) /\ ~Return(c)
  <2>1. PICK input \in CallInputs :
           /\ dpc' = [dpc EXCEPT ![c] = "delegations"]
           /\ job' = [job EXCEPT ![c] = [slot |-> input.slot, committer |-> input.committer,
                                         using |-> {}]]
           /\ UNCHANGED answered
    BY <1>6 DEF submit_constraint_now
  <2>2. input.slot \in Slots /\ input.committer \in Address
    BY DirectAssumption
  <2>3. DirectType'
    BY <2>1, <2>2 DEF DirectType, CallPoints
  <2>4. ASSUME NEW b \in Calls PROVE CallInTime(b)'
    <3>1. CASE b = c
      BY <2>1, <3>1 DEF CallInTime, DirectType
    <3>2. CASE b # c
      BY <1>4, <2>1, <3>2 DEF DirectType
    <3> QED BY <3>1, <3>2
  <2> QED BY <1>3, <2>1, <2>3, <2>4
<1>7. CASE PostDirectly(c)
  <2>1. PICK d \in Matching(c) : job' = [job EXCEPT ![c].using = {d}]
    BY <1>7 DEF PostDirectly
  <2>2. /\ d \in delegations /\ d.slot = job[c].slot /\ d.delegate = OurDelegate
        /\ d \in Delegation
    BY <2>1 DEF Matching, get_delegations_for_slot, TypeOK, DelegationsTypeOK
  <2>3. job[c] \in [slot : Slots \cup {0}, committer : Address, using : SUBSET Delegation]
    BY DEF DirectType
  <2>4. DirectType'
    BY <1>7, <2>1, <2>2, <2>3 DEF PostDirectly, DirectType, CallPoints
  <2>5. /\ dpc' = [dpc EXCEPT ![c] = "post"]
        /\ job'[c].slot = job[c].slot /\ job'[c].using = {d}
    BY <1>7, <2>1, <2>3 DEF PostDirectly, DirectType
  <2>6. is_within_constraint_window(job[c].slot, now)
    <3>1. constraint_deadline_for_slot(job[c].slot) \in Nat /\ now \in Nat
      BY <2>3, DeadlineNat, SlotsAssumption DEF TypeOK, SubmissionTypeOK
    <3> QED BY <1>7, <3>1 DEF PostDirectly, is_within_constraint_window
  <2>7. CallInTime(c)'
    BY <1>2, <2>2, <2>5, <2>6 DEF CallInTime, is_within_constraint_window
  <2>8. ASSUME NEW b \in Calls, b # c PROVE CallInTime(b)'
    BY <1>4, <2>1, <2>5, <2>8 DEF DirectType
  <2> QED BY <1>3, <1>7, <2>4, <2>7, <2>8 DEF PostDirectly
<1>8. CASE UNCHANGED <<dpc, job, answered>>
  BY <1>3, <1>4, <1>8 DEF DirectType
<1> QED BY <1>5, <1>6, <1>7, <1>8 DEF CallStep, RefuseDirectly, DirectAccepted,
           DirectUnanswered, DirectRefused

\* A caller of submit_constraint_now who is told Ok has its constraint at the
\* relay inside the slot's window, under a stored delegation to this gateway.
THEOREM DirectIsInTime == DirectSpec => []DirectInTime
<1>1. DirectInit => DirectInv
  BY InitType, DirectAssumption DEF DirectInit, DirectInv, DirectType, CallPoints, NoJob,
     CallInTime, DirectInTime
<1>2. DirectInv /\ [DirectNext]_dvars => DirectInv'
  <2> SUFFICES ASSUME DirectInv, [DirectNext]_dvars PROVE DirectInv'
    OBVIOUS
  <2>1. TypeOK'
    BY DirectStepIsStep, StepType DEF DirectInv
  <2>2. CASE ServiceStep
    BY <2>1, <2>2, DirectInvService DEF DirectInv
  <2>3. CASE \E c \in Calls : CallStep(c)
    BY <2>1, <2>3, DirectInvCall DEF DirectInv
  <2>4. CASE UNCHANGED dvars
    <3>1. UNCHANGED <<now, delegations, dpc, job, answered>>
      BY <2>4 DEF dvars, directVars, vars, storeVars
    <3>2. DirectType' /\ DirectInTime'
      BY <3>1, AnsweredStays DEF DirectInv, DirectType
    <3> QED BY <2>1, <3>1, <3>2, WaitingInTime DEF DirectInv
  <2> QED BY <2>2, <2>3, <2>4 DEF DirectNext
<1> QED BY <1>1, <1>2, PTL DEF DirectSpec, DirectInv
-----------------------------------------------------------------------------
(* The offer.                                                              *)

\* A slot after the one of time t has its deadline ahead.
LEMMA LaterSlotIsOpen ==
    ASSUME NEW t \in Nat, NEW s \in Nat, s > current_slot_estimate(t)
    PROVE  is_within_constraint_window(s, t)
<1> DEFINE D == SLOT_DURATION_SECONDS
<1>1. D \in Nat \ {0} /\ s * D \in Nat
  BY TimingAssumption
<1>2. CASE t < GENESIS_TIME
  BY <1>1, <1>2, TimingAssumption DEF is_within_constraint_window, constraint_deadline_for_slot
<1>3. CASE t >= GENESIS_TIME
  <2> DEFINE k == (t - GENESIS_TIME) \div D
  <2>1. k \in Nat /\ t - GENESIS_TIME < (k + 1) * D
    BY <1>1, <1>3, TimingAssumption
  <2>2. s >= k + 1
    BY <1>3, <2>1, TimingAssumption DEF current_slot_estimate
  <2>3. (k + 1) * D <= s * D
    <3> HIDE DEF D, k
    <3> QED BY <1>1, <2>1, <2>2
  <2> HIDE DEF D, k
  <2>4. t < GENESIS_TIME + s * D
    BY <1>1, <2>1, <2>3, TimingAssumption
  <2> QED BY <1>1, <2>4, TimingAssumption
        DEF D, is_within_constraint_window, constraint_deadline_for_slot
<1> QED BY <1>2, <1>3, TimingAssumption

\* Whatever lookahead is configured, no slot the slots method lists closes before
\* the slot under way ends.
THEOREM ListedAreOpen == DirectSpec => []ListedSlotsAreOpen
<1>1. TypeOK => ListedSlotsAreOpen
  <2> SUFFICES ASSUME TypeOK, NEW t \in now .. MaxTime,
                      current_slot_estimate(t) = current_slot_estimate(now),
                      NEW s \in slots_handler(now)
               PROVE  is_within_constraint_window(s, t)
    BY DEF ListedSlotsAreOpen
  <2>1. t \in Nat /\ now \in Nat
    BY SubmissionAssumption DEF TypeOK, SubmissionTypeOK
  <2>2. current_slot_estimate(now) \in Nat
    BY <2>1, CurrentSlotNat
  <2>3. s \in Nat /\ s > current_slot_estimate(now)
    BY <2>2, LookaheadAssumption DEF slots_handler
  <2> QED BY <2>1, <2>3, LaterSlotIsOpen
<1> QED BY <1>1, DirectImplements, TypeCorrect, PTL
================================================================================
