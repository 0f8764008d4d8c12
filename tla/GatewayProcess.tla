---------------------------- MODULE GatewayProcess ----------------------------
(***************************************************************************)
(* Replicas of the gateway (Process) with what their jobs do to the tables *)
(* and the gauges of one of them (Metrics).  The jobs themselves are       *)
(* modelled in DelegationPolling, ConstraintSubmission and                 *)
(* CommitmentHandler; here they are reduced to the rows they write.        *)
(***************************************************************************)
EXTENDS Process, Metrics

CONSTANTS
    Observed,           \* the replica whose gauges are looked at
    CommitmentInputs,   \* commitments a serving replica may store
    DelegationInputs    \* delegations a poll may store

ASSUME ObservedAssumption ==
    /\ Observed \in Instances
    /\ CommitmentInputs \subseteq [hash : Hash, ctype : CommitmentTypes,
                                   slot : Slots, slasher : Address]
    /\ DelegationInputs \subseteq Delegation
    /\ IsFiniteSet(DelegationInputs)

allVars == <<processVars, metricsVars>>

TypeOK == ProcessTypeOK /\ CommitmentsTypeOK /\ DelegationsTypeOK /\ GaugesTypeOK

Init ==
    /\ ProcessInit
    /\ commitments = [h \in Hash |-> NoRow]
    /\ delegations = {}
    /\ deactivated = {}
    /\ gauges = no_gauges
    /\ pending = nothing
    /\ group = "commitments"

\* A step of the processes.  A new process has a registry of its own.
ProcessStep ==
    /\ ProcessNext
    /\ IF stage'[Observed] = "off"
       THEN gauges' = no_gauges /\ pending' = nothing /\ group' = "commitments"
       ELSE UNCHANGED updaterVars
    /\ UNCHANGED statsVars

UpdaterStep ==
    /\ "updater" \in jobs[Observed]
    /\ Update
    /\ UNCHANGED processVars

\* commitment_request of a serving replica.
RequestStores ==
    /\ \E i \in Instances : stage[i] = "serving"
    /\ \E c \in CommitmentInputs :
          save_commitment(c.hash, NewRow(c.ctype, c.slot, c.slasher))
    /\ UNCHANGED <<processVars, delegations, deactivated, updaterVars>>

\* A poll, the one at start-up or one of the cron job, of any replica.
PollStores ==
    /\ \E i \in Instances : "poll" \in jobs[i]
    /\ \E ds \in SUBSET DelegationInputs : save_delegations_batch(ds)
    /\ UNCHANGED <<processVars, commitments, updaterVars>>

CleanupDeactivates ==
    /\ \E i \in Instances : "cleanup" \in jobs[i]
    /\ \E ds \in SUBSET ActiveDelegations : deactivate(ds)
    /\ UNCHANGED <<processVars, commitments, updaterVars>>

Next ==
    \/ ProcessStep \/ UpdaterStep
    \/ RequestStores \/ PollStores \/ CleanupDeactivates

Spec == Init /\ [][Next]_allVars

FairSpec == Spec /\ MainFairness
-----------------------------------------------------------------------------
\* The totals a process exports never fall while it lives: commitments and
\* delegations are never deleted, only marked, by whatever job of whatever replica.
TotalsNeverFall ==
    [][stage'[Observed] # "off" =>
          /\ gauges'.commitments_total >= gauges.commitments_total
          /\ gauges'.commitments_by_type >= gauges.commitments_by_type
          /\ gauges'.delegations_total >= gauges.delegations_total
          /\ gauges'.unique_proposers >= gauges.unique_proposers]_allVars
================================================================================
