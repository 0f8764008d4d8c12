-------------------------------- MODULE Metrics --------------------------------
(***************************************************************************)
(* The gauges a process exports (metrics.rs) and the task that refreshes   *)
(* them every 15 seconds from the tables (main.rs), with the statistics    *)
(* queries it uses.  Each query is one statement, so it sees one state of  *)
(* its table; the groups of gauges are refreshed one after the other.      *)
(* Every gauge is an atomic of its own: those of a group are set one by    *)
(* one after the answer, while the jobs go on and the task of the metrics  *)
(* server may read them.                                                   *)
(*                                                                         *)
(* The gauges of congestion and of prices are floats and a slot number     *)
(* that nothing else refers to: their turn is kept, their values are not.  *)
(***************************************************************************)
EXTENDS CommitmentStore, DelegationStore, FiniteSets

VARIABLES
    gauges,      \* the gauges of one process
    pending,     \* what its updater has still to set, gauge by gauge
    group        \* the group of gauges it asks for next

statsVars == <<commitments, delegations, deactivated>>
updaterVars == <<gauges, pending, group>>
metricsVars == <<statsVars, updaterVars>>

Groups == {"commitments", "delegations", "others"}

\* Mutant: the active delegations are set before the total.
Place_active_first ==
    [commitments_total |-> 1, commitments_by_type |-> 2,
     delegations_total |-> 2, delegations_active |-> 1, unique_proposers |-> 3,
     unique_delegates |-> 4, slots_covered |-> 5]

\* The gauges, each with its place among the set() calls of its group.
Place ==
    [commitments_total |-> 1, commitments_by_type |-> 2,
     delegations_total |-> 1, delegations_active |-> 2, unique_proposers |-> 3,
     unique_delegates |-> 4, slots_covered |-> 5]

Gauges == DOMAIN Place

GaugesTypeOK ==
    /\ gauges \in [Gauges -> Nat]
    /\ \E gs \in SUBSET Gauges : pending \in [gs -> Nat]
    /\ group \in Groups

\* MetricsRegistry::new: a gauge that was never set is not exported; 0 stands
\* for that as well.
no_gauges == [g \in Gauges |-> 0]

nothing == [g \in {} |-> 0]
-----------------------------------------------------------------------------
(* The statistics queries.                                                 *)

StoredHashes == {h \in Hash : commitment_exists(h)}

get_commitment_stats ==
    [total_count |-> Cardinality(StoredHashes),
     commitment_type_1_count |->
        Cardinality({h \in StoredHashes : commitments[h].ctype = 1})]

ActiveDelegations == delegations \ deactivated

\* Mutant: only active rows are counted.
get_delegation_stats_active ==
    [total_count |-> Cardinality(ActiveDelegations),
     active_count |-> Cardinality(ActiveDelegations),
     unique_proposers |-> Cardinality({d.proposer : d \in ActiveDelegations}),
     unique_delegates |-> Cardinality({d.delegate : d \in ActiveDelegations}),
     slots_covered |-> Cardinality({d.slot : d \in ActiveDelegations})]

\* Totals and distinct keys are over all rows, slots over the active ones.
get_delegation_stats ==
    [total_count |-> Cardinality(delegations),
     active_count |-> Cardinality(ActiveDelegations),
     unique_proposers |-> Cardinality({d.proposer : d \in delegations}),
     unique_delegates |-> Cardinality({d.delegate : d \in delegations}),
     slots_covered |-> Cardinality({d.slot : d \in ActiveDelegations})]
-----------------------------------------------------------------------------
(* Setting the gauges.                                                     *)

update_commitment_stats(total, type_1) ==
    pending' = [commitments_total |-> total, commitments_by_type |-> type_1]

update_delegation_stats(total, active, proposers, delegates, slots) ==
    pending' = [delegations_total |-> total, delegations_active |-> active,
                unique_proposers |-> proposers, unique_delegates |-> delegates,
                slots_covered |-> slots]

\* The next set() call of the group.
SetGauge ==
    /\ \E g \in DOMAIN pending :
         /\ \A f \in DOMAIN pending : Place[g] <= Place[f]
         /\ gauges' = [gauges EXCEPT ![g] = pending[g]]
         /\ pending' = [f \in DOMAIN pending \ {g} |-> pending[f]]
    /\ UNCHANGED <<statsVars, group>>
-----------------------------------------------------------------------------
(* One turn of the updater's loop.                                         *)

\* The updater asks for the next group when it has set the last one.
Asks(g) == group = g /\ DOMAIN pending = {}

UpdateCommitments ==
    /\ Asks("commitments")
    /\ group' = "delegations"
    /\ LET s == get_commitment_stats IN
       update_commitment_stats(s.total_count, s.commitment_type_1_count)
    /\ UNCHANGED <<statsVars, gauges>>

UpdateDelegations ==
    /\ Asks("delegations")
    /\ group' = "others"
    /\ LET s == get_delegation_stats IN
       update_delegation_stats(s.total_count, s.active_count, s.unique_proposers,
                               s.unique_delegates, s.slots_covered)
    /\ UNCHANGED <<statsVars, gauges>>

\* The congestion of slots and the prices, whether they are answered or not.
UpdateOthers ==
    /\ Asks("others")
    /\ group' = "commitments"
    /\ UNCHANGED <<statsVars, gauges, pending>>

\* A query that fails leaves its gauges as they are.
UpdateFails ==
    /\ \/ Asks("commitments") /\ group' = "delegations"
       \/ Asks("delegations") /\ group' = "others"
    /\ UNCHANGED <<statsVars, gauges, pending>>

Update ==
    \/ UpdateCommitments \/ UpdateDelegations \/ UpdateOthers \/ UpdateFails
    \/ SetGauge
-----------------------------------------------------------------------------
(* Properties.                                                             *)

\* Although the gauges of a group are set one by one while rows come and are
\* deactivated: at every moment there are no more inclusion commitments than
\* commitments, and no more active delegations, distinct proposers or delegates
\* than delegations, because each total is set first and never falls.  Slots
\* covered may exceed the active delegations while the two are being set, and at
\* no other time.
GaugesCoherent ==
    /\ gauges.commitments_by_type <= gauges.commitments_total
    /\ gauges.delegations_active <= gauges.delegations_total
    /\ gauges.unique_proposers <= gauges.delegations_total
    /\ gauges.unique_delegates <= gauges.delegations_total
    /\ "slots_covered" \notin DOMAIN pending =>
          gauges.slots_covered <= gauges.delegations_active
================================================================================
