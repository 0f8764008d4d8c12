------------------------- MODULE MCDelegationPolling -------------------------
(***************************************************************************)
(* Small instances of DelegationPolling: one validator, one delegation and *)
(* ones that must not be stored.                                           *)
(***************************************************************************)
EXTENDS DelegationPolling, TLC

CONSTANTS v1, ours, other, alice, p1, p2, k1

MCJobs == Polls \cup Cleanups

By(v, s) == [proposer |-> v, delegate |-> ours, slot |-> s, verified |-> TRUE,
             committer |-> [account |-> alice, form |-> "lower"]]

\* One delegation.
MCOne == {By(v1, 0)}

\* The same, and two to be turned down: another gateway's and one badly signed.
MCMixed ==
    {By(v1, 0),
     [By(v1, 0) EXCEPT !.delegate = other],
     [By(v1, 0) EXCEPT !.verified = FALSE]}

=============================================================================
