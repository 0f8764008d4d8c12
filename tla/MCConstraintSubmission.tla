------------------------ MODULE MCConstraintSubmission ------------------------
(***************************************************************************)
(* A small instance of ConstraintSubmission.  A slot lasts three ticks of  *)
(* the clock: one before the deadline, the deadline second and one after   *)
(* it; the runs see all three of slot 0.                                   *)
(***************************************************************************)
EXTENDS ConstraintSubmission, TLC

CONSTANTS h1, h2, p1, ours, other, alice, r1, r2

lower == [account |-> alice, form |-> "lower"]

MCSlots == {0, 1}

\* Two commitments for slot 0.
MCCommitments ==
    {[hash |-> h, ctype |-> 1, slot |-> 0, slasher |-> lower] : h \in Hash}

\* The proposer of slot 0 has delegated to us and to another gateway.
MCDelegations ==
    {[proposer |-> p1, delegate |-> d, committer |-> lower, slot |-> 0,
      verified |-> TRUE] : d \in {ours, other}}

\* No action tells two runs, or two commitments of the same slot, apart.
RunSymmetry == Permutations(Runs) \cup Permutations(Hash)
=============================================================================
