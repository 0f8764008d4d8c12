-------------------------- MODULE MCDirectSubmission --------------------------
(***************************************************************************)
(* A direct submission for slot 0 beside the runs of the job, and one that *)
(* names the configured committer in another way of writing it.            *)
(***************************************************************************)
EXTENDS DirectSubmission, MCConstraintSubmission

CONSTANT c1

MCCalls ==
    {[slot |-> 0, committer |-> lower],
     [slot |-> 0, committer |-> [lower EXCEPT !.form = "mixed"]]}
=============================================================================
