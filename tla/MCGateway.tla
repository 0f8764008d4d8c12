------------------------------ MODULE MCGateway ------------------------------
(***************************************************************************)
(* Small instances of Gateway, on the clock of MCConstraintSubmission.     *)
(***************************************************************************)
EXTENDS Gateway, TLC

CONSTANTS c1, c2, r1, r2, p1, p2, ours, alice, b1, b2

Addr(form) == [account |-> alice, form |-> form]

MCOurCommitter == Addr("lower")
MCScheduled == [s \in Slots |-> p1]
MCHash == CommitmentTypes \X Slots \X Bodies \X Accounts

RequestIn(form, body) ==
    [ctype |-> 1, slot |-> 0, body |-> body, slasher |-> Addr(form)]

MCRequests == {RequestIn("lower", b) : b \in Bodies}
MCAnySpelling == {RequestIn(f, b) : f \in {"lower", "mixed"}, b \in Bodies}

\* The commitments of all requests that can be stored.
MCInputs ==
    {InputOf(q) : q \in {x \in Request : /\ Rejection(x) = "none"
                                        /\ chk_address_format(x.slasher)}}

By(p) == [proposer |-> p, delegate |-> ours, slot |-> 0, verified |-> TRUE,
          committer |-> Addr("lower")]

MCScheduledOnly == {By(p1)}
MCBothProposers == {By(p1), By(p2)}

GatewaySymmetry == Permutations(Calls)
=============================================================================
