-------------------------- MODULE MCCommitmentHandler --------------------------
(***************************************************************************)
(* Small instances of CommitmentHandler: one request that is good, the     *)
(* same with the slasher in another form, and one for each way to be       *)
(* turned down before the first await.                                     *)
(***************************************************************************)
EXTENDS CommitmentHandler, TLC

CONSTANTS c1, c2, p1, p2, ours, alice, bob, b1, b2

Addr(who, form) == [account |-> who, form |-> form]

MCOurCommitter == Addr(alice, "mixed")

MCScheduled == [s \in Slots |-> IF s = 0 THEN p1 ELSE NoProposer]

Good == [ctype |-> 1, slot |-> 0, body |-> b1, slasher |-> Addr(alice, "lower")]

MCRequests ==
    {Good,
     [Good EXCEPT !.slasher.form = "mixed"],
     [Good EXCEPT !.slasher.form = "upperX"],
     [Good EXCEPT !.slasher.form = "bare"],
     [Good EXCEPT !.slasher.account = bob],
     [Good EXCEPT !.ctype = 2],
     [Good EXCEPT !.slot = NoSlot],
     [Good EXCEPT !.slot = 1],
     [Good EXCEPT !.body = b2]}

MCHash ==
    CommitmentTypes \X Slots \X Bodies \X Accounts

By(p, s, ok) == [proposer |-> p, delegate |-> ours, slot |-> s, verified |-> ok,
                 committer |-> Addr(alice, "lower")]

\* The scheduled proposer's delegation, the same stored with a signature that
\* no longer verifies (the domain of the configuration has changed), another
\* proposer's, and one for a slot whose proposer the beacon node does not know.
MCDelegations ==
    {By(p1, 0, TRUE), By(p1, 0, FALSE), By(p2, 0, TRUE), By(p1, 1, TRUE)}

CallSymmetry == Permutations(Calls)
=============================================================================
