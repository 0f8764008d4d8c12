--------------------------- MODULE DirectSubmission ---------------------------
(***************************************************************************)
(* submit_constraint_now of services/constraint_submission.rs beside the   *)
(* runs of the job: a caller hands in a payload for a slot and is told     *)
(* whether the relay has it before the slot's deadline.  Nothing is read   *)
(* from or marked in the commitments table.                                *)
(*                                                                         *)
(* A direct message carries the caller's payload, not stored commitments,  *)
(* so it is kept apart from the messages of the job: the relay's copy of   *)
(* it matters only when the caller is told that it is there.               *)
(***************************************************************************)
EXTENDS ConstraintSubmission, SlotsMethod

CONSTANTS
    Calls,          \* calls of submit_constraint_now
    OurCommitter,   \* config.signing.committer_address
    CallInputs      \* bound: the slots and committers the callers name

ASSUME DirectAssumption ==
    /\ OurCommitter \in Address
    /\ CallInputs \subseteq [slot : Slots, committer : Address]

VARIABLES
    dpc,        \* where each call is
    job,        \* what the call is for
    sends,      \* posts of its message so far
    answered    \* calls answered Ok: the delegation used and when

directVars == <<dpc, job, sends, answered>>
dvars == <<vars, directVars>>

NoJob == [slot |-> 0, committer |-> OurCommitter, using |-> {}]

DirectInit ==
    /\ Init
    /\ dpc = [c \in Calls |-> "idle"]
    /\ job = [c \in Calls |-> NoJob]
    /\ sends = [c \in Calls |-> 0]
    /\ answered = {}
-----------------------------------------------------------------------------
\* The call's locals are gone once it has returned; each call is made once.
Return(c) ==
    /\ dpc' = [dpc EXCEPT ![c] = "ended"]
    /\ job' = [job EXCEPT ![c] = NoJob]
    /\ sends' = [sends EXCEPT ![c] = 0]

\* A committer address that is not, letter for letter, the configured one is an
\* error at once; otherwise the delegations of the slot are asked for.
submit_constraint_now(c) ==
    /\ dpc[c] = "idle"
    /\ \E input \in CallInputs :
         IF input.committer # OurCommitter
         THEN Return(c)
         ELSE /\ dpc' = [dpc EXCEPT ![c] = "delegations"]
              /\ job' = [job EXCEPT ![c] = [slot |-> input.slot,
                                            committer |-> input.committer,
                                            using |-> {}]]
              /\ UNCHANGED sends
    /\ UNCHANGED <<answered, vars>>

\* The stored delegations the call may act on.  The query does not order its
\* rows, so which of them find() meets first is open.
Matching(c) ==
    {d \in get_delegations_for_slot(job[c].slot) :
        d.delegate = OurDelegate /\ d.committer = job[c].committer}

\* A delegation is found and the deadline is ahead: the message is signed and
\* posted under a timer that ends with the time left.
PostDirectly(c) ==
    /\ dpc[c] = "delegations"
    /\ now < constraint_deadline_for_slot(job[c].slot)
    /\ \E d \in Matching(c) : job' = [job EXCEPT ![c].using = {d}]
    /\ dpc' = [dpc EXCEPT ![c] = "post"]
    /\ UNCHANGED <<sends, answered, vars>>

\* The query fails, no delegation matches, the configured builder keys do not
\* parse, signing fails or the deadline has come: the call ends with an error.
RefuseDirectly(c) ==
    /\ dpc[c] = "delegations"
    /\ Return(c)
    /\ UNCHANGED <<answered, vars>>

\* 200 or 202 while the timer runs.
DirectAccepted(c) ==
    /\ dpc[c] = "post"
    /\ answered' = answered \cup {[by |-> d, slot |-> job[c].slot, at |-> now] :
                                     d \in job[c].using}
    /\ Return(c)
    /\ UNCHANGED vars

\* The same retry loop as for the job's messages.
DirectUnanswered(c) ==
    /\ dpc[c] = "post"
    /\ IF sends[c] + 1 < max_attempts
       THEN sends' = [sends EXCEPT ![c] = @ + 1] /\ UNCHANGED <<dpc, job>>
       ELSE Return(c)
    /\ UNCHANGED <<answered, vars>>

\* Another 4xx ends the call, and so does the timer.  The time left is a whole
\* number of seconds counted from a clock read in whole seconds, so the timer
\* ends somewhere in the deadline second.
DirectRefused(c) ==
    /\ dpc[c] = "post"
    /\ Return(c)
    /\ UNCHANGED <<answered, vars>>

\* Mutant: the post is awaited without a timer.
NeverOverdue(c) == FALSE

\* The timer of a post has ended before the deadline second is over.
Overdue(c) ==
    dpc[c] = "post" /\ now >= constraint_deadline_for_slot(job[c].slot)

CallStep(c) ==
    \/ submit_constraint_now(c) \/ PostDirectly(c) \/ RefuseDirectly(c)
    \/ DirectAccepted(c) \/ DirectUnanswered(c) \/ DirectRefused(c)

\* The steps of the rest of the gateway.  A crash ends the calls too, and a
\* second is over only when the timers that end in it have fired.
ServiceStep ==
    \/ /\ \/ \E r \in Runs : RunStep(r)
          \/ LateDelivery
          \/ HandlerStores \/ PollerStores \/ PollerDeactivates
       /\ UNCHANGED directVars
    \/ /\ Tick
       /\ \A c \in Calls : ~Overdue(c)
       /\ UNCHANGED directVars
    \/ /\ Restart
       /\ dpc' = [c \in Calls |-> IF dpc[c] = "idle" THEN "idle" ELSE "ended"]
       /\ job' = [c \in Calls |-> NoJob]
       /\ sends' = [c \in Calls |-> 0]
       /\ UNCHANGED answered

DirectNext == ServiceStep \/ \E c \in Calls : CallStep(c)

DirectSpec == DirectInit /\ [][DirectNext]_dvars
-----------------------------------------------------------------------------
(* Properties.                                                             *)

\* A caller who is told Ok has its constraint at the relay inside the slot's
\* submission window, under a stored delegation of that slot to this gateway.
\* The timer can overrun the deadline by what the whole-second clock hides; the
\* window includes the deadline second, and that absorbs it.
DirectInTime ==
    \A a \in answered :
        /\ is_within_constraint_window(a.slot, a.at)
        /\ a.by \in delegations
        /\ a.by.slot = a.slot
        /\ a.by.delegate = OurDelegate

\* Until the slot under way ends, the window of every slot the slots method
\* lists is open: a client that acts on the answer within its slot is not late.
ListedSlotsAreOpen ==
    \A t \in now .. MaxTime :
        current_slot_estimate(t) = current_slot_estimate(now) =>
            \A s \in slots_handler(now) : is_within_constraint_window(s, t)
=============================================================================
