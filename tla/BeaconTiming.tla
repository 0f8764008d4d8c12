----------------------------- MODULE BeaconTiming -----------------------------
(***************************************************************************)
(* Slot arithmetic of types/beacon.rs.  Every function of the source that  *)
(* reads the system clock takes the clock as its last parameter here.      *)
(***************************************************************************)
EXTENDS Naturals, Integers

CONSTANTS
    GENESIS_TIME,                     \* config.beacon_api.genesis_time
    SLOT_DURATION_SECONDS,            \* 12 in the code
    CONSTRAINTS_SUBMISSION_DEADLINE   \* 8 in the code

ASSUME TimingAssumption ==
    /\ GENESIS_TIME \in Nat
    /\ SLOT_DURATION_SECONDS \in Nat \ {0}
    /\ CONSTRAINTS_SUBMISSION_DEADLINE \in Nat
    /\ CONSTRAINTS_SUBMISSION_DEADLINE < SLOT_DURATION_SECONDS

current_slot_estimate(now) ==
    IF now < GENESIS_TIME THEN 0
    ELSE (now - GENESIS_TIME) \div SLOT_DURATION_SECONDS

constraint_deadline_for_slot(slot) ==
    GENESIS_TIME + slot * SLOT_DURATION_SECONDS + CONSTRAINTS_SUBMISSION_DEADLINE

\* The deadline second itself is still inside the window.
is_within_constraint_window(slot, now) ==
    now <= constraint_deadline_for_slot(slot)
=============================================================================
