----------------------------- MODULE SlotsMethod -----------------------------
(***************************************************************************)
(* The slots method (slots_handler of rpc/handlers.rs): the slots the      *)
(* gateway offers commitments for, computed from the clock alone.          *)
(***************************************************************************)
EXTENDS BeaconTiming

CONSTANTS
    SLOTS_PER_EPOCH,    \* 32 in the code
    LookaheadEpochs     \* config.delegation.lookahead_epochs

ASSUME LookaheadAssumption == SLOTS_PER_EPOCH \in Nat \ {0} /\ LookaheadEpochs \in Nat

\* Mutant: the offer starts with the slot that is under way.
slots_handler_from_current(now) ==
    LET start_slot == current_slot_estimate(now)
    IN  start_slot .. start_slot + LookaheadEpochs * SLOTS_PER_EPOCH - 1

\* The answer starts at the next slot and covers the lookahead, whether or not a
\* delegation for any of the slots is stored.  Every entry carries the same
\* offering (one chain, inclusion commitments only), which is left out.
slots_handler(now) ==
    LET start_slot == current_slot_estimate(now) + 1
    IN  start_slot .. start_slot + LookaheadEpochs * SLOTS_PER_EPOCH - 1
=============================================================================
