---------------------------- MODULE PreconfPromise ----------------------------
(***************************************************************************)
(* What the gateway promises about a preconfirmation request, told without *)
(* calls, runs, tables or crashes.  A request (named by its hash) is       *)
(* stored; a stored one is promised, that is a signed commitment is handed *)
(* out, at most once; a stored one is posted to the relay as a constraint; *)
(* a posted one is settled, and settled ones need no further work.         *)
(***************************************************************************)
CONSTANTS Hash, Calls

VARIABLES stored, promised, posted, settled

promiseVars == <<stored, promised, posted, settled>>

PromiseInit ==
    /\ stored = {}
    /\ promised = {}
    /\ posted = {}
    /\ settled = {}

Store(h) ==
    /\ stored' = stored \cup {h}
    /\ UNCHANGED <<promised, posted, settled>>

\* At most one call is ever answered with the commitment for h.
Promise(c, h) ==
    /\ h \in stored
    /\ \A e \in Calls : <<e, h>> \notin promised
    /\ promised' = promised \cup {<<c, h>>}
    /\ UNCHANGED <<stored, posted, settled>>

Post(hs) ==
    /\ hs \subseteq stored
    /\ posted' = posted \cup hs
    /\ UNCHANGED <<stored, promised, settled>>

Settle(hs) ==
    /\ hs \subseteq posted
    /\ settled' = settled \cup hs
    /\ UNCHANGED <<stored, promised, posted>>

PromiseNext ==
    \/ \E h \in Hash : Store(h) \/ \E c \in Calls : Promise(c, h)
    \/ \E hs \in SUBSET Hash : Post(hs) \/ Settle(hs)

PromiseSpec == PromiseInit /\ [][PromiseNext]_promiseVars
=============================================================================
