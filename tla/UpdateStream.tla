----------------------------- MODULE UpdateStream -----------------------------
(***************************************************************************)
(* What the update machinery of a bot promises, without poller, channels,  *)
(* workers, crashes or restarts: an update is handled at least once, and   *)
(* updates are confirmed one by one, in Telegram's order, each only after  *)
(* a handler has run to its end for it.                                    *)
(***************************************************************************)
EXTENDS Naturals

CONSTANT MaxId   \* BOUND: update ids are 1..MaxId

VARIABLES
    arrived,     \* updates users have produced
    done,        \* updates handled to the end, at least once
    processed    \* updates confirmed

vars == <<arrived, done, processed>>

Init == arrived = {} /\ done = {} /\ processed = {}

Arrive(id) ==
    /\ \A x \in arrived : x < id
    /\ arrived' = arrived \cup {id}
    /\ UNCHANGED <<done, processed>>

Handle(id) ==
    /\ id \in arrived
    /\ done' = done \cup {id}
    /\ UNCHANGED <<arrived, processed>>

Confirm(id) ==
    /\ id \in done \ processed
    /\ \A x \in arrived : x < id => x \in processed
    /\ processed' = processed \cup {id}
    /\ UNCHANGED <<arrived, done>>

Next == \E id \in 1..MaxId : Arrive(id) \/ Handle(id) \/ Confirm(id)

Spec == Init /\ [][Next]_vars
==============================================================================
