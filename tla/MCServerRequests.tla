-------------------------- MODULE MCServerRequests --------------------------
(* Model checking of ServerRequests: few requests, presses and connections. *)
EXTENDS ServerRequests, TLC

CONSTANTS r1, r2, r3

\* The safety properties treat all requests alike.
SomeRequest == Permutations({r1, r2})
==============================================================================
