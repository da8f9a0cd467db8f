----------------------------- MODULE MCWorkflows -----------------------------
(* Model checking of Workflows.  The initial states of the modules that have *)
(* several are tried only where a behaviour is about them.                   *)
EXTENDS Workflows

CONSTANTS qa, qb, o1, p1, p2, w1, w2, s1, c1

MCInit ==
    /\ ChatInit
    /\ part # "question" => ids = <<>> /\ ~secret
    /\ part # "approval" =>
          request = [method |-> "permissions", names |-> {}, listed |-> FALSE,
                     decisions |-> {}, permissions |-> "empty"]
MCSpec == MCInit /\ [][ChatNext]_allVars
==============================================================================
