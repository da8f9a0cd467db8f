--------------------------- MODULE MCPromptPipeline ---------------------------
(* Model checking of PromptPipeline: one session, few prompts and turns.  A *)
(* run explores the scenarios its configuration names, each with bounds of  *)
(* its own; the constants of PromptPipeline are the largest of them.        *)
EXTENDS PromptPipeline, TLC

CONSTANTS m1, m2, Scenarios

VARIABLE scenario

None == [what \in DOMAIN Limits |-> 0]
Bounds(prompts, keys, turns, spend) ==
    [prompts |-> prompts, keys |-> keys, turns |-> turns, budget |-> spend @@ None]

BoundsOf ==
    [race |-> Bounds({m1}, 2, 2,
                [cancel |-> 1, withdraw |-> 1, fail |-> 1, error |-> 1]),
     outcomes |-> Bounds({m1, m2}, 1, 3, [cancel |-> 1, lose |-> 1]),
     restart |-> Bounds({m1}, 1, 2, [elsewhere |-> 1, lose |-> 1, crash |-> 1]),
     review |-> Bounds({m1}, 1, 2, [review |-> 1, crash |-> 1]),
     serial |-> Bounds({m1}, 3, 4, [withdraw |-> 1]),
     queues |-> Bounds({}, 3, 3, [error |-> 1]),
     idle |-> Bounds({m1}, 1, 2, [crash |-> 1]),
     stranded |-> Bounds({m1}, 1, 2, None)]

Within(b) ==
    /\ \A m \in Prompts : (intent[m] # "absent" \/ item["chat"] = m) => m \in b.prompts
    /\ \A k \in Keys : (status[k] # "absent" \/ item["chat"] = k) => k <= b.keys
    /\ \A what \in DOMAIN Limits : budget[what] <= b.budget[what]

\* In the scenario "serial" no two handlers overlap.
Step ==
    /\ UNCHANGED scenario
    /\ Within(BoundsOf[scenario])'
    /\ scenario = "serial" =>
         \A p, q \in Tasks : p # q /\ pc'[p] # pc[p] => pc[q] = "idle"

\* The turns beyond the bound are of the past.
MCInit ==
    /\ Init /\ scenario \in Scenarios
    /\ Cardinality({t \in Turns : serverTurn[t] = "none"}) = BoundsOf[scenario].turns
MCSpec == MCInit /\ [][Next /\ Step]_<<vars, scenario>>

\* Both tasks are scheduled, every call ends, the bridge is restarted (the
\* fairness of PromptPipeline).  In the scenarios about the queue, turns end
\* sooner or later.
MCFairSpec ==
    /\ MCSpec
    /\ WF_vars(ChatStep /\ Step) /\ WF_vars(EventStep /\ Step)
    /\ WF_vars(Restart /\ Step) /\ WF_vars(Hydrate /\ Step)
    /\ \A p \in Tasks : /\ WF_vars(DispatchStep(p) /\ Step)
                        /\ WF_vars((Serve(p) \/ ServeRefused(p)) /\ Step)
    /\ \A t \in Turns :
         WF_vars(scenario \in {"serial", "stranded"} /\ TurnEnds(t) /\ Step)

------------------------------------------------------------------------------
\* The bridge submits an entry only while the app-server runs no turn:
\* daemon.rs:1865, "Rust Bridge submits when the Session is idle".
SubmittedWhenIdle ==
    [][\A k \in Keys : Submits(k) /\ scenario \in {"serial", "queues", "idle"} =>
          \A t \in Turns : serverTurn[t] # "active"]_vars

\* daemon.rs:1863, "submitted in order once the current turn has completed":
\* every entry that waits is submitted in the end.
QueuedIsSubmitted ==
    \A k \in Keys :
      scenario \in {"serial", "stranded"} /\ status[k] = "queued" ~> status[k] # "queued"
==============================================================================
