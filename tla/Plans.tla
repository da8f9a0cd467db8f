-------------------------------- MODULE Plans --------------------------------
(* Plans Codex proposes and the decisions on them (daemon.rs).  The event    *)
(* task publishes a plan with an "execute" and a "revise" button and closes  *)
(* plans when a turn ends; the worker of the chat publishes on /plan and     *)
(* handles buttons and replies.  Both write the status of a publication      *)
(* without comparing it to the one they read.  One connection generation:    *)
(* buttons of an earlier one are refused before anything is changed.         *)
EXTENDS Naturals, FiniteSets

CONSTANTS
    PlanIds,      \* revisions of the plan, each with a key of its own
    MaxTurns,     \* bound on turns
    MaxFaults,    \* bound on failed calls of Telegram and the app-server
    NoPlan        \* a task without a plan

VARIABLES
    status,       \* of each publication, "none" before it is stored
    buttons,      \* live callbacks: <<plan, decision>>
    shown,        \* plans whose message Telegram shows
    prompted,     \* revision prompt message known to the publication
    intents,      \* plans whose feedback has a prompt intent
    pc, plan,     \* of the two tasks
    decision,     \* the decision the chat worker handles
    turn,         \* a turn runs
    turns,        \* turns started so far
    started,      \* history: turns an "execute" has started, by plan
    revised,      \* history: feedback the app-server was sent, by plan
    republished,  \* history: plans two tasks published at the same time
    faults
taskVars == <<pc, plan, decision>>
historyVars == <<started, revised, republished>>
vars == <<status, buttons, shown, prompted, intents, taskVars, turn, turns, historyVars, faults>>

Tasks == {"events", "chat"}
Decisions == {"execute", "revise"}
Status == {"none", "published", "superseded", "failed", "executing", "executed", "revising",
           "revisionstarted"}

TypeOK ==
    /\ status \in [PlanIds -> Status]
    /\ buttons \subseteq PlanIds \X Decisions
    /\ shown \subseteq PlanIds /\ prompted \subseteq PlanIds
    /\ intents \subseteq PlanIds /\ republished \subseteq PlanIds
    /\ pc \in [Tasks -> {"idle", "send", "store", "begin", "call", "record", "feedback", "note"}]
    /\ plan \in [Tasks -> PlanIds \cup {NoPlan}] /\ decision \in Decisions \cup {NoPlan}
    /\ turn \in BOOLEAN /\ turns \in 0..MaxTurns
    /\ started \in [PlanIds -> Nat] /\ revised \in [PlanIds -> Nat] /\ faults \in 0..MaxFaults

Init ==
    /\ status = [p \in PlanIds |-> "none"]
    /\ buttons = {} /\ shown = {} /\ prompted = {} /\ intents = {}
    /\ pc = [t \in Tasks |-> "idle"] /\ plan = [t \in Tasks |-> NoPlan]
    /\ decision = NoPlan
    /\ turn = FALSE /\ turns = 0
    /\ started = [p \in PlanIds |-> 0] /\ revised = [p \in PlanIds |-> 0]
    /\ republished = {} /\ faults = 0

Fault == faults < MaxFaults /\ faults' = faults + 1

Idle(t) ==
    /\ pc' = [pc EXCEPT ![t] = "idle"] /\ plan' = [plan EXCEPT ![t] = NoPlan]
    /\ UNCHANGED decision
At(t, p, where) ==
    /\ pc' = [pc EXCEPT ![t] = where] /\ plan' = [plan EXCEPT ![t] = p]
    /\ UNCHANGED decision
Becomes(p, new) == status' = [status EXCEPT ![p] = new]

------------------------------------------------------------------------------
(* publish_plan_message *)

Markup(p) == {p} \X Decisions

\* A plan without a record supersedes those still open and gets its buttons.
Publish(t, p) ==
    /\ pc[t] = "idle" /\ status[p] = "none" /\ turns > 0
    /\ status' = [q \in PlanIds |-> IF status[q] = "published" THEN "superseded" ELSE status[q]]
    /\ buttons' = buttons \cup Markup(p)
    /\ republished' = IF p \in {plan[s] : s \in Tasks} THEN republished \cup {p} ELSE republished
    /\ At(t, p, "send")
    /\ UNCHANGED <<shown, prompted, intents, turn, turns, started, revised, faults>>

\* An item of a turn is a plan; /plan looks for the last one of the thread.
PlanItem(p) == Publish("events", p)
PlanCommand(p) == Publish("chat", p)

Send(t) ==
    /\ pc[t] = "send"
    /\ shown' = shown \cup {plan[t]}
    /\ At(t, plan[t], "store")
    /\ UNCHANGED <<status, buttons, prompted, intents, turn, turns, historyVars, faults>>

SendFails(t) ==
    /\ pc[t] = "send" /\ Fault
    /\ shown' \in {shown, shown \cup {plan[t]}}
    /\ Becomes(plan[t], "failed")
    /\ Idle(t)
    /\ UNCHANGED <<buttons, prompted, intents, turn, turns, historyVars>>

Store(t) ==
    /\ pc[t] = "store"
    /\ Becomes(plan[t], "published")
    /\ Idle(t)
    /\ UNCHANGED <<buttons, shown, prompted, intents, turn, turns, historyVars, faults>>

------------------------------------------------------------------------------
(* handle_plan_callback *)

\* A button is taken only once, and counts for an open publication.
PressAnyStatus(p, d) ==
    /\ pc["chat"] = "idle" /\ <<p, d>> \in buttons /\ p \in shown
    /\ buttons' = buttons \ {<<p, d>>}
    /\ pc' = [pc EXCEPT !["chat"] = "begin"] /\ plan' = [plan EXCEPT !["chat"] = p]
    /\ decision' = d
    /\ UNCHANGED <<status, shown, prompted, intents, turn, turns, historyVars, faults>>

Press(p, d) ==
    /\ pc["chat"] = "idle" /\ <<p, d>> \in buttons /\ p \in shown
    /\ buttons' = buttons \ {<<p, d>>}
    /\ IF status[p] = "published"
       THEN /\ pc' = [pc EXCEPT !["chat"] = "begin"] /\ plan' = [plan EXCEPT !["chat"] = p]
            /\ decision' = d
       ELSE UNCHANGED taskVars
    /\ UNCHANGED <<status, shown, prompted, intents, turn, turns, historyVars, faults>>

Begin ==
    /\ pc["chat"] = "begin"
    /\ Becomes(plan["chat"], IF decision = "execute" THEN "executing" ELSE "revising")
    /\ At("chat", plan["chat"], "call")
    /\ UNCHANGED <<buttons, shown, prompted, intents, turn, turns, historyVars, faults>>

\* The store refuses the status: the button comes back all the same.
StoreFails ==
    /\ pc["chat"] \in {"begin", "record"} /\ Fault
    /\ buttons' = buttons \cup {<<plan["chat"], decision>>}
    /\ Idle("chat")
    /\ UNCHANGED <<status, shown, prompted, intents, turn, turns, historyVars>>

\* Steer the turn that runs, or start one.
RunTurn == turn' = TRUE /\ turns' = (IF turn THEN turns ELSE turns + 1) /\ turns' <= MaxTurns

Execute ==
    /\ pc["chat"] = "call" /\ decision = "execute"
    /\ RunTurn
    /\ started' = [started EXCEPT ![plan["chat"]] = @ + 1]
    /\ At("chat", plan["chat"], "record")
    /\ UNCHANGED <<status, buttons, shown, prompted, intents, revised, republished, faults>>

\* The message that asks for the feedback.
AskFeedback ==
    /\ pc["chat"] = "call" /\ decision = "revise"
    /\ At("chat", plan["chat"], "record")
    /\ UNCHANGED <<status, buttons, shown, prompted, intents, turn, turns, historyVars, faults>>

\* The button comes back and the plan is open again, although the call may
\* have taken effect.
CallFails ==
    /\ pc["chat"] = "call" /\ Fault
    /\ \/ decision = "execute" /\ RunTurn
          /\ started' = [started EXCEPT ![plan["chat"]] = @ + 1]
       \/ UNCHANGED <<turn, turns, started>>
    /\ buttons' = buttons \cup {<<plan["chat"], decision>>}
    /\ Becomes(plan["chat"], "published")
    /\ Idle("chat")
    /\ UNCHANGED <<shown, prompted, intents, revised, republished>>

\* The status is written a second time, with the turn or the prompt.
Record ==
    /\ pc["chat"] = "record"
    /\ Becomes(plan["chat"], IF decision = "execute" THEN "executing" ELSE "revising")
    /\ prompted' = IF decision = "revise" THEN prompted \cup {plan["chat"]} ELSE prompted
    /\ Idle("chat")
    /\ UNCHANGED <<buttons, shown, intents, turn, turns, historyVars, faults>>

------------------------------------------------------------------------------
(* revising_plan_for_reply, submit_plan_revision_feedback *)

\* Feedback has an intent of its own, stored before the call: it is not
\* submitted a second time.
Feedback(p) ==
    /\ pc["chat"] = "idle" /\ status[p] = "revising" /\ p \in prompted \ intents
    /\ intents' = intents \cup {p}
    /\ At("chat", p, "feedback")
    /\ UNCHANGED <<status, buttons, shown, prompted, turn, turns, historyVars, faults>>

SubmitFeedback ==
    /\ pc["chat"] = "feedback"
    /\ RunTurn
    /\ revised' = [revised EXCEPT ![plan["chat"]] = @ + 1]
    /\ At("chat", plan["chat"], "note")
    /\ UNCHANGED <<status, buttons, shown, prompted, intents, started, republished, faults>>

FeedbackFails ==
    /\ pc["chat"] = "feedback" /\ Fault
    /\ \/ RunTurn /\ revised' = [revised EXCEPT ![plan["chat"]] = @ + 1]
       \/ UNCHANGED <<turn, turns, revised>>
    /\ Idle("chat")
    /\ UNCHANGED <<status, buttons, shown, prompted, intents, started, republished>>

Note ==
    /\ pc["chat"] = "note"
    /\ Becomes(plan["chat"], "revisionstarted")
    /\ prompted' = prompted \ {plan["chat"]}
    /\ Idle("chat")
    /\ UNCHANGED <<buttons, shown, intents, turn, turns, historyVars, faults>>

------------------------------------------------------------------------------
\* mark_turn_workflows: the end of any turn closes the plans under way.
TurnEnds(outcome) ==
    /\ turn /\ pc["events"] = "idle"
    /\ turn' = FALSE
    /\ status' = [p \in PlanIds |->
           IF outcome = "completed" /\ status[p] = "executing" THEN "executed"
           ELSE IF outcome = "failed" /\ status[p] \in {"executing", "revising"} THEN "failed"
           ELSE status[p]]
    /\ UNCHANGED <<buttons, shown, prompted, intents, taskVars, turns, historyVars, faults>>

\* A prompt of the user.
Prompt ==
    /\ ~turn /\ turns < MaxTurns
    /\ turn' = TRUE /\ turns' = turns + 1
    /\ UNCHANGED <<status, buttons, shown, prompted, intents, taskVars, historyVars, faults>>

Next ==
    \/ \E p \in PlanIds : PlanItem(p) \/ PlanCommand(p)
    \/ \E t \in Tasks : Send(t) \/ SendFails(t) \/ Store(t)
    \/ \E p \in PlanIds, d \in Decisions : Press(p, d)
    \/ Begin \/ StoreFails \/ Execute \/ AskFeedback \/ CallFails \/ Record
    \/ \E p \in PlanIds : Feedback(p)
    \/ SubmitFeedback \/ FeedbackFails \/ Note
    \/ \E outcome \in {"completed", "failed"} : TurnEnds(outcome)
    \/ Prompt

Spec == Init /\ [][Next]_vars

------------------------------------------------------------------------------
\* A plan is decided once: executed, or sent back with feedback, not both and
\* not twice, as long as no call fails and one task publishes it.
OneDecision ==
    \A p \in PlanIds \ republished : faults = 0 => started[p] + revised[p] <= 1
==============================================================================
