------------------------------ MODULE NewWizard ------------------------------
(* /new in one control chat (daemon.rs): a draft is kept twice, as a         *)
(* workflow record (phase, payload, revision) and as a control interaction   *)
(* with a revision and a claim; its buttons belong to a revision.  The       *)
(* worker of the chat handles the command, buttons and texts; the expirer    *)
(* ends drafts whose deadline has passed.  The payload is the set of keys    *)
(* that are chosen.  One user: drafts and buttons of others are refused.     *)
EXTENDS Naturals, FiniteSets

CONSTANTS
    MaxRevision,   \* bound on steps of a draft
    MaxDrafts,     \* bound on interactions created, and so on space ids
    MaxFaults      \* bound on failed calls, leases overrun, crashes, and drafts that a
                   \* further /new replaces

VARIABLES
    record,        \* the workflow record "new"
    recordLate,    \* its deadline has passed
    inter,         \* the control interaction
    interLate,     \* its deadline has passed, and that of its buttons
    buttons,       \* live callbacks: [rev, action]
    pc, draft,     \* of the two tasks: where it is, and the draft it works on
    action,        \* what the chat worker was asked: a button, or "text"
    id,            \* of the two tasks: id of the space it creates
    drafts,        \* interactions created so far
    intended,      \* ids with a pending_space record, and those with the post in it
    spaces,        \* keys chosen for each session space created, by id
    posts,         \* posts of each id in the channel
    faults
taskVars == <<pc, draft, action, id>>
spaceVars == <<intended, spaces, posts>>
draftVars == <<record, recordLate, inter, interLate, buttons, drafts>>
vars == <<draftVars, taskVars, spaceVars, faults>>

Tasks == {"chat", "expirer"}
Keys == {"normal_model", "normal_effort", "plan_model", "plan_effort", "cwd", "project_target",
         "initial_prompt"}
Phases == {"normal_model", "normal_effort", "plan_choice", "plan_model", "plan_effort",
           "project", "project_choice", "project_confirmation", "prompt"}
Actions == {"normal_model", "normal_effort", "plan_yes", "plan_no", "plan_model", "plan_effort",
            "project", "create_project", "hello", "cancel"}
Kinds == {"empty", "profile", "mode", "dir", "dirprompt"}
NoDraft == [phase |-> "none", payload |-> {}, rev |-> 0]
NoInter == [phase |-> "none", payload |-> {}, rev |-> 0, created |-> 0, claim |-> "free"]
Present == record # NoDraft
Ids == 1..MaxDrafts
NoSpace == {"none"}

Drafts == [phase : Phases \cup {"none"}, payload : SUBSET Keys, rev : 0..MaxRevision]
TypeOK ==
    /\ record \in Drafts /\ \A t \in Tasks : draft[t] \in Drafts
    /\ inter.phase \in Phases \cup {"none"} /\ inter.payload \subseteq Keys
    /\ inter.rev \in 0..MaxRevision /\ inter.created \in 0..MaxDrafts
    /\ inter.claim \in {"free", "held", "stale"}
    /\ recordLate \in BOOLEAN /\ interLate \in BOOLEAN
    /\ buttons \subseteq [rev : 0..MaxRevision, action : Actions]
    /\ pc \in [Tasks -> {"idle", "persist", "store", "offer", "advance", "finish", "scan",
                         "create", "post", "space", "clean", "remove"}]
    /\ action \in Actions \cup Kinds \cup {"text"}
    /\ id \in [Tasks -> 0..MaxDrafts] /\ drafts \in 0..MaxDrafts
    /\ intended \subseteq Ids \X {"intent", "post"}
    /\ \A i \in Ids : spaces[i] = NoSpace \/ spaces[i] \subseteq Keys
    /\ posts \in [Ids -> Nat]
    /\ faults \in 0..MaxFaults

Init ==
    /\ record = NoDraft /\ recordLate = FALSE
    /\ inter = NoInter /\ interLate = FALSE /\ buttons = {} /\ drafts = 0
    /\ pc = [t \in Tasks |-> "idle"] /\ draft = [t \in Tasks |-> NoDraft]
    /\ action = "text" /\ id = [t \in Tasks |-> 0]
    /\ intended = {} /\ spaces = [i \in Ids |-> NoSpace] /\ posts = [i \in Ids |-> 0]
    /\ faults = 0

Fault == faults < MaxFaults /\ faults' = faults + 1
Goto(t, where) == pc' = [pc EXCEPT ![t] = where]
Work(t, d) == draft' = [draft EXCEPT ![t] = d]
Go(t, where) == Goto(t, where) /\ UNCHANGED <<draft, action, id>>
Done(t) ==
    /\ Goto(t, "idle") /\ Work(t, NoDraft) /\ id' = [id EXCEPT ![t] = 0]
    /\ action' = IF t = "chat" THEN "text" ELSE action

\* delete_control_interaction invalidates the buttons of the draft.
DeleteInter == inter' = NoInter /\ buttons' = {} /\ UNCHANGED interLate

------------------------------------------------------------------------------
(* begin_new_interaction *)

\* The keys parse_new_arguments finds: nothing, a profile, a profile with a
\* mode, and with a directory and a prompt too.  A profile of Plan Mode comes
\* with the mode.
Parsed(kind, plan) ==
    (IF kind = "empty" THEN {} ELSE {"normal_model", "normal_effort"})
    \cup (IF plan THEN {"plan_model", "plan_effort"} ELSE {})
    \cup (IF kind \in {"dir", "dirprompt"} THEN {"cwd"} ELSE {})
    \cup (IF kind = "dirprompt" THEN {"initial_prompt"} ELSE {})

\* An expired draft is deleted; then the models are listed.
Begin(kind) ==
    /\ pc["chat"] = "idle"
    /\ IF Present /\ recordLate THEN record' = NoDraft /\ DeleteInter
                                ELSE UNCHANGED <<record, inter, interLate, buttons>>
    /\ \E plan \in BOOLEAN :
          /\ plan => kind \notin {"empty", "profile"}
          /\ Work("chat",
               [phase |-> CASE kind = "empty" -> "normal_model"
                            [] kind = "profile" -> "plan_choice"
                            [] OTHER -> "project",
                payload |-> Parsed(kind, plan),
                rev |-> 0])
    /\ action' = kind
    /\ Goto("chat", "persist")
    /\ UNCHANGED <<recordLate, drafts, id, spaceVars, faults>>

\* replace_control_interaction keeps the creation time of what it replaces.
Persist ==
    /\ pc["chat"] = "persist" /\ inter.rev < MaxRevision
    /\ IF inter = NoInter
       THEN drafts < MaxDrafts /\ drafts' = drafts + 1 /\ UNCHANGED faults
       ELSE Fault /\ UNCHANGED drafts
    /\ inter' = [phase |-> draft["chat"].phase, payload |-> draft["chat"].payload,
                 rev |-> inter.rev + 1, claim |-> "free",
                 created |-> IF inter = NoInter THEN drafts' ELSE inter.created]
    /\ interLate' = FALSE /\ buttons' = {}
    /\ Work("chat", [draft["chat"] EXCEPT !.rev = inter.rev + 1])
    /\ Goto("chat", "store")
    /\ UNCHANGED <<record, recordLate, action, id, spaceVars>>

\* send_new_prompt_or_finish: a prompt given with the command is used at once.
Following(chosen) == IF {"cwd", "initial_prompt"} \subseteq chosen THEN "finish" ELSE "offer"

\* persist_new_draft and advance_new_draft store the draft with the revision
\* they were given; only the latter returns it to the caller.
Store ==
    /\ pc["chat"] = "store"
    /\ record' = draft["chat"] /\ recordLate' = FALSE
    /\ IF action = "mode" THEN Done("chat")
       ELSE /\ Goto("chat", Following(draft["chat"].payload))
            /\ Work("chat", IF action \in Kinds THEN [draft["chat"] EXCEPT !.rev = 0]
                                               ELSE draft["chat"])
            /\ UNCHANGED <<action, id>>
    /\ UNCHANGED <<inter, interLate, buttons, drafts, spaceVars, faults>>

\* new_choice_markup: callbacks with the current revision, then the record,
\* from the caller's draft; the message follows.
Choices(d) ==
    CASE "cwd" \in d.payload -> {"hello"}
      [] d.phase = "plan_choice" -> {"plan_yes", "plan_no"}
      [] d.phase = "project_choice" -> {"project"}
      [] d.phase = "project_confirmation" -> {"create_project"}
      [] d.phase = "project" -> {}
      [] OTHER -> {d.phase}
Offer ==
    /\ pc["chat"] = "offer"
    /\ LET rev == IF inter = NoInter THEN draft["chat"].rev ELSE inter.rev
       IN buttons' = buttons \cup [rev : {rev}, action : Choices(draft["chat"]) \cup {"cancel"}]
    /\ record' = draft["chat"]
    /\ Done("chat")
    /\ UNCHANGED <<recordLate, inter, interLate, drafts, spaceVars, faults>>

------------------------------------------------------------------------------
(* handle_new_callback, handle_new_text *)

\* consume_control_callback takes a live button of the current revision.
Press(b) ==
    /\ pc["chat"] = "idle" /\ b \in buttons
    /\ Present /\ ~recordLate /\ ~interLate /\ b.rev = inter.rev
    /\ buttons' = buttons \ {b}
    /\ Work("chat", record) /\ action' = b.action
    /\ Goto("chat", CASE b.action = "cancel" -> "clean"
                      [] b.action = "hello" -> "finish"
                      [] OTHER -> "advance")
    /\ UNCHANGED <<record, recordLate, inter, interLate, drafts, id, spaceVars, faults>>

Text ==
    /\ pc["chat"] = "idle" /\ Present
    /\ Work("chat", record) /\ action' = "text"
    /\ IF recordLate THEN Goto("chat", "clean")
       ELSE IF record.phase \in {"project", "project_choice", "project_confirmation"}
            THEN Goto("chat", "advance")
            ELSE record.phase = "prompt" /\ Goto("chat", "finish")
    /\ UNCHANGED <<draftVars, id, spaceVars, faults>>

\* The choice of a Plan model writes a new payload.
KeptModel(chosen) == chosen \cap {"normal_model"}
Kept(chosen) == chosen \cap {"normal_model", "normal_effort"}

\* What is said of the directory may name one project, several, or one to create.
ProjectSteps(chosen) ==
    {<<"prompt", chosen \cup {"cwd"}>>, <<"project_choice", chosen>>,
     <<"project_confirmation", chosen \cup {"project_target"}>>}

\* The next phase and the keys chosen, for a button or a text.
Steps(what, chosen) ==
    CASE what = "normal_model" -> {<<"normal_effort", {"normal_model"}>>}
      [] what = "normal_effort" -> {<<"plan_choice", chosen \cup {"normal_effort"}>>}
      [] what = "plan_yes" -> {<<"plan_model", chosen>>}
      [] what = "plan_no" -> {<<"project", chosen>>}
      [] what = "plan_model" -> {<<"plan_effort", Kept(chosen) \cup {"plan_model"}>>}
      [] what = "plan_effort" -> {<<"project", chosen \cup {"plan_effort"}>>}
      [] what = "create_project" -> {<<"prompt", (chosen \ {"project_target"}) \cup {"cwd"}>>}
      [] OTHER -> ProjectSteps(chosen)

\* new_interaction_revision: the draft is one the interaction knows, or its
\* snapshot of one revision ago.
Current(d) ==
    /\ inter # NoInter
    /\ \/ d.rev = inter.rev
       \/ d.rev + 1 = inter.rev /\ d.phase = inter.phase /\ d.payload = inter.payload

\* advance_control_interaction changes a revision that is current, not
\* claimed and not late.
Advance ==
    /\ pc["chat"] = "advance" /\ inter.rev < MaxRevision
    /\ Current(draft["chat"]) /\ inter.claim = "free" /\ ~interLate
    /\ \E s \in Steps(action, draft["chat"].payload) :
          /\ inter' = [inter EXCEPT !.phase = s[1], !.payload = s[2], !.rev = @ + 1]
          /\ Work("chat", [phase |-> s[1], payload |-> s[2], rev |-> inter.rev + 1])
    /\ buttons' = {b \in buttons : b.rev # inter.rev}
    /\ interLate' = FALSE
    /\ Goto("chat", "store")
    /\ UNCHANGED <<record, recordLate, drafts, action, id, spaceVars, faults>>

\* The draft has changed, or no project matches, or the models cannot be listed.
AdvanceFails ==
    /\ pc["chat"] = "advance"
    /\ \/ ~(Current(draft["chat"]) /\ inter.claim = "free" /\ ~interLate) /\ UNCHANGED faults
       \/ action \in {"text", "project"} /\ UNCHANGED faults
       \/ Fault
    /\ Done("chat")
    /\ UNCHANGED <<draftVars, spaceVars>>

------------------------------------------------------------------------------
(* finish_new_prompt, create_pending_session_space: both tasks *)

\* The claim decides who ends a draft: the chat before its deadline, the
\* expirer after it.
ClaimableTwice(t) == Current(draft[t]) /\ interLate = (t = "expirer")
Claimable(t) == ClaimableTwice(t) /\ inter.claim # "held"

Finish(t) ==
    /\ pc[t] = "finish"
    /\ IF Claimable(t)
       THEN /\ inter' = [inter EXCEPT !.claim = "held"]
            /\ id' = [id EXCEPT ![t] = inter.created]
            /\ Work(t, [draft[t] EXCEPT !.payload = inter.payload])
            /\ Goto(t, "create") /\ UNCHANGED action
       ELSE Done(t) /\ UNCHANGED inter
    /\ UNCHANGED <<record, recordLate, interLate, buttons, drafts, spaceVars, faults>>

\* Without a directory, or with half a Plan profile, nothing is created.  A
\* space of this id, or a post of it, is taken over; else the intent is
\* stored before the post is sent.
Create(t) ==
    /\ pc[t] = "create"
    /\ IF \/ "cwd" \notin draft[t].payload
          \/ ("plan_model" \in draft[t].payload) # ("plan_effort" \in draft[t].payload)
          \/ spaces[id[t]] # NoSpace
       THEN Goto(t, "clean") /\ UNCHANGED <<intended, spaces>>
       ELSE IF <<id[t], "post">> \in intended
            THEN /\ spaces' = [spaces EXCEPT ![id[t]] = draft[t].payload]
                 /\ Goto(t, "clean") /\ UNCHANGED intended
            ELSE /\ intended' = intended \cup {<<id[t], "intent">>}
                 /\ Goto(t, "post") /\ UNCHANGED spaces
    /\ UNCHANGED <<draftVars, draft, action, id, posts, faults>>

Post(t) ==
    /\ pc[t] = "post"
    /\ posts' = [posts EXCEPT ![id[t]] = @ + 1]
    /\ Goto(t, "space")
    /\ UNCHANGED <<draftVars, draft, action, id, intended, spaces, faults>>

\* An error of the creation ends the draft as well.
PostFails(t) ==
    /\ pc[t] = "post" /\ Fault
    /\ posts' \in {posts, [posts EXCEPT ![id[t]] = @ + 1]}
    /\ Goto(t, "clean")
    /\ UNCHANGED <<draftVars, draft, action, id, intended, spaces>>

Space(t) ==
    /\ pc[t] = "space"
    /\ intended' = intended \cup {<<id[t], "post">>}
    /\ spaces' = [spaces EXCEPT ![id[t]] = draft[t].payload]
    /\ Goto(t, "clean")
    /\ UNCHANGED <<draftVars, draft, action, id, posts, faults>>

\* The record and the interaction of the chat are deleted, one by one.
Clean(t) ==
    /\ pc[t] = "clean"
    /\ record' = NoDraft
    /\ Goto(t, "remove")
    /\ UNCHANGED <<recordLate, inter, interLate, buttons, drafts, draft, action, id, spaceVars, faults>>
Remove(t) ==
    /\ pc[t] = "remove"
    /\ DeleteInter
    /\ Done(t)
    /\ UNCHANGED <<record, recordLate, drafts, spaceVars, faults>>

------------------------------------------------------------------------------
(* run_new_interaction_expirer *)

Scan ==
    /\ pc["expirer"] = "idle" /\ Present /\ recordLate
    /\ Work("expirer", record)
    /\ Goto("expirer", IF record.phase = "prompt" THEN "finish" ELSE "scan")
    /\ UNCHANGED <<draftVars, action, id, spaceVars, faults>>

Expire ==
    /\ pc["expirer"] = "scan"
    /\ IF Claimable("expirer")
       THEN inter' = [inter EXCEPT !.claim = "held"] /\ Go("expirer", "clean")
       ELSE Done("expirer") /\ UNCHANGED inter
    /\ UNCHANGED <<record, recordLate, interLate, buttons, drafts, spaceVars, faults>>

\* Time passes: between the two writes of a step only the record is late.
Deadline ==
    /\ Present /\ ~recordLate
    /\ recordLate' = TRUE
    /\ interLate' \in (IF pc["chat"] = "store" THEN BOOLEAN ELSE {TRUE})
    /\ UNCHANGED <<record, inter, buttons, drafts, taskVars, spaceVars, faults>>

\* A claim held longer than its lease counts no more.
LeaseEnds ==
    /\ inter.claim = "held" /\ Fault
    /\ inter' = [inter EXCEPT !.claim = "stale"]
    /\ UNCHANGED <<record, recordLate, interLate, buttons, drafts, taskVars, spaceVars>>

Crash ==
    /\ \E t \in Tasks : pc[t] # "idle"
    /\ Fault
    /\ pc' = [t \in Tasks |-> "idle"] /\ draft' = [t \in Tasks |-> NoDraft]
    /\ action' = "text" /\ id' = [t \in Tasks |-> 0]
    /\ UNCHANGED <<draftVars, spaceVars>>

Next ==
    \/ \E kind \in Kinds : Begin(kind)
    \/ Persist \/ Store \/ Offer
    \/ \E b \in buttons : Press(b)
    \/ Text \/ Advance \/ AdvanceFails
    \/ \E t \in Tasks : Finish(t) \/ Create(t) \/ Post(t) \/ PostFails(t) \/ Space(t)
                        \/ Clean(t) \/ Remove(t)
    \/ Scan \/ Expire \/ Deadline \/ LeaseEnds \/ Crash

Spec == Init /\ [][Next]_vars

------------------------------------------------------------------------------
\* A draft is published once, whoever ends it and whenever its deadline passes,
\* as long as nothing fails and no /new replaces it on the way: a replacement
\* keeps the id of a space that may be under creation.
OnePost == faults = 0 => \A i \in Ids : posts[i] <= 1

\* A space is created with a directory, a model with its effort, and both or
\* none of the Plan profile.
CompleteProfile ==
    \A i \in Ids : spaces[i] # NoSpace =>
        /\ {"normal_model", "normal_effort", "cwd"} \subseteq spaces[i]
        /\ ("plan_model" \in spaces[i]) = ("plan_effort" \in spaces[i])
=============================================================================
