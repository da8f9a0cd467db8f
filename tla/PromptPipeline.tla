---------------------------- MODULE PromptPipeline ----------------------------
(***************************************************************************)
(* How prompts of one Session reach Codex: direct prompts, the durable     *)
(* queue, /cancel, /review and the queue's cancel buttons on one side, the *)
(* event stream of the app-server on the other.                            *)
(*                                                                         *)
(* Two tasks of a multi-threaded runtime work on the same session: "chat", *)
(* the chat's update worker (after a restart it stands for run_async's     *)
(* startup dispatch, which ends before updates are handled), and "events", *)
(* forward_codex_events.  Each access they make to the session registry,   *)
(* to the store or to the app-server is an action of its own; a local      *)
(* variable of a handler that outlives such an access is kept in seen,     *)
(* item or ended.                                                          *)
(*                                                                         *)
(* The app-server is external.  It may start a turn at any time, also for  *)
(* another client, lose a call or its answer, end a turn normally or with  *)
(* an error, and a reconnect may lose the newest notifications.            *)
(***************************************************************************)
EXTENDS Naturals, Sequences, FiniteSets

CONSTANTS
    Prompts,        \* direct prompts users may send
    MaxQueue,       \* BOUND: prompts users may queue
    MaxTurns,       \* BOUND: turns the app-server starts
    MaxCancels,     \* BOUND: /cancel commands
    MaxWithdrawals, \* BOUND: presses of a queue entry's cancel button
    MaxReviews,     \* BOUND: /review commands
    MaxElsewhere,   \* BOUND: turns another client starts
    MaxFailures,    \* BOUND: calls that return an error
    MaxErrors,      \* BOUND: turns that end with an error
    MaxLost,        \* BOUND: reconnects that lose notifications
    MaxCrashes,     \* BOUND: restarts of the bridge
    StartedNamesTurn \* turn/started has a turnId (the projector reads no
                     \* other field), or only a turn object as turn/completed

Keys == 1..MaxQueue
Turns == 1..MaxTurns
NoTurn == 0
NoItem == 0
Tasks == {"chat", "events"}

ASSUME BoundsAssumption ==
    {MaxQueue, MaxTurns, MaxCancels, MaxWithdrawals, MaxReviews, MaxElsewhere,
     MaxFailures, MaxErrors, MaxLost, MaxCrashes} \subseteq Nat
ASSUME PromptsAssumption == Prompts \cap (Keys \cup {NoItem}) = {}
ASSUME ShapeAssumption == StartedNamesTurn \in BOOLEAN

VARIABLES
    \* durable
    status,       \* per queue key: status of its workflow record
    entryTurn,    \* per queue key: turn_id of its workflow record
    intent,       \* per direct prompt: PromptIntentState
    intentTurn,   \* per direct prompt: turn_id of intent and prompt record
    recorded,     \* prompts whose "prompt" workflow record exists
    saved,        \* persisted ThreadProjection: turn, status, older
    \* in memory
    sessionTurn,  \* SessionRecord.turn_id
    projTurn,     \* ThreadProjection.turn_id
    pc, item, seen, ended,
    call,         \* per task: the app-server request it awaits
    \* the app-server
    serverTurn,   \* per turn: "none", "active" or how it ended
    origin,       \* per turn: the prompt, key or command it was started for
    events,       \* notifications sent and not yet handled
    \* history and bounds
    calls,        \* per key and task: turn/start calls of this incarnation
    calledBefore, \* keys an earlier incarnation called turn/start for
    budget

queue    == <<status, entryTurn>>
intents  == <<intent, intentTurn, recorded>>
memory   == <<sessionTurn, projTurn>>
locals   == <<pc, item, seen, ended>>
server   == <<serverTurn, origin, events>>
history  == <<calls, calledBefore>>
vars == <<queue, intents, saved, memory, locals, call, server, history, budget>>

NoCall == [kind |-> "none", turn |-> NoTurn, reply |-> "none"]
NotEnded == [turn |-> NoTurn, as |-> "none"]

Limits == [cancel |-> MaxCancels, withdraw |-> MaxWithdrawals,
           review |-> MaxReviews, elsewhere |-> MaxElsewhere,
           fail |-> MaxFailures, error |-> MaxErrors, lose |-> MaxLost,
           crash |-> MaxCrashes]

Spend(what) == /\ budget[what] < Limits[what]
               /\ budget' = [budget EXCEPT ![what] = @ + 1]

GoTo(p, label) == pc' = [pc EXCEPT ![p] = label]

\* The handler ends, and its local variables with it.
Return(p) == /\ GoTo(p, "idle")
             /\ item' = [item EXCEPT ![p] = NoItem]
             /\ seen' = [seen EXCEPT ![p] = NoTurn]

\* A new session, of a thread that may have a past.
Init ==
    /\ status = [k \in Keys |-> "absent"]
    /\ entryTurn = [k \in Keys |-> NoTurn]
    /\ intent = [m \in Prompts |-> "absent"]
    /\ intentTurn = [m \in Prompts |-> NoTurn]
    /\ recorded = {}
    /\ saved = [turn |-> NoTurn, status |-> "none", older |-> {}]
    /\ sessionTurn = NoTurn /\ projTurn = NoTurn
    /\ pc = [p \in Tasks |-> "idle"]
    /\ item = [p \in Tasks |-> NoItem]
    /\ seen = [p \in Tasks |-> NoTurn]
    /\ ended = NotEnded
    /\ call = [p \in Tasks |-> NoCall]
    /\ \E past \in 0..MaxTurns :
         serverTurn = [t \in Turns |-> IF t <= past THEN "completed" ELSE "none"]
    /\ origin = [t \in Turns |-> NoItem]
    /\ events = <<>>
    /\ calls = [k \in Keys |-> [p \in Tasks |-> 0]]
    /\ calledBefore = {}
    /\ budget = [what \in DOMAIN Limits |-> 0]

------------------------------------------------------------------------------
(* Requests to the app-server.  A task awaits its answer.                  *)

Request(p, kind, turn) ==
    call' = [call EXCEPT ![p] = [kind |-> kind, turn |-> turn, reply |-> "pending"]]

Succeeded(p) == call[p].reply = "ok"
Failed(p)    == call[p].reply = "err"
Done(p)      == call' = [call EXCEPT ![p] = NoCall]

Answer(p, turn) ==
    call' = [call EXCEPT ![p].turn = turn, ![p].reply = "ok"]

\* set_turn: the registry's record of the session.
SetTurn(turn) == sessionTurn' = turn

------------------------------------------------------------------------------
(* dispatch_next_queued.  The caller's copy of the session is in seen.     *)

Queued == {k \in Keys : status[k] = "queued"}

\* Mutant: the newest entry is taken.
NewestQueued == {k \in Queued : \A j \in Queued : j <= k}

\* The queue is read in insertion order.
FirstQueued == {k \in Queued : \A j \in Queued : k <= j}

PickQueued(p) ==
    /\ pc[p] = "dispatch" /\ seen[p] = NoTurn
    /\ \E k \in FirstQueued : item' = [item EXCEPT ![p] = k]
    /\ GoTo(p, "submit")
    /\ UNCHANGED <<queue, intents, saved, memory, seen, ended, call, server,
                   history, budget>>

\* Mutant: the handler waits for the turn it saw to end.
WaitForTurn(p) ==
    /\ pc[p] = "dispatch"
    /\ Queued = {}
    /\ Return(p)
    /\ UNCHANGED <<queue, intents, saved, memory, ended, call, server, history,
                   budget>>

NothingToDispatch(p) ==
    /\ pc[p] = "dispatch"
    /\ seen[p] # NoTurn \/ Queued = {}
    /\ Return(p)
    /\ UNCHANGED <<queue, intents, saved, memory, ended, call,
                   server, history, budget>>

\* Mutant: the record is written after the call only.
SubmitUnrecorded(p) ==
    /\ pc[p] = "submit"
    /\ Request(p, "start", NoTurn)
    /\ calls' = [calls EXCEPT ![item[p]][p] = @ + 1]
    /\ GoTo(p, "submitted")
    /\ UNCHANGED <<queue, intents, saved, memory, item, seen, ended, server,
                   calledBefore, budget>>

\* The record is written before the call, from the copy that was read.
SubmitQueued(p) ==
    /\ pc[p] = "submit"
    /\ status' = [status EXCEPT ![item[p]] = "submitting"]
    /\ entryTurn' = [entryTurn EXCEPT ![item[p]] = NoTurn]
    /\ Request(p, "start", NoTurn)
    /\ calls' = [calls EXCEPT ![item[p]][p] = @ + 1]
    /\ GoTo(p, "submitted")
    /\ UNCHANGED <<intents, saved, memory, item, seen, ended, server,
                   calledBefore, budget>>

QueuedAccepted(p) ==
    /\ pc[p] = "submitted" /\ Succeeded(p)
    /\ SetTurn(call[p].turn)
    /\ GoTo(p, "recordStarted")
    /\ UNCHANGED <<queue, intents, saved, projTurn, item, seen, ended, call,
                   server, history, budget>>

\* Mutant: the turn is read back from the session.
RecordSessionTurn(p) ==
    /\ pc[p] = "recordStarted"
    /\ status' = [status EXCEPT ![item[p]] = "started"]
    /\ entryTurn' = [entryTurn EXCEPT ![item[p]] = sessionTurn]
    /\ Done(p) /\ Return(p)
    /\ UNCHANGED <<intents, saved, memory, ended, server, history, budget>>

\* Mutant: the queue is walked on with the same copy of the session.
RecordAndContinue(p) ==
    /\ pc[p] = "recordStarted"
    /\ status' = [status EXCEPT ![item[p]] = "started"]
    /\ entryTurn' = [entryTurn EXCEPT ![item[p]] = call[p].turn]
    /\ Done(p) /\ GoTo(p, "dispatch")
    /\ UNCHANGED <<intents, saved, memory, item, seen, ended, server, history,
                   budget>>

RecordStarted(p) ==
    /\ pc[p] = "recordStarted"
    /\ status' = [status EXCEPT ![item[p]] = "started"]
    /\ entryTurn' = [entryTurn EXCEPT ![item[p]] = call[p].turn]
    /\ Done(p) /\ Return(p)
    /\ UNCHANGED <<intents, saved, memory, ended, server, history,
                   budget>>

\* Mutant: an entry whose call failed is tried again later.
RetryUnclear(p) ==
    /\ pc[p] = "submitted" /\ Failed(p)
    /\ status' = [status EXCEPT ![item[p]] = "queued"]
    /\ UNCHANGED entryTurn
    /\ Done(p) /\ Return(p)
    /\ UNCHANGED <<intents, saved, memory, ended, server, history, budget>>

QueuedUnclear(p) ==
    /\ pc[p] = "submitted" /\ Failed(p)
    /\ status' = [status EXCEPT ![item[p]] = "uncertain"]
    /\ entryTurn' = [entryTurn EXCEPT ![item[p]] = NoTurn]
    /\ Done(p) /\ Return(p)
    /\ UNCHANGED <<intents, saved, memory, ended, server, history,
                   budget>>

DispatchStep(p) == \/ PickQueued(p) \/ NothingToDispatch(p) \/ SubmitQueued(p)
                   \/ QueuedAccepted(p) \/ RecordStarted(p) \/ QueuedUnclear(p)

------------------------------------------------------------------------------
(* The chat's worker: one update at a time.                                *)

\* /queue: the session is read first, the entry is written afterwards.
ReceiveQueue(k) ==
    /\ pc["chat"] = "idle"
    /\ status[k] = "absent" /\ \A j \in Keys : j < k => status[j] # "absent"
    /\ item' = [item EXCEPT !["chat"] = k]
    /\ seen' = [seen EXCEPT !["chat"] = sessionTurn]
    /\ GoTo("chat", "enqueue")
    /\ UNCHANGED <<queue, intents, saved, memory, ended, call, server, history,
                   budget>>

\* The dispatch that follows is skipped when the copy has a turn.
EnqueuePrompt ==
    /\ pc["chat"] = "enqueue"
    /\ status' = [status EXCEPT ![item["chat"]] = "queued"]
    /\ GoTo("chat", "dispatch")
    /\ UNCHANGED <<entryTurn, intents, saved, memory, item, seen, ended, call,
                   server, history, budget>>

\* /prompt and comments: the intent is stored, then a receipt is sent.
ReceivePrompt(m) ==
    /\ pc["chat"] = "idle" /\ intent[m] = "absent"
    /\ intent' = [intent EXCEPT ![m] = "received"]
    /\ item' = [item EXCEPT !["chat"] = m]
    /\ seen' = [seen EXCEPT !["chat"] = sessionTurn]
    /\ GoTo("chat", "receipt")
    /\ UNCHANGED <<queue, intentTurn, recorded, saved, memory, ended, call,
                   server, history, budget>>

SubmitPrompt ==
    /\ pc["chat"] = "receipt"
    /\ intent' = [intent EXCEPT ![item["chat"]] = "submitting"]
    /\ Request("chat", IF seen["chat"] = NoTurn THEN "start" ELSE "steer",
               seen["chat"])
    /\ GoTo("chat", "prompted")
    /\ UNCHANGED <<queue, intentTurn, recorded, saved, memory, item, seen,
                   ended, server, history, budget>>

PromptAccepted ==
    /\ pc["chat"] = "prompted" /\ Succeeded("chat")
    /\ SetTurn(call["chat"].turn)
    /\ GoTo("chat", "recordIntent")
    /\ UNCHANGED <<queue, intents, saved, projTurn, item, seen, ended, call,
                   server, history, budget>>

\* The intent's updated_at is now later than any turn end persisted so far.
RecordIntent ==
    /\ pc["chat"] = "recordIntent"
    /\ LET m == item["chat"] IN
         /\ intent' = [intent EXCEPT ![m] =
                         IF seen["chat"] = NoTurn THEN "started" ELSE "steered"]
         /\ intentTurn' = [intentTurn EXCEPT ![m] = call["chat"].turn]
         /\ saved' = [saved EXCEPT !.older = @ \ {m}]
    /\ GoTo("chat", "recordPrompt")
    /\ UNCHANGED <<queue, recorded, memory, item, seen, ended, call, server,
                   history, budget>>

RecordPrompt ==
    /\ pc["chat"] = "recordPrompt"
    /\ recorded' = recorded \cup {item["chat"]}
    /\ Done("chat") /\ Return("chat")
    /\ UNCHANGED <<queue, intent, intentTurn, saved, memory, ended,
                   server, history, budget>>

PromptUnclear ==
    /\ pc["chat"] = "prompted" /\ Failed("chat")
    /\ intent' = [intent EXCEPT ![item["chat"]] = "uncertain"]
    /\ saved' = [saved EXCEPT !.older = @ \ {item["chat"]}]
    /\ Done("chat") /\ Return("chat")
    /\ UNCHANGED <<queue, intentTurn, recorded, memory, ended,
                   server, history, budget>>

\* /cancel interrupts the turn of the session's copy.
ReceiveCancel ==
    /\ pc["chat"] = "idle" /\ sessionTurn # NoTurn
    /\ Spend("cancel")
    /\ Request("chat", "interrupt", sessionTurn)
    /\ GoTo("chat", "cancelling")
    /\ UNCHANGED <<queue, intents, saved, memory, item, seen, ended, server,
                   history>>

ReceiveReview ==
    /\ pc["chat"] = "idle"
    /\ Spend("review")
    /\ Request("chat", "start", NoTurn)
    /\ GoTo("chat", "reviewing")
    /\ UNCHANGED <<queue, intents, saved, memory, item, seen, ended, server,
                   history>>

CommandAnswered ==
    /\ \/ /\ pc["chat"] = "cancelling" /\ Succeeded("chat") /\ SetTurn(NoTurn)
       \/ /\ pc["chat"] = "reviewing" /\ Succeeded("chat")
          /\ SetTurn(call["chat"].turn)
       \/ /\ pc["chat"] \in {"cancelling", "reviewing"} /\ Failed("chat")
          /\ UNCHANGED sessionTurn
    /\ Done("chat") /\ Return("chat")
    /\ UNCHANGED <<queue, intents, saved, projTurn, ended, server,
                   history, budget>>

\* qcancel: the entry is read and found queued, then it is overwritten.
ReceiveWithdrawal(k) ==
    /\ pc["chat"] = "idle" /\ status[k] = "queued"
    /\ Spend("withdraw")
    /\ item' = [item EXCEPT !["chat"] = k]
    /\ GoTo("chat", "withdraw")
    /\ UNCHANGED <<queue, intents, saved, memory, seen, ended, call, server,
                   history>>

Withdraw ==
    /\ pc["chat"] = "withdraw"
    /\ status' = [status EXCEPT ![item["chat"]] = "cancelled"]
    /\ entryTurn' = [entryTurn EXCEPT ![item["chat"]] = NoTurn]
    /\ Return("chat")
    /\ UNCHANGED <<intents, saved, memory, ended, call, server,
                   history, budget>>

ChatStep == \/ EnqueuePrompt \/ SubmitPrompt \/ PromptAccepted \/ RecordIntent
            \/ RecordPrompt \/ PromptUnclear \/ CommandAnswered \/ Withdraw

User == \/ \E k \in Keys : ReceiveQueue(k) \/ ReceiveWithdrawal(k)
        \/ \E m \in Prompts : ReceivePrompt(m)
        \/ ReceiveCancel \/ ReceiveReview

------------------------------------------------------------------------------
(* The event task.                                                         *)

Terminal == {"completed", "failed", "interrupted"}

\* turn/started: only the projection changes; it is persisted when its last
\* write is old enough.
SeeStarted ==
    /\ pc["events"] = "idle" /\ events # <<>> /\ Head(events).kind = "started"
    /\ projTurn' = IF StartedNamesTurn THEN Head(events).turn ELSE NoTurn
    /\ \/ saved' = [saved EXCEPT !.turn = projTurn', !.status = "inProgress",
                                 !.older = {}]
       \/ UNCHANGED saved
    /\ events' = Tail(events)
    /\ UNCHANGED <<queue, intents, sessionTurn, locals, call, serverTurn,
                   origin, history, budget>>

\* A turn has ended, or a fatal error was reported: the projection is
\* persisted and the session is free, whatever turn it was.
\* An error does not name its turn; the projection or the session does.
SeeEnded ==
    /\ pc["events"] = "idle" /\ events # <<>> /\ Head(events).kind \in Terminal \cup {"error"}
    /\ LET e  == Head(events)
           as == IF e.kind = "error" THEN "failed" ELSE e.kind
           t  == IF e.kind # "error" THEN e.turn
                 ELSE IF projTurn # NoTurn THEN projTurn ELSE sessionTurn
       IN /\ ended' = [turn |-> t, as |-> as]
          /\ saved' = [turn |-> projTurn, status |-> as,
                       older |-> {m \in Prompts : intent[m] # "absent"}]
    /\ events' = Tail(events)
    /\ SetTurn(NoTurn)
    /\ GoTo("events", "markPrompts")
    /\ UNCHANGED <<queue, intents, projTurn, item, seen, call, serverTurn,
                   origin, history, budget>>

\* Mutant: the state is stored as the app-server calls it.
AsReported(as) == as

AsIntent(as) == CASE as = "completed" -> "completed"
                  [] as = "failed" -> "failed"
                  [] as = "interrupted" -> "cancelled"

\* Mutant: every prompt of the thread gets the outcome.
MarkAllPrompts ==
    /\ pc["events"] = "markPrompts"
    /\ intent' = [m \in Prompts |->
                    IF m \in recorded THEN AsIntent(ended.as) ELSE intent[m]]
    /\ saved' = [saved EXCEPT !.older = @ \ recorded]
    /\ GoTo("events", "markQueue")
    /\ UNCHANGED <<queue, intentTurn, recorded, memory, item, seen, ended, call,
                   server, history, budget>>

\* mark_turn_workflows, prompt records: those of the turn, or all of the
\* thread when the turn is unknown, whatever state they are in.
MarkPrompts ==
    /\ pc["events"] = "markPrompts"
    /\ LET Hit == {m \in recorded : ended.turn \in {NoTurn, intentTurn[m]}} IN
         /\ intent' = [m \in Prompts |->
                         IF m \in Hit THEN AsIntent(ended.as) ELSE intent[m]]
         /\ saved' = [saved EXCEPT !.older = @ \ Hit]
    /\ GoTo("events", "markQueue")
    /\ UNCHANGED <<queue, intentTurn, recorded, memory, item, seen, ended, call,
                   server, history, budget>>

\* ... and queue records under way: those of the turn, all of them when the
\* turn is unknown, and every one that has a turn at all.
ClosesEntry(k) ==
    /\ status[k] \in {"submitting", "started"}
    /\ ended.turn = NoTurn \/ entryTurn[k] # NoTurn

MarkQueue ==
    /\ pc["events"] = "markQueue"
    /\ status' = [k \in Keys |->
                    IF ClosesEntry(k) THEN AsIntent(ended.as) ELSE status[k]]
    /\ ended' = NotEnded
    /\ GoTo("events", "answer")
    /\ UNCHANGED <<entryTurn, intents, saved, memory, item, seen, call, server,
                   history, budget>>

\* Mutant: the end of a turn does not resume the queue.
AnswerOnly ==
    /\ pc["events"] = "answer"
    /\ Return("events")
    /\ UNCHANGED <<queue, intents, saved, memory, ended, call, server, history,
                   budget>>

\* After the answer is sent to Telegram the session is read again.
ResumeQueue ==
    /\ pc["events"] = "answer"
    /\ seen' = [seen EXCEPT !["events"] = sessionTurn]
    /\ GoTo("events", "dispatch")
    /\ UNCHANGED <<queue, intents, saved, memory, item, ended, call, server,
                   history, budget>>

EventStep == SeeStarted \/ SeeEnded \/ MarkPrompts \/ MarkQueue \/ ResumeQueue

------------------------------------------------------------------------------
(* The app-server, as the bridge uses it.                                  *)

\* What the task's call is for.
Purpose(p) == IF pc[p] \in {"submitted", "prompted"} THEN item[p] ELSE NoItem

NewTurn == {t \in Turns : /\ serverTurn[t] = "none"
                          /\ \A u \in Turns : u < t => serverTurn[u] # "none"}

StartTurn(for) ==
    \E t \in NewTurn :
      /\ serverTurn' = [serverTurn EXCEPT ![t] = "active"]
      /\ origin' = [origin EXCEPT ![t] = for]
      /\ events' = Append(events, [kind |-> "started", turn |-> t])

Report(kind, t) == <<[kind |-> kind, turn |-> t]>>

\* The turn ends in the way as; before that a fatal error may be reported.
EndTurn(t, as, first) ==
    /\ serverTurn[t] = "active"
    /\ serverTurn' = [serverTurn EXCEPT ![t] = as]
    /\ events' = events \o first \o Report(as, t)
    /\ UNCHANGED origin

\* A call is answered.
Serve(p) ==
    /\ call[p].reply = "pending"
    /\ \/ /\ call[p].kind = "start"
          /\ StartTurn(Purpose(p))
          /\ Answer(p, CHOOSE t \in NewTurn : TRUE)
       \/ /\ call[p].kind = "steer" /\ serverTurn[call[p].turn] = "active"
          /\ Answer(p, call[p].turn) /\ UNCHANGED server
       \/ /\ call[p].kind = "interrupt"
          /\ EndTurn(call[p].turn, "interrupted", <<>>)
          /\ Answer(p, call[p].turn)
    /\ UNCHANGED <<queue, intents, saved, memory, locals, history, budget>>

Refuse(p) == call' = [call EXCEPT ![p].reply = "err"]

\* A turn that has ended can be neither steered nor interrupted.
ServeRefused(p) ==
    /\ call[p].reply = "pending"
    /\ \/ call[p].kind = "start" /\ NewTurn = {}
       \/ call[p].kind # "start" /\ serverTurn[call[p].turn] # "active"
    /\ Refuse(p)
    /\ UNCHANGED <<queue, intents, saved, memory, locals, server, history,
                   budget>>

\* A call fails for another reason; a turn may have been started all the same.
\* When it is the connection that is lost, the request is sent a second time.
CallFails(p) ==
    /\ call[p].reply = "pending" /\ Spend("fail")
    /\ \/ Refuse(p) /\ UNCHANGED server
       \/ Refuse(p) /\ call[p].kind = "start" /\ StartTurn(Purpose(p))
       \/ UNCHANGED call /\ call[p].kind = "start" /\ StartTurn(Purpose(p))
    /\ UNCHANGED <<queue, intents, saved, memory, locals, history>>

TurnEnds(t) ==
    /\ EndTurn(t, "completed", <<>>)
    /\ UNCHANGED <<queue, intents, saved, memory, locals, call, history, budget>>

\* A fatal error is reported, and then that the turn has failed.
TurnFails(t) ==
    /\ Spend("error")
    /\ EndTurn(t, "failed", Report("error", t))
    /\ UNCHANGED <<queue, intents, saved, memory, locals, call, history>>

\* Another client of the app-server uses the thread.
StartElsewhere ==
    /\ Spend("elsewhere")
    /\ StartTurn(NoItem)
    /\ UNCHANGED <<queue, intents, saved, memory, locals, call, history>>

\* A reconnect: the newest notifications never reach the bridge.
LoseEvents ==
    /\ Spend("lose")
    /\ \E n \in 0..(Len(events) - 1) : events' = SubSeq(events, 1, n)
    /\ UNCHANGED <<queue, intents, saved, memory, locals, call, serverTurn,
                   origin, history>>

------------------------------------------------------------------------------
(* Crash and restart.                                                      *)

Crash ==
    /\ pc["events"] # "down" /\ Spend("crash")
    /\ pc' = [p \in Tasks |-> "down"]
    /\ call' = [p \in Tasks |-> NoCall]
    /\ sessionTurn' = NoTurn /\ projTurn' = NoTurn
    /\ item' = [p \in Tasks |-> NoItem] /\ seen' = [p \in Tasks |-> NoTurn]
    /\ ended' = NotEnded /\ events' = <<>>
    /\ calledBefore' = calledBefore \cup
                         {k \in Keys : \E p \in Tasks : calls[k][p] > 0}
    /\ calls' = [k \in Keys |-> [p \in Tasks |-> 0]]
    /\ UNCHANGED <<queue, intents, saved, serverTurn, origin>>

\* restore_active_sessions: intents of the turn the projection saw ending are
\* settled if they were last written before that, and the session's turn is
\* the projection's if that was running.  Notifications sent meanwhile are
\* gone.  The startup dispatch works on the restored session.
Restart ==
    /\ pc["events"] = "down"
    /\ pc' = [chat |-> "dispatch", events |-> "hydrate"]
    /\ sessionTurn' = IF saved.status = "inProgress" THEN saved.turn ELSE NoTurn
    /\ projTurn' = saved.turn
    /\ seen' = [seen EXCEPT !["chat"] = sessionTurn']
    /\ intent' = [m \in Prompts |->
                    IF /\ saved.status \in Terminal /\ m \in saved.older
                       /\ intent[m] \in {"started", "steered"}
                       /\ saved.turn \in {NoTurn, intentTurn[m]}
                    THEN AsIntent(saved.status) ELSE intent[m]]
    /\ events' = <<>>
    /\ UNCHANGED <<queue, intentTurn, recorded, saved, item, ended, call,
                   serverTurn, origin, history, budget>>

\* hydrate_thread_projections: the event task reads the thread's last turn
\* into the projection, or gives up; it leaves the session as it is.  When the
\* turn ended is the server's timestamp, before or after the intents' own.
LastTurn == {t \in Turns : /\ serverTurn[t] # "none"
                           /\ \A u \in Turns : u > t => serverTurn[u] = "none"}

Hydrate ==
    /\ pc["events"] = "hydrate"
    /\ \/ UNCHANGED <<projTurn, saved>>
       \/ \E t \in LastTurn :
            /\ projTurn' = t
            /\ \E older \in {{}, {m \in Prompts : intent[m] # "absent"}} :
                 saved' = [turn |-> t, older |-> older,
                           status |-> IF serverTurn[t] = "active" THEN "inProgress"
                                      ELSE serverTurn[t]]
    /\ Return("events")
    /\ UNCHANGED <<queue, intents, sessionTurn, ended, call, server,
                   history, budget>>

Next ==
    \/ User \/ ChatStep \/ EventStep
    \/ \E p \in Tasks : DispatchStep(p) \/ Serve(p) \/ ServeRefused(p) \/ CallFails(p)
    \/ \E t \in Turns : TurnEnds(t) \/ TurnFails(t)
    \/ StartElsewhere \/ LoseEvents \/ Crash \/ Restart \/ Hydrate

Spec == Init /\ [][Next]_vars

\* Both tasks are scheduled; every call ends, with its timeout at the latest;
\* the supervisor restarts the bridge.  Turns of Bounded end in some way.
Fairness(Bounded) ==
    /\ WF_vars(ChatStep) /\ WF_vars(EventStep) /\ WF_vars(Restart) /\ WF_vars(Hydrate)
    /\ \A p \in Tasks : WF_vars(DispatchStep(p)) /\ WF_vars(Serve(p) \/ ServeRefused(p))
    /\ \A t \in Bounded : WF_vars(TurnEnds(t))

FairSpec == Spec /\ Fairness({})

------------------------------------------------------------------------------
TurnOrNone == Turns \cup {NoTurn}
EntryStatus == {"absent", "queued", "submitting", "started", "uncertain",
                "completed", "failed", "cancelled"}
IntentState == {"absent", "received", "submitting", "started", "steered",
                "uncertain", "completed", "failed", "cancelled"}
Label == {"idle", "down", "dispatch", "submit", "submitted", "recordStarted",
          "enqueue", "receipt", "prompted", "recordIntent", "recordPrompt",
          "cancelling", "reviewing", "withdraw", "markPrompts", "markQueue",
          "answer", "hydrate"}

TypeOK ==
    /\ status \in [Keys -> EntryStatus] /\ entryTurn \in [Keys -> TurnOrNone]
    /\ intent \in [Prompts -> IntentState] /\ intentTurn \in [Prompts -> TurnOrNone]
    /\ recorded \subseteq Prompts
    /\ saved \in [turn : TurnOrNone, status : {"none", "inProgress"} \cup Terminal,
                  older : SUBSET Prompts]
    /\ sessionTurn \in TurnOrNone /\ projTurn \in TurnOrNone
    /\ pc \in [Tasks -> Label]
    /\ item \in [Tasks -> Keys \cup Prompts \cup {NoItem}]
    /\ seen \in [Tasks -> TurnOrNone]
    /\ ended \in [turn : TurnOrNone, as : {"none"} \cup Terminal]
    /\ call \in [Tasks -> [kind : {"none", "start", "steer", "interrupt"},
                          turn : TurnOrNone, reply : {"none", "pending", "ok", "err"}]]
    /\ serverTurn \in [Turns -> {"none", "active"} \cup Terminal]
    /\ origin \in [Turns -> Keys \cup Prompts \cup {NoItem}]
    /\ events \in Seq([kind : {"started", "error"} \cup Terminal, turn : Turns])
    /\ calls \in [Keys -> [Tasks -> Nat]]
    /\ calledBefore \subseteq Keys
    /\ budget \in [DOMAIN Limits -> Nat]

\* What is recorded as started is the turn that was started for it, whatever
\* turn the other task has put into the session meanwhile.
RecordsOwnTurn ==
    /\ \A k \in Keys : entryTurn[k] # NoTurn => origin[entryTurn[k]] = k
    /\ \A m \in Prompts : intent[m] = "started" => origin[intentTurn[m]] = m

Submits(k) == \E p \in Tasks : calls'[k][p] > calls[k][p]

\* No queue entry overtakes an older one that still waits.
FifoOrder ==
    [][\A j, k \in Keys : j < k /\ Submits(k) => status[j] # "queued"]_vars

\* An entry the bridge may have submitted before a crash is never submitted
\* again, wherever between the call and its record the crash came.
RestartNeverResubmits == [][\A k \in calledBefore : ~Submits(k)]_vars

\* Two dispatchers may take the same entry, but neither takes it twice.
OncePerDispatcher == \A k \in Keys, p \in Tasks : calls[k][p] <= 1

\* A handler of either task ends, whatever the other one does.
HandlersEnd == \A p \in Tasks : []<>(pc[p] = "idle")

\* A prompt is reported with the outcome of the turn it went into.
OutcomeTruthful ==
    \A m \in Prompts : intent[m] \in {"completed", "failed", "cancelled"} =>
      /\ intentTurn[m] # NoTurn
      /\ serverTurn[intentTurn[m]] \in Terminal
      /\ intent[m] = AsIntent(serverTurn[intentTurn[m]])

\* ... unless a fatal error was reported, which names no turn, or the bridge was
\* restarted, whatever notifications are late or lost.
OutcomesReported == budget["error"] = 0 /\ budget["crash"] = 0 => OutcomeTruthful
==============================================================================
