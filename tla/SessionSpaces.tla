---------------------------- MODULE SessionSpaces ----------------------------
(* The spaces of one discussion group: rows of rust_session_spaces, the      *)
(* registry of sessions in memory and the task that handles the updates of   *)
(* the group (daemon.rs).  A space is activated by /totp in its comments:    *)
(* its thread is started, then its first prompt.  A task that holds a copy   *)
(* of a row across a call writes the whole copy back: of such tasks there is *)
(* one here, the writer.  A registry record is in two maps, each with a      *)
(* mutex of its own.  A command that a lease, an argument or a call stops    *)
(* changes nothing, so that leases are left to TotpUnlock.                   *)
EXTENDS Naturals, FiniteSets

CONSTANTS
    Spaces,        \* spaces of the group; a root message is named by its space
    MaxThreads     \* bound on threads started for them

VARIABLES
    space,         \* row of each space
    payload,       \* spaces with a pending_space record
    started,       \* spaces whose first prompt has an intent "started", with its turn
    queued,        \* spaces with a prompt in the durable queue
    confirms,      \* spaces with a live button that closes them
    byThread,      \* the registry, by thread: whether the session has a turn
    byChat,        \* and by chat: the session of the group
    owner,         \* of each thread started: the space it was started for
    pc, job,       \* the chat's task: where it is, its copies of a row and a session
    writer,        \* a copy of a row in the hands of another task
    late           \* the record that set_turn of the event task has still to insert
rows == <<space, payload, started, queued, confirms>>
registry == <<byThread, byChat>>
vars == <<rows, registry, owner, pc, job, writer, late>>

Threads == 1..MaxThreads
NoRecord == [thread |-> 0, turn |-> FALSE]
Rows == [lifecycle : {"pending", "repair_required", "active", "closed"}, generation : 0..1,
         thread : 0..MaxThreads, bound : BOOLEAN]
Records == [thread : Threads, turn : BOOLEAN] \cup {NoRecord}
NoRow == [lifecycle |-> "pending", generation |-> 0, thread |-> 0, bound |-> FALSE]
Idle == [at |-> "none", row |-> NoRow, session |-> NoRecord]

TypeOK ==
    /\ space \in [Spaces -> Rows]
    /\ payload \subseteq Spaces /\ started \subseteq Spaces
    /\ queued \subseteq Spaces /\ confirms \subseteq Spaces
    /\ byThread \in [Threads -> Records] /\ byChat \in Records
    /\ owner \in [Threads -> Spaces \cup {"none"}]
    /\ pc \in {"idle", "activate", "repair", "register", "intent", "start", "accepted", "active",
               "clean", "rewrite", "root", "submit", "turn", "chat", "drop"}
    /\ job.at \in Spaces \cup {"none"} /\ job.row \in Rows /\ job.session \in Records
    /\ writer.at \in Spaces \cup {"none"} /\ writer.row \in Rows
    /\ late \in Records

Init ==
    /\ space = [s \in Spaces |-> NoRow] /\ payload = Spaces /\ started = {}
    /\ queued = {} /\ confirms = {}
    /\ byThread = [t \in Threads |-> NoRecord] /\ byChat = NoRecord
    /\ owner = [t \in Threads |-> "none"]
    /\ pc = "idle" /\ job = Idle /\ writer = Idle /\ late = NoRecord

Begin(s, where) == pc = "idle" /\ pc' = where /\ job' = [Idle EXCEPT !.at = s]
With(s, where, row) == pc = "idle" /\ pc' = where /\ job' = [Idle EXCEPT !.at = s, !.row = row]
Step(from, to) == pc = from /\ pc' = to
Finish == pc' = "idle" /\ job' = Idle

------------------------------------------------------------------------------
(* rust_session_spaces *)

\* A copy is written whole, but for the root of the row; nothing is written when the
\* row was closed or has moved on to a later generation.
Copied(s, row) == [space EXCEPT ![s] = [row EXCEPT !.bound = row.bound \/ space[s].bound]]
Stored(s, row) ==
    IF \/ space[s].lifecycle # "closed" /\ row.generation >= space[s].generation
       \/ row.lifecycle = "closed"
    THEN Copied(s, row)
    ELSE space
Upsert(s, row) == space' = Stored(s, row)

\* close_session_space, for the generation the caller saw.
Closes(s, generation) == space[s].generation = generation /\ space[s].lifecycle # "closed"
CloseRow(s, generation) ==
    IF Closes(s, generation)
    THEN /\ space' = [space EXCEPT ![s].lifecycle = "closed", ![s].generation = generation + 1]
         /\ queued' = queued \ {s} /\ confirms' = confirms \ {s}
    ELSE UNCHANGED <<space, queued, confirms>>

\* session_space_for_thread
SpacesOf(session) == {r \in Spaces : space[r].thread = session.thread}

------------------------------------------------------------------------------
(* SessionRegistry: an operation takes the two mutexes one after the other. *)

\* remove drops the group's session, whichever it is.
Remove(t) ==
    /\ byThread' = [byThread EXCEPT ![t] = NoRecord]
    /\ byChat' = IF byThread[t] = NoRecord THEN byChat ELSE NoRecord
\* The first half of set_turn, and the record that the second half inserts.
Turned(t, turn) ==
    IF byThread[t] = NoRecord THEN NoRecord ELSE [byThread[t] EXCEPT !.turn = turn]
SetTurn(t, turn) == byThread' = [byThread EXCEPT ![t] = Turned(t, turn)]
InChat(record) == byChat' = IF record = NoRecord THEN byChat ELSE record

------------------------------------------------------------------------------
(* activate_pending_session *)

\* A command of the discussion bot is for the space of its root.
Command(s) == pc = "idle" /\ space[s].bound

\* /totp with a good code, for a space that is not active.
Totp(s) ==
    /\ Command(s) /\ space[s].lifecycle \in {"pending", "repair_required"}
    /\ With(s, "activate", space[s])
    /\ UNCHANGED <<rows, registry, owner, writer, late>>

\* A thread that the copy names is resumed; else one is started.
GetThread ==
    /\ pc = "activate" /\ job.at \in payload
    /\ \/ /\ job.row.thread # 0
          /\ pc' = "register"
          /\ UNCHANGED <<job, owner>>
       \/ /\ job.row.thread = 0
          /\ \E t \in Threads :
                /\ owner[t] = "none" /\ \A u \in 1..(t - 1) : owner[u] # "none"
                /\ owner' = [owner EXCEPT ![t] = job.at]
                /\ job' = [job EXCEPT !.row.thread = t]
          /\ pc' = "repair"
    /\ UNCHANGED <<rows, registry, writer, late>>

\* An activation that drops the draft of a space it could not start.
ActivationDropped ==
    /\ pc = "activate" /\ Finish
    /\ payload' = payload \ {job.at}
    /\ UNCHANGED <<space, started, queued, confirms, registry, owner, writer, late>>

\* No draft, no directory, no model, or a call that failed: the command ends in
\* an error and may be sent again.
ActivationFails ==
    /\ pc = "activate" /\ Finish
    /\ UNCHANGED <<rows, registry, owner, writer, late>>

Repaired == [job.row EXCEPT !.lifecycle = "repair_required"]
StoreThread ==
    /\ Step("repair", "register")
    /\ Upsert(job.at, Repaired)
    /\ UNCHANGED <<payload, started, queued, confirms, registry, owner, job, writer, late>>

Register ==
    /\ Step("register", "intent")
    /\ Upsert(job.at, Repaired)
    /\ job' = [job EXCEPT !.row = Repaired]
    /\ byChat' = [thread |-> job.row.thread, turn |-> FALSE]
    /\ byThread' = [byThread EXCEPT ![job.row.thread] = byChat']
    /\ UNCHANGED <<payload, started, queued, confirms, owner, writer, late>>

\* A first prompt that is known to have started is not sent again; else its
\* intent is stored as "submitting".
CheckIntent ==
    /\ pc = "intent"
    /\ IF job.at \in started
       THEN /\ SetTurn(job.row.thread, TRUE) /\ InChat(Turned(job.row.thread, TRUE))
            /\ pc' = "active"
       ELSE pc' = "start" /\ UNCHANGED registry
    /\ UNCHANGED <<rows, owner, job, writer, late>>

StartAccepted ==
    /\ Step("start", "accepted")
    /\ SetTurn(job.row.thread, TRUE) /\ InChat(Turned(job.row.thread, TRUE))
    /\ UNCHANGED <<rows, owner, job, writer, late>>

\* An activation that takes an unclear start for one.
StartAssumed ==
    /\ pc = "start" /\ Finish
    /\ Upsert(job.at, [job.row EXCEPT !.lifecycle = "active"])
    /\ UNCHANGED <<payload, started, queued, confirms, registry, owner, writer, late>>

\* The call failed, whether or not the prompt was started: the intent becomes
\* "uncertain".
StartUnclear ==
    /\ pc = "start" /\ Finish
    /\ Upsert(job.at, Repaired)
    /\ UNCHANGED <<payload, started, queued, confirms, registry, owner, writer, late>>

RecordStarted ==
    /\ Step("accepted", "active")
    /\ started' = started \cup {job.at}
    /\ UNCHANGED <<space, payload, queued, confirms, registry, owner, job, writer, late>>

StoreActive ==
    /\ Step("active", "clean")
    /\ Upsert(job.at, [job.row EXCEPT !.lifecycle = "active"])
    /\ UNCHANGED <<payload, started, queued, confirms, registry, owner, job, writer, late>>

DeletePayload ==
    /\ pc = "clean" /\ Finish
    /\ payload' = payload \ {job.at}
    /\ UNCHANGED <<space, started, queued, confirms, registry, owner, writer, late>>

Activate ==
    \/ GetThread \/ ActivationFails \/ StoreThread \/ Register \/ CheckIntent
    \/ StartAccepted \/ StartUnclear \/ RecordStarted \/ StoreActive \/ DeletePayload

------------------------------------------------------------------------------
(* Other updates of the group *)

\* The channel post of the space was forwarded: its root is bound, and its status
\* message is sent with the copy read then.
NativeCommentPost(s) ==
    /\ ~space[s].bound
    /\ space' = [space EXCEPT ![s].bound = TRUE]
    /\ With(s, "rewrite", space'[s])
    /\ UNCHANGED <<payload, started, queued, confirms, registry, owner, writer, late>>

\* /planmode: update_session_plan_mode rewrites the row of the group's session.
PlanMode(s) ==
    /\ Command(s) /\ byChat # NoRecord
    /\ \E r \in SpacesOf(byChat) : With(r, "rewrite", space[r])
    /\ UNCHANGED <<rows, registry, owner, writer, late>>

Rewrite ==
    /\ pc = "rewrite" /\ Finish
    /\ Upsert(job.at, job.row)
    /\ UNCHANGED <<payload, started, queued, confirms, registry, owner, writer, late>>

\* A text in the comments of a space goes to the session of the group, whose
\* root becomes this one.
Text(s) ==
    /\ space[s].bound /\ byChat # NoRecord
    /\ pc = "idle" /\ pc' = "root"
    /\ job' = [Idle EXCEPT !.at = s, !.session = byChat]
    /\ UNCHANGED <<rows, registry, owner, writer, late>>

\* The second half of set_root inserts the copy made in the first.
SetRoot ==
    /\ Step("root", "submit")
    /\ byThread' = [byThread EXCEPT ![job.session.thread] = job.session]
    /\ UNCHANGED <<rows, byChat, owner, job, writer, late>>

\* /prompt and /ask leave the root of the session; so does a file, which needs
\* no root.
PromptCommand(s) ==
    /\ Command(s) /\ byChat # NoRecord
    /\ pc' = "submit"
    /\ job' = [Idle EXCEPT !.at = s, !.session = byChat]
    /\ UNCHANGED <<rows, registry, owner, writer, late>>
Attachment(s) ==
    /\ byChat # NoRecord
    /\ pc = "idle" /\ pc' = "submit"
    /\ job' = [Idle EXCEPT !.at = s, !.session = byChat]
    /\ UNCHANGED <<rows, registry, owner, writer, late>>

\* The prompt is handed to the thread of the session that was read at first; a
\* turn that starts is set in the registry (PromptPipeline has the details).
Submit ==
    /\ pc = "submit"
    /\ \/ pc' = "turn" /\ job' = [Idle EXCEPT !.session = [job.session EXCEPT !.turn = TRUE]]
       \/ Finish
    /\ UNCHANGED <<rows, registry, owner, writer, late>>

\* /review and /cancel set the turn too.
ReviewOrCancel(s) ==
    /\ Command(s) /\ byChat # NoRecord /\ pc' = "turn"
    /\ \E turn \in BOOLEAN :
          /\ ~turn => byChat.turn
          /\ job' = [Idle EXCEPT !.session = [byChat EXCEPT !.turn = turn]]
    /\ UNCHANGED <<rows, registry, owner, writer, late>>

SetThreadTurn ==
    /\ Step("turn", "chat")
    /\ SetTurn(job.session.thread, job.session.turn)
    /\ job' = [job EXCEPT !.session = Turned(job.session.thread, job.session.turn)]
    /\ UNCHANGED <<rows, byChat, owner, writer, late>>
SetChatTurn ==
    /\ pc = "chat" /\ Finish /\ InChat(job.session)
    /\ UNCHANGED <<rows, byThread, owner, writer, late>>

Queue(s) ==
    /\ Command(s) /\ byChat.turn
    /\ queued' = queued \cup SpacesOf(byChat)
    /\ UNCHANGED <<space, payload, started, confirms, registry, owner, pc, job, writer, late>>

\* /unwatch offers the button that closes the space of the group's session.
Unwatch(s) ==
    /\ Command(s) /\ byChat # NoRecord
    /\ confirms' = confirms \cup SpacesOf(byChat)
    /\ UNCHANGED <<space, payload, started, queued, registry, owner, pc, job, writer, late>>

\* status_unwatch_execute: the row is read, the button taken, the row closed for
\* the generation read; then its session is removed.
Press(s) ==
    /\ s \in confirms /\ confirms' = confirms \ {s}
    /\ With(s, "drop", space[s])
    /\ UNCHANGED <<space, payload, started, queued, registry, owner, writer, late>>
Close ==
    /\ pc = "drop" /\ Finish
    /\ CloseRow(job.at, job.row.generation)
    /\ IF space[job.at].generation = job.row.generation /\ job.row.thread # 0
       THEN Remove(job.row.thread)
       ELSE UNCHANGED registry
    /\ UNCHANGED <<payload, started, owner, writer, late>>

Chat ==
    \/ \E s \in Spaces :
          \/ Totp(s) \/ NativeCommentPost(s) \/ PlanMode(s) \/ Text(s) \/ PromptCommand(s)
          \/ Attachment(s) \/ ReviewOrCancel(s) \/ Queue(s) \/ Unwatch(s) \/ Press(s)
    \/ Activate \/ Rewrite \/ SetRoot \/ Submit \/ SetThreadTurn \/ SetChatTurn \/ Close

------------------------------------------------------------------------------
(* Other tasks *)

\* The event task ends the turn of a session: its record becomes the group's,
\* and the queue of the session is taken up.
TurnEnds(t) ==
    /\ late = NoRecord /\ byThread[t].turn
    /\ SetTurn(t, FALSE) /\ late' = Turned(t, FALSE)
    /\ UNCHANGED <<rows, byChat, owner, pc, job, writer>>
TurnEnded ==
    /\ late # NoRecord /\ late' = NoRecord
    /\ byChat' = late
    /\ queued' = queued \ SpacesOf(late)
    /\ UNCHANGED <<space, payload, started, confirms, byThread, owner, pc, job, writer>>

\* A status message, settings or a model that is out of date: the row of a space
\* that is not closed is read, and written back later.
ReadRow(s) ==
    /\ writer = Idle /\ space[s].lifecycle # "closed"
    /\ writer' = [Idle EXCEPT !.at = s, !.row = space[s]]
    /\ UNCHANGED <<rows, registry, owner, pc, job, late>>
WriteRow ==
    /\ writer # Idle /\ writer' = Idle
    /\ Upsert(writer.at, writer.row)
    /\ UNCHANGED <<payload, started, queued, confirms, registry, owner, pc, job, late>>

\* restore_active_sessions: every active space is put in the registry, the most
\* recently updated last.
Restart ==
    /\ pc' = "idle" /\ job' = Idle /\ writer' = Idle /\ late' = NoRecord
    /\ LET active == {s \in Spaces : space[s].lifecycle = "active"}
           of(s) == [thread |-> space[s].thread, turn |-> FALSE]
       IN /\ byThread' = [t \in Threads |-> IF \E s \in active : space[s].thread = t
                                            THEN [thread |-> t, turn |-> FALSE]
                                            ELSE NoRecord]
          /\ byChat' \in IF active = {} THEN {NoRecord} ELSE {of(s) : s \in active}
    /\ UNCHANGED <<rows, owner>>

Next ==
    \/ Chat
    \/ \E t \in Threads : TurnEnds(t)
    \/ TurnEnded
    \/ \E s \in Spaces : ReadRow(s)
    \/ WriteRow
    \/ Restart
Spec == Init /\ [][Next]_vars

------------------------------------------------------------------------------
(* Properties *)

\* A space that was closed stays closed, at its generation and with its thread,
\* whichever task still holds a copy of the row from before (the WHERE of
\* upsert_session_space, and close_session_space).
StaysClosed == \A s \in Spaces : space[s].lifecycle = "closed" => space'[s] = space[s]

\* A space is active only once its first prompt is known to have started, over
\* failed calls, restarts and copies written back late (activate_pending_session).
ActiveStarted == \A s \in Spaces : space[s].lifecycle = "active" => s \in started

\* As long as the first prompt is not known to have started its record is kept,
\* and /totp can send it (pending_space, deleted last).
FirstPromptKept == Spaces \subseteq started \cup payload

\* A prompt under the root of a space is submitted to the session of that space
\* ("Discussion Bot forwards messages to the matching Codex session").
PromptReachesItsSession == pc = "submit" => owner[job.session.thread] = job.at
=============================================================================
