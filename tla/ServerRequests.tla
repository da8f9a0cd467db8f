---------------------------- MODULE ServerRequests ----------------------------
(***************************************************************************)
(* What happens to a request the app-server makes of the bridge (an        *)
(* approval of a command or a patch) until it is answered: the connection  *)
(* task reads it and hands it to the presenter task (handle_server_        *)
(* requests), which stores an approval with one callback per button and    *)
(* posts the prompt; a press of a button is handled by the chat's worker   *)
(* (handle_callback), which sends the decision back through the client's   *)
(* outbound queue and waits for the write.                                 *)
(*                                                                         *)
(* The connection comes and goes underneath: each one has a generation,    *)
(* counted from 1 in every process.  Approvals and callbacks are durable,  *)
(* the generation in a callback included; the queues are not.              *)
(*                                                                         *)
(* The unit of interleaving is a stretch of code with no await: four       *)
(* worker threads run the tasks.  A button that has expired, or whose user *)
(* is not allowed to press it or has not unlocked the session, changes     *)
(* nothing when pressed, so it is a button nobody presses.                 *)
(***************************************************************************)
EXTENDS Naturals, FiniteSets, Sequences

CONSTANTS
    Requests,         \* the app-server's requests
    Decisions,        \* the buttons of a prompt
    InboxCapacity,    \* config.notification_capacity
    OutboundCapacity, \* config.outbound_capacity
    MaxGeneration,    \* BOUND: connection attempts of one process
    MaxPresses,       \* BOUND: presses of a live button
    MaxCrashes,       \* BOUND: crashes or restarts of the bridge
    MaxFaults         \* BOUND: store calls that return an error

ASSUME CapacityAssumption ==
    InboxCapacity \in Nat \ {0} /\ OutboundCapacity \in Nat \ {0}
ASSUME BoundAssumption ==
    {MaxGeneration, MaxPresses, MaxCrashes, MaxFaults} \subseteq Nat
ASSUME DecisionsAssumption ==
    Decisions \cap {"none", "pending", "undelivered", "error"} = {}

Tasks == {"chat", "presenter"}
Nobody == "nobody"                  \* waits for a reply that was given up
Answers == Decisions \cup {"error"}

VARIABLES
    \* the client and its connection
    generation,  \* ConnectionState.generation; transport_generation if active
    active,      \* transport_active
    link,        \* history: connections made so far, over all processes
    wire,        \* requests sent on this connection and not read yet
    held,        \* the request read but not yet accepted by the channel
    inbox,       \* server_requests: [request, generation]
    outbound,    \* replies: [request, answer, generation, waiter, queuedOn]
    \* durable
    live,        \* unconsumed rows of rust_callbacks, as <<request, decision>>
    stamp,       \* the generation stored with a request's callbacks
    approval,    \* the approvals table; the row rejected because its prompt
                 \* could not be posted is told apart as "undelivered"
    \* the tasks
    pc,          \* what each task is about to do
    job,         \* per task, the <<request, answer>> it works on
    ack,         \* per task, what the write it waits for has come to
    \* Telegram, the app-server, and what was observed
    shown,       \* requests whose prompt is visible
    asked,       \* per request, the link it was made on, 0 for none
    written,     \* history: [request, answer, link, queuedOn], in order
    disturbed,   \* history: requests that met a fault, see SingleAnswer
    presses, crashes, faults

transport == <<generation, active, link, wire, held>>
queues    == <<inbox, outbound>>
store     == <<live, stamp, approval>>
tasks     == <<pc, job, ack>>
history   == <<written, disturbed>>
outside   == <<shown, asked>>
budget    == <<presses, crashes, faults>>
vars == <<transport, queues, store, tasks, history, outside, budget>>

Buttons(r) == {r} \X Decisions

Idle == [t \in Tasks |-> "idle"]
NoJob == <<"none", "none">>

Init ==
    /\ generation = 0 /\ active = FALSE /\ link = 0
    /\ wire = <<>> /\ held = {} /\ inbox = <<>> /\ outbound = <<>>
    /\ live = {} /\ stamp = [r \in Requests |-> 0]
    /\ approval = [r \in Requests |-> "none"]
    /\ pc = Idle /\ job = [t \in Tasks |-> NoJob]
    /\ ack = [t \in Tasks |-> "none"]
    /\ shown = {} /\ asked = [r \in Requests |-> 0]
    /\ written = <<>> /\ disturbed = {}
    /\ presses = 0 /\ crashes = 0 /\ faults = 0

Goto(t, l) == pc' = [pc EXCEPT ![t] = l] /\ UNCHANGED <<job, ack>>

\* A handler ends and its locals are gone.
Finish(t) ==
    /\ pc' = [pc EXCEPT ![t] = "idle"]
    /\ job' = [job EXCEPT ![t] = NoJob]
    /\ ack' = [ack EXCEPT ![t] = "none"]

StoreFails == faults < MaxFaults /\ faults' = faults + 1
StoreWorks == UNCHANGED faults

------------------------------------------------------------------------------
(* The connection task: supervise and run_connection.                      *)

Connect ==
    /\ ~active /\ generation < MaxGeneration
    /\ generation' = generation + 1
    /\ active' = TRUE
    /\ link' = link + 1
    /\ UNCHANGED <<wire, held, queues, store, tasks, history, outside, budget>>

ConnectFails ==
    /\ ~active /\ generation < MaxGeneration
    /\ generation' = generation + 1
    /\ UNCHANGED <<active, link, wire, held, queues, store, tasks, history,
                   outside, budget>>

\* The end of a connection is noticed in the select, which a task that waits
\* for room in the channel does not reach.  Queued replies outlive it.
Disconnect ==
    /\ active /\ held = {}
    /\ active' = FALSE
    /\ wire' = <<>>
    /\ UNCHANGED <<generation, link, held, queues, store, tasks, history,
                   outside, budget>>

\* The app-server asks.
Ask(r) ==
    /\ active /\ asked[r] = 0
    /\ asked' = [asked EXCEPT ![r] = link]
    /\ wire' = Append(wire, r)
    /\ UNCHANGED <<generation, active, link, held, queues, store, tasks,
                   history, shown, budget>>

ReadRequest ==
    /\ active /\ held = {} /\ wire # <<>>
    /\ held' = {Head(wire)}
    /\ wire' = Tail(wire)
    /\ UNCHANGED <<generation, active, link, queues, store, tasks, history,
                   outside, budget>>

\* Mutant: the channel is unbounded.
ForwardAnyway ==
    /\ \E r \in held :
         inbox' = Append(inbox, [request |-> r, generation |-> generation])
    /\ held' = {}
    /\ UNCHANGED <<generation, active, link, wire, outbound, store, tasks,
                   history, outside, budget>>

\* inner.server_requests.send(..).await
ForwardRequest ==
    /\ Len(inbox) < InboxCapacity
    /\ \E r \in held :
         inbox' = Append(inbox, [request |-> r, generation |-> generation])
    /\ held' = {}
    /\ UNCHANGED <<generation, active, link, wire, outbound, store, tasks,
                   history, outside, budget>>

\* The oneshot a reply carries; nobody listens to it after a timeout.
Acknowledge(m, outcome) ==
    ack' = [t \in Tasks |-> IF t = m.waiter THEN outcome ELSE ack[t]]

Entry(m) == [request |-> m.request, answer |-> m.answer,
             link |-> link, queuedOn |-> m.queuedOn]

\* Mutant: what was queued for the last connection is written to this one.
WriteUnchecked ==
    /\ active /\ held = {} /\ outbound # <<>>
    /\ written' = Append(written, Entry(Head(outbound)))
    /\ Acknowledge(Head(outbound), "ok")
    /\ outbound' = Tail(outbound)
    /\ UNCHANGED <<transport, inbox, store, pc, job, disturbed, outside, budget>>

\* write_outbound: a reply of this generation is written, ...
WriteReply ==
    /\ active /\ held = {} /\ outbound # <<>>
    /\ Head(outbound).generation = generation
    /\ written' = Append(written, Entry(Head(outbound)))
    /\ Acknowledge(Head(outbound), "ok")
    /\ outbound' = Tail(outbound)
    /\ UNCHANGED <<transport, inbox, store, pc, job, disturbed, outside, budget>>

\* ... one of an earlier generation is refused, ...
RefuseStaleReply ==
    /\ active /\ held = {} /\ outbound # <<>>
    /\ Head(outbound).generation # generation
    /\ Acknowledge(Head(outbound), "failed")
    /\ outbound' = Tail(outbound)
    /\ UNCHANGED <<transport, inbox, store, pc, job, history, outside, budget>>

\* ... and an error of the socket ends the connection.  The app-server may
\* have received the frame all the same.
WriteFails ==
    /\ active /\ held = {} /\ outbound # <<>>
    /\ Head(outbound).generation = generation
    /\ \/ /\ written' = Append(written, Entry(Head(outbound)))
          /\ disturbed' = disturbed \cup {Head(outbound).request}
       \/ UNCHANGED history
    /\ Acknowledge(Head(outbound), "failed")
    /\ outbound' = Tail(outbound)
    /\ active' = FALSE
    /\ wire' = <<>>
    /\ UNCHANGED <<generation, link, held, inbox, store, pc, job, outside, budget>>

------------------------------------------------------------------------------
(* Sending a reply: send_response stamps it with the generation of now.    *)

\* Mutant: the caller goes on as soon as the reply is queued.
SendAndForget(t) ==
    /\ pc[t] = "respond"
    /\ active /\ Len(outbound) < OutboundCapacity
    /\ outbound' = Append(outbound,
         [request |-> job[t][1], answer |-> job[t][2],
          generation |-> generation, waiter |-> Nobody, queuedOn |-> link])
    /\ pc' = [pc EXCEPT ![t] = "wait"]
    /\ ack' = [ack EXCEPT ![t] = "ok"]
    /\ UNCHANGED <<transport, inbox, store, job, history, outside, budget>>

SendReply(t) ==
    /\ pc[t] = "respond"
    /\ active /\ Len(outbound) < OutboundCapacity
    /\ outbound' = Append(outbound,
         [request |-> job[t][1], answer |-> job[t][2],
          generation |-> generation, waiter |-> t, queuedOn |-> link])
    /\ Goto(t, "wait")
    /\ UNCHANGED <<transport, inbox, store, history, outside, budget>>

\* What a task does when its reply was not accepted: the presenter only logs
\* it, a press gives the button back ("not delivered, try again later").
GiveUp(t) ==
    /\ Finish(t)
    /\ live' = IF t = "chat" THEN live \cup {job[t]} ELSE live
    /\ UNCHANGED <<stamp, approval>>

\* Disconnected or QueueFull.
ReplyRefused(t) ==
    /\ pc[t] = "respond"
    /\ ~active \/ Len(outbound) = OutboundCapacity
    /\ GiveUp(t)
    /\ UNCHANGED <<transport, queues, history, outside, budget>>

ReplyFailed(t) ==
    /\ pc[t] = "wait" /\ ack[t] = "failed"
    /\ GiveUp(t)
    /\ UNCHANGED <<transport, queues, history, outside, budget>>

\* Mutant: the wait for the write has no deadline.
NeverTimedOut(t) == FALSE /\ UNCHANGED vars

\* The wait lasts INITIALIZE_TIMEOUT at most; the reply stays queued.
ReplyTimedOut(t) ==
    /\ pc[t] = "wait" /\ ack[t] = "none"
    /\ outbound' = [i \in DOMAIN outbound |->
                      IF outbound[i].waiter = t
                      THEN [outbound[i] EXCEPT !.waiter = Nobody]
                      ELSE outbound[i]]
    /\ disturbed' = disturbed \cup {job[t][1]}
    /\ GiveUp(t)
    /\ UNCHANGED <<transport, inbox, written, outside, budget>>

ReplyWritten(t) ==
    /\ pc[t] = "wait" /\ ack[t] = "ok"
    /\ IF t = "chat" THEN Goto(t, "decide") ELSE Finish(t)
    /\ UNCHANGED <<transport, queues, store, history, outside, budget>>

------------------------------------------------------------------------------
(* The presenter task: handle_server_request.                              *)

Receive ==
    /\ pc["presenter"] = "idle" /\ inbox # <<>>
    /\ inbox' = Tail(inbox)
    /\ UNCHANGED <<transport, outbound, history, outside, presses, crashes>>

StartOn(m, l) ==
    /\ pc' = [pc EXCEPT !["presenter"] = l]
    /\ job' = [job EXCEPT !["presenter"] = <<m.request, "error">>]
    /\ UNCHANGED ack

\* An unsupported method, an unmanaged thread, no decision to offer.
RefuseRequest ==
    /\ Receive /\ StoreWorks
    /\ StartOn(Head(inbox), "respond")
    /\ UNCHANGED store

\* insert_approval and create_callback, then the message to Telegram.
Present ==
    /\ Receive /\ StoreWorks
    /\ LET r == Head(inbox).request IN
         /\ approval' = [approval EXCEPT ![r] = "pending"]
         /\ live' = live \cup Buttons(r)
         /\ stamp' = [stamp EXCEPT ![r] = Head(inbox).generation]
    /\ StartOn(Head(inbox), "send")

\* An error of the store ends the handler before the prompt is posted; the
\* app-server gets no answer.
PresentFails ==
    /\ Receive /\ StoreFails
    /\ \/ UNCHANGED approval
       \/ approval' = [approval EXCEPT ![Head(inbox).request] = "pending"]
    /\ UNCHANGED <<live, stamp, tasks>>

Prompt == job["presenter"][1]

\* Telegram shows the prompt; it can be pressed before the call returns.
ShowPrompt ==
    /\ pc["presenter"] = "send" /\ Prompt \notin shown
    /\ shown' = shown \cup {Prompt}
    /\ UNCHANGED <<transport, queues, store, tasks, history, asked, budget>>

PromptSent ==
    /\ pc["presenter"] = "send" /\ Prompt \in shown
    /\ Finish("presenter")
    /\ UNCHANGED <<transport, queues, store, history, outside, budget>>

\* The call fails or times out, perhaps after the prompt was shown.
PromptFails ==
    /\ pc["presenter"] = "send"
    /\ Goto("presenter", "withdraw")
    /\ disturbed' = IF Prompt \in shown THEN disturbed \cup {Prompt}
                                        ELSE disturbed
    /\ UNCHANGED <<transport, queues, store, written, outside, budget>>

\* The callbacks are consumed and the approval is rejected; one that was
\* decided meanwhile is a conflict, which ends the handler.
Withdraw ==
    /\ pc["presenter"] = "withdraw"
    /\ live' = live \ Buttons(Prompt)
    /\ \/ /\ approval[Prompt] = "pending" /\ StoreWorks
          /\ approval' = [approval EXCEPT ![Prompt] = "undelivered"]
          /\ Goto("presenter", "respond")
       \/ /\ \/ approval[Prompt] # "pending" /\ StoreWorks
             \/ StoreFails
          /\ Finish("presenter")
          /\ UNCHANGED approval
    /\ UNCHANGED <<transport, queues, stamp, history, outside, presses, crashes>>

------------------------------------------------------------------------------
(* The chat's worker: handle_callback for "ra:" buttons.                   *)

\* take_callback_scoped consumes the button; one that is not live does nothing.
Press(b) ==
    /\ pc["chat"] = "idle" /\ presses < MaxPresses
    /\ b \in live /\ b[1] \in shown
    /\ live' = live \ {b}
    /\ job' = [job EXCEPT !["chat"] = b]
    /\ presses' = presses + 1
    /\ pc' = [pc EXCEPT !["chat"] = "validate"]
    /\ UNCHANGED <<transport, queues, stamp, approval, ack, history, outside,
                   crashes, faults>>

Pressed == job["chat"][1]

\* Mutant: the approval is not looked up before the decision is sent.
GenerationMatches == stamp[Pressed] = generation

StillOpen == stamp[Pressed] = generation /\ approval[Pressed] = "pending"

Validate ==
    /\ pc["chat"] = "validate"
    /\ \/ StillOpen /\ StoreWorks /\ Goto("chat", "respond")
       \/ ~StillOpen /\ StoreWorks /\ Finish("chat")
       \/ StoreFails /\ Finish("chat")
    /\ UNCHANGED <<transport, queues, store, history, outside, presses, crashes>>

\* The reply was written: record it.  A conflict or an error of the store
\* gives the button back.
Decide ==
    /\ pc["chat"] = "decide"
    /\ \/ /\ approval[Pressed] = "pending" /\ StoreWorks
          /\ approval' = [approval EXCEPT ![Pressed] = job["chat"][2]]
          /\ UNCHANGED <<live, disturbed>>
       \/ /\ \/ approval[Pressed] # "pending" /\ StoreWorks
             \/ StoreFails
          /\ live' = live \cup {job["chat"]}
          /\ disturbed' = disturbed \cup {Pressed}
          /\ UNCHANGED approval
    /\ Finish("chat")
    /\ UNCHANGED <<transport, queues, stamp, written, outside, presses, crashes>>

------------------------------------------------------------------------------
\* The process dies; the app-server and the database live on.
Restart ==
    /\ crashes < MaxCrashes
    /\ crashes' = crashes + 1
    /\ generation' = 0 /\ active' = FALSE
    /\ wire' = <<>> /\ held' = {} /\ inbox' = <<>> /\ outbound' = <<>>
    /\ pc' = Idle /\ job' = [t \in Tasks |-> NoJob]
    /\ ack' = [t \in Tasks |-> "none"]
    /\ disturbed' = disturbed \cup {r \in Requests : asked[r] # 0}
    /\ UNCHANGED <<link, store, written, outside, presses, faults>>

Connection == ReadRequest \/ ForwardRequest \/ WriteReply \/ RefuseStaleReply

Reply(t) ==
    \/ SendReply(t) \/ ReplyRefused(t)
    \/ ReplyWritten(t) \/ ReplyFailed(t) \/ ReplyTimedOut(t)

Presenter ==
    \/ RefuseRequest \/ Present \/ PresentFails
    \/ PromptSent \/ PromptFails \/ Withdraw
    \/ Reply("presenter")

Chat == Validate \/ Decide \/ Reply("chat")

Next ==
    \/ Connect \/ ConnectFails \/ Disconnect \/ WriteFails
    \/ \E r \in Requests : Ask(r)
    \/ Connection \/ Presenter \/ Chat
    \/ ShowPrompt
    \/ \E b \in Requests \X Decisions : Press(b)
    \/ Restart

Spec == Init /\ [][Next]_vars

\* The tasks are scheduled; every wait for Telegram or for a write has a
\* deadline.  Nothing is assumed of the app-server, of reconnecting, of users.
FairSpec == Spec /\ WF_vars(Connection) /\ WF_vars(Presenter) /\ WF_vars(Chat)

------------------------------------------------------------------------------
Labels == {"idle", "send", "withdraw", "validate", "respond", "wait", "decide"}
Replies ==
    [request : Requests, answer : Answers, generation : Nat,
     waiter : Tasks \cup {Nobody}, queuedOn : Nat]
Entries == [request : Requests, answer : Answers, link : Nat, queuedOn : Nat]

\* Every variable has its type, and no queue outgrows its capacity.
TypeOK ==
    /\ generation \in Nat /\ active \in BOOLEAN /\ link \in Nat
    /\ wire \in Seq(Requests)
    /\ held \in SUBSET Requests
    /\ inbox \in Seq([request : Requests, generation : Nat])
    /\ Len(inbox) <= InboxCapacity
    /\ outbound \in Seq(Replies)
    /\ Len(outbound) <= OutboundCapacity
    /\ live \in SUBSET (Requests \X Decisions)
    /\ stamp \in [Requests -> Nat]
    /\ approval \in [Requests -> Decisions \cup {"none", "pending", "undelivered"}]
    /\ pc \in [Tasks -> Labels]
    /\ job \in [Tasks -> (Requests \X Answers) \cup {NoJob}]
    /\ ack \in [Tasks -> {"none", "ok", "failed"}]
    /\ shown \in SUBSET Requests
    /\ asked \in [Requests -> Nat]
    /\ written \in Seq(Entries)
    /\ disturbed \in SUBSET Requests
    /\ presses \in Nat /\ crashes \in Nat /\ faults \in Nat

\* lib.rs:1074-1085: a reply that waits in the queue while the connection is
\* rebuilt is not written to the new one; it reaches the connection on which
\* it was queued, or none.
ReplyDiesWithItsConnection ==
    \A i \in DOMAIN written : written[i].link = written[i].queuedOn

Delivered(r, a) ==
    \E i \in DOMAIN written : written[i].request = r /\ written[i].answer = a

\* handle_callback records and confirms a decision ("approval submitted",
\* daemon.rs:8906) only when that decision was written to the app-server.
DecisionDelivered ==
    \A r \in Requests : approval[r] \in Decisions => Delivered(r, approval[r])

\* daemon.rs:8851-8866 and decide_approval: a request is answered once, whichever buttons are
\* pressed and however the presenter and the chat's worker interleave, unless
\* one of these befell it: a wait for a write timed out, a socket failed
\* while it was written, Telegram showed a prompt whose call failed, the
\* decision could not be recorded, or the bridge was restarted.
SingleAnswer ==
    \A r \in Requests :
      Cardinality({i \in DOMAIN written : written[i].request = r}) > 1 =>
        r \in disturbed

\* Every wait of a task ends, whether or not Codex comes back: presses and
\* presentations, and the wait of the connection task for room in the channel
\* of server requests.  The presenter that would make that room may itself wait
\* for a reply only the connection task can write (lib.rs:750-753, 1209-1219);
\* the deadline of the reply gets both going again.
ConnectionUnblocks == (held # {}) ~> (held = {})
TasksEnd ==
    /\ \A t \in Tasks : (pc[t] # "idle") ~> (pc[t] = "idle")
    /\ ConnectionUnblocks

\* lib.rs:756-758: "Reply only on the same transport generation that
\* delivered a server request.  A reconnect must retire the old Telegram
\* callback instead of sending its decision to a new Codex connection."
ReplyStaysOnItsConnection ==
    \A i \in DOMAIN written : written[i].link = asked[written[i].request]
==============================================================================
