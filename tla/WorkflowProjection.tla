--------------------------- MODULE WorkflowProjection --------------------------
(* CodexWorkflowProjection of the engine crate: what is known of the prompts   *)
(* sent to Codex and of the requests Codex has made, from the events an adapter*)
(* feeds it. The daemon of this commit does not use it yet. The adapter of the *)
(* model calls each method in the states its comments and tests call it in; a  *)
(* call that returns an error changes nothing.                                 *)
EXTENDS Naturals, Sequences, FiniteSets

CONSTANTS
    Prompts,       \* client message ids, of one WorkflowScope
    Requests,      \* keys of server requests
    MaxDispatches, \* bound: dispatches of a prompt
    MaxGeneration  \* bound: connection attempts of the client

VARIABLES
    \* the projection
    connection_generation, connected,
    intents,           \* of each prompt: its state, and its turn or 0
    queue,             \* prompts of the scope, in order
    pending_requests,  \* of each request: its state and generation
    terminal_turns,    \* of each prompt: its turns known to have ended
    \* the client and the app-server
    client,            \* last ConnectionState of the client
    sent,              \* of each prompt: what became of its last dispatch
    \* history
    dispatched, absences, finished,  \* of each prompt: how often
    claimed            \* of each request: how often
projection == <<connection_generation, connected, intents, queue, pending_requests, terminal_turns>>
counts == <<dispatched, absences, finished, claimed>>
vars == <<projection, client, sent, counts>>

Ends == {"Completed", "Failed", "Cancelled"}
Terminal == Ends \cup {"Uncertain"}
States == {"none", "Received", "AwaitingChoice", "Queued", "Submitting", "Started"} \cup Terminal
Open == {"Available", "Claimed", "Responded"}

TypeOK ==
    /\ connection_generation \in Nat /\ connected \in BOOLEAN
    /\ intents \in [Prompts -> [state : States, turn : Nat]]
    /\ queue \in Seq(Prompts)
    /\ pending_requests \in
          [Requests -> [state : Open \cup {"none", "Resolved", "Retired"}, generation : Nat]]
    /\ terminal_turns \in [Prompts -> SUBSET Nat]
    /\ client \in [generation : Nat, link : {"trying", "up", "lost"}]
    /\ sent \in [Prompts -> {"none", "lost", "running"} \cup Ends]
    /\ dispatched \in [Prompts -> Nat] /\ absences \in [Prompts -> Nat]
    /\ finished \in [Prompts -> Nat] /\ claimed \in [Requests -> Nat]

Init ==
    /\ connection_generation = 0 /\ connected = FALSE
    /\ intents = [p \in Prompts |-> [state |-> "none", turn |-> 0]] /\ queue = <<>>
    /\ pending_requests = [r \in Requests |-> [state |-> "none", generation |-> 0]]
    /\ terminal_turns = [p \in Prompts |-> {}]
    /\ client = [generation |-> 0, link |-> "lost"]
    /\ sent = [p \in Prompts |-> "none"]
    /\ dispatched = [p \in Prompts |-> 0] /\ absences = [p \in Prompts |-> 0]
    /\ finished = [p \in Prompts |-> 0] /\ claimed = [r \in Requests |-> 0]

Move(p, state) ==
    intents' = [intents EXCEPT ![p] = [state |-> state, turn |-> intents[p].turn]]
Bump(f, x) == [f EXCEPT ![x] = @ + 1]

------------------------------------------------------------------------------
(* Outside *)

\* The client announces an attempt, the connection, and its end.
Attempt ==
    /\ client.link # "up" /\ client.generation < MaxGeneration
    /\ client' = [generation |-> client.generation + 1, link |-> "trying"]
    /\ UNCHANGED <<projection, sent, counts>>
Connect ==
    /\ client.link = "trying" /\ client' = [client EXCEPT !.link = "up"]
    /\ UNCHANGED <<projection, sent, counts>>
Lose ==
    /\ client.link = "up" /\ client' = [client EXCEPT !.link = "lost"]
    /\ UNCHANGED <<projection, sent, counts>>

\* A dispatch was lost, or is a turn that runs and ends.
TurnEnds(p) ==
    /\ sent[p] = "running"
    /\ \E status \in Ends : sent' = [sent EXCEPT ![p] = status]
    /\ UNCHANGED <<projection, client, counts>>

------------------------------------------------------------------------------
(* Connection *)

Unclear(p) ==
    [state |-> IF intents[p].state = "Submitting" THEN "Uncertain" ELSE intents[p].state,
     turn  |-> intents[p].turn]
Outdated(r) ==
    LET request == pending_requests[r] IN
    [state |-> IF request.state \in Open /\ request.generation # client.generation
               THEN "Retired" ELSE request.state,
     generation |-> request.generation]

\* observe_connection: the adapter reads the last state of the client.
ObserveConnection ==
    /\ client.generation >= connection_generation
    /\ connection_generation' = client.generation /\ connected' = (client.link = "up")
    /\ IF client.link = "up" /\ connection_generation # client.generation
       THEN /\ intents' = [p \in Prompts |-> Unclear(p)]
            /\ pending_requests' = [r \in Requests |-> Outdated(r)]
       ELSE UNCHANGED <<intents, pending_requests>>
    /\ UNCHANGED <<queue, terminal_turns, client, sent, counts>>

------------------------------------------------------------------------------
(* Prompts *)

CreatePrompt(p) ==
    /\ intents[p].state = "none" /\ Move(p, "Received")
    /\ UNCHANGED <<connection_generation, connected, queue, pending_requests, terminal_turns,
                   client, sent, counts>>
AwaitChoice(p) ==
    /\ intents[p].state = "Received" /\ Move(p, "AwaitingChoice")
    /\ UNCHANGED <<connection_generation, connected, queue, pending_requests, terminal_turns,
                   client, sent, counts>>
QueuePrompt(p) ==
    /\ intents[p].state \in {"Received", "AwaitingChoice"} /\ Move(p, "Queued")
    /\ queue' = IF \E i \in DOMAIN queue : queue[i] = p THEN queue ELSE Append(queue, p)
    /\ UNCHANGED <<connection_generation, connected, pending_requests, terminal_turns,
                   client, sent, counts>>

\* begin_dispatch: only the head of the queue, and only if it waits.
Waiting == {p \in Prompts : intents[p].state = "Queued"}
Ready == {p \in Waiting : queue # <<>> /\ p = Head(queue)}
BeginDispatch ==
    /\ \E p \in Ready :
       /\ dispatched[p] < MaxDispatches
       /\ Move(p, "Submitting") /\ dispatched' = Bump(dispatched, p)
       /\ \E fate \in {"lost", "running"} : sent' = [sent EXCEPT ![p] = fate]
    /\ UNCHANGED <<connection_generation, connected, queue, pending_requests, terminal_turns,
                   client, absences, finished, claimed>>

\* The queue without a prompt, which is in it once at most.
Retained(p) ==
    IF \E i \in DOMAIN queue : queue[i] = p
    THEN LET at == CHOOSE i \in DOMAIN queue : queue[i] = p IN
         [i \in 1..Len(queue) - 1 |-> IF i < at THEN queue[i] ELSE queue[i + 1]]
    ELSE queue

\* finish_prompt; the turn of a prompt is numbered by its dispatch.
Finish(p, status) ==
    /\ intents' = [intents EXCEPT ![p] = [state |-> status, turn |-> dispatched[p]]]
    /\ queue' = Retained(p)
    /\ finished' = Bump(finished, p)
StartTurn(p) ==
    /\ intents' = [intents EXCEPT ![p] = [state |-> "Started", turn |-> dispatched[p]]]
    /\ UNCHANGED <<queue, finished>>

\* observe_delivery: the adapter has read the thread. The turn is there, at the
\* time of the read over or not; or it is absent; or the read failed.
Present(p) ==
    /\ sent[p] \in {"running"} \cup Ends
    /\ \/ StartTurn(p)
       \/ sent[p] \in Ends /\ Finish(p, sent[p])
    /\ UNCHANGED absences
Requeue(p) ==
    /\ Move(p, IF intents[p].state \in {"Submitting", "Uncertain"} THEN "Queued"
               ELSE intents[p].state)
    /\ UNCHANGED <<queue, finished>>
Absent(p) == sent[p] = "lost" /\ absences' = Bump(absences, p) /\ Requeue(p)
UnknownAsAbsent(p) == Requeue(p) /\ UNCHANGED absences
Unknown(p) ==
    /\ Move(p, IF intents[p].state \in Terminal THEN intents[p].state ELSE "Uncertain")
    /\ UNCHANGED <<queue, finished, absences>>
ReadAny(p) ==
    /\ Present(p) \/ Absent(p) \/ Unknown(p)
    /\ UNCHANGED <<connection_generation, connected, pending_requests, terminal_turns, client, sent,
                   dispatched, claimed>>
ObserveDelivery(p) ==
    /\ intents[p].state \in {"Submitting", "Uncertain", "Started"}
    /\ ReadAny(p)

\* observe_turn_started
ObserveTurnStarted(p) ==
    /\ sent[p] \notin {"none", "lost"}
    /\ \/ intents[p] = [state |-> "Started", turn |-> dispatched[p]]
       \/ intents[p].state \in {"Submitting", "Queued", "AwaitingChoice"}
    /\ IF dispatched[p] \in terminal_turns[p] THEN Finish(p, sent[p]) ELSE StartTurn(p)
    /\ UNCHANGED <<connection_generation, connected, pending_requests, terminal_turns, client, sent,
                   dispatched, absences, claimed>>

\* observe_turn_completed, which may come before the turn of the prompt is known
\* and may be repeated.
ObserveTurnCompleted(p) ==
    /\ sent[p] \in Ends
    /\ terminal_turns' = [terminal_turns EXCEPT ![p] = @ \cup {dispatched[p]}]
    /\ IF intents[p].turn = dispatched[p] /\ intents[p].state \notin Terminal
       THEN Finish(p, sent[p]) ELSE UNCHANGED <<intents, queue, finished>>
    /\ UNCHANGED <<connection_generation, connected, pending_requests, client, sent,
                   dispatched, absences, claimed>>

------------------------------------------------------------------------------
(* Server requests *)

SetRequest(r, state) ==
    pending_requests' = [pending_requests EXCEPT
        ![r] = [state |-> state, generation |-> pending_requests[r].generation]]
Rest == <<connection_generation, connected, intents, queue, terminal_turns, client, sent,
          dispatched, absences, finished>>

RegisterServerRequest(r) ==
    /\ connection_generation > 0 /\ connected /\ pending_requests[r].state = "none"
    /\ pending_requests' =
          [pending_requests EXCEPT ![r] = [state |-> "Available", generation |-> connection_generation]]
    /\ UNCHANGED <<Rest, claimed>>
ClaimCurrent(r) ==
    /\ SetRequest(r, "Claimed") /\ claimed' = Bump(claimed, r)
    /\ UNCHANGED Rest
ClaimAvailable(r) == pending_requests[r].state = "Available" /\ ClaimCurrent(r)
ClaimServerRequest(r) ==
    /\ pending_requests[r].state # "none"
    /\ IF connected /\ pending_requests[r].generation = connection_generation
       THEN ClaimAvailable(r)
       ELSE SetRequest(r, "Retired") /\ UNCHANGED <<Rest, claimed>>
MarkServerRequestResponded(r) ==
    /\ pending_requests[r].state = "Claimed" /\ SetRequest(r, "Responded")
    /\ UNCHANGED <<Rest, claimed>>
ObserveServerRequestResolved(r) ==
    /\ pending_requests[r].state \notin {"none", "Resolved"} /\ SetRequest(r, "Resolved")
    /\ UNCHANGED <<Rest, claimed>>

Prompt(p) ==
    \/ CreatePrompt(p) \/ AwaitChoice(p) \/ QueuePrompt(p)
    \/ ObserveDelivery(p) \/ ObserveTurnStarted(p) \/ ObserveTurnCompleted(p) \/ TurnEnds(p)
Request(r) ==
    \/ RegisterServerRequest(r) \/ ClaimServerRequest(r)
    \/ MarkServerRequestResponded(r) \/ ObserveServerRequestResolved(r)
Next ==
    \/ Attempt \/ Connect \/ Lose \/ ObserveConnection \/ BeginDispatch
    \/ \E p \in Prompts : Prompt(p)
    \/ \E r \in Requests : Request(r)
Spec == Init /\ [][Next]_vars

------------------------------------------------------------------------------
(* Properties *)

\* A prompt is sent again only when a read proved its last dispatch absent: not
\* after a reconnect, an unknown outcome or a repeated event ("until a turn ID or
\* a proven absence resolves the delivery ambiguity").
AmbiguousNotRetried == \A p \in Prompts : dispatched[p] <= absences[p] + 1

\* The end of a prompt is reported once, whether it comes as the end of its turn,
\* with the start of the turn, or from a read, and however often it is repeated.
FinishedOnce == \A p \in Prompts : finished[p] <= 1

\* A request is claimed by one callback at most, over all connections.
ClaimedOnce == \A r \in Requests : claimed[r] <= 1

\* Behind the head of the queue nothing is under way ("queue retries only after
\* terminal turn releases the gate").
GateHolds ==
    \A i \in 2..Len(queue) : intents[queue[i]].state = "Queued"

\* The four promises the queue, the retries and the callbacks rest on.
WorkflowSafe == AmbiguousNotRetried /\ FinishedOnce /\ ClaimedOnce /\ GateHolds
=============================================================================
