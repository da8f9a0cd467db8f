--------------------------- MODULE AppServerClient ---------------------------
(* Requests of the bridge to the Codex app-server (app-server/src/lib.rs):  *)
(* one connection task owns the transport, callers queue requests to it,    *)
(* each holding a permit until it is answered.  A request has one deadline  *)
(* and is tried a second time when a reconnect kills it.  The connection    *)
(* task also feeds the bounded channel of notifications; the event task at  *)
(* its other end makes requests itself.  The replies to the app-server's    *)
(* own requests, which share the queue, are in ServerRequests.              *)
EXTENDS Naturals, Sequences, FiniteSets

CONSTANTS
    Requests,            \* calls of request()
    EventRequests,       \* those the event task makes while it handles an event
    Permits,             \* pending_capacity
    OutboundCapacity,    \* outbound_capacity
    EventCapacity,       \* notification_capacity
    MaxGenerations,      \* bound on connection attempts
    MaxEvents,           \* bound on notifications
    None                 \* the event task makes no request

ASSUME ConstantsAssumption ==
    /\ EventRequests \subseteq Requests
    /\ IsFiniteSet(Requests)
    /\ Permits \in Nat \ {0}
    /\ OutboundCapacity \in Nat \ {0}
    /\ EventCapacity \in Nat \ {0}
    /\ MaxGenerations \in Nat
    /\ MaxEvents \in Nat
    /\ None \notin Requests

VARIABLES
    generation,   \* of the last connection attempt
    link,         \* "down", "up", or "closing": pending is dropped, state not yet published
    connected,    \* ConnectionState.connected
    stopping,     \* "no", "asked" (shutdown flag), "done" (the queue is closed)
    outbound,     \* the queue to the connection task
    pending,      \* requests written on this connection and not answered
    permits,      \* free permits of the semaphore
    phase,        \* of each request: "idle", "connecting", "permit", "waiting", "done"
    attempt,      \* 0, 1 or 2
    seen,         \* generation each attempt waited for
    reply,        \* what the oneshot channel of the attempt holds
    outcome,      \* what request() returned
    runs,         \* how often the request was written to the app-server
    events,       \* notifications in the channel
    told,         \* notifications the app-server has sent
    blocked,      \* the connection task waits for room in the channel
    handling      \* the request the event task waits for
linkVars == <<generation, link, connected, stopping>>
callVars == <<phase, attempt, seen, outcome>>
eventVars == <<events, told, handling>>
vars == <<linkVars, outbound, pending, permits, callVars, reply, runs, eventVars, blocked>>

Entry == [request : Requests, generation : 0..MaxGenerations]
Ended == {"timeout", "queueFull", "shutdown", "disconnected", "ok", "error"}

TypeOK ==
    /\ generation \in 0..MaxGenerations
    /\ link \in {"down", "up", "closing"}
    /\ connected \in BOOLEAN
    /\ stopping \in {"no", "asked", "done"}
    /\ outbound \in Seq(Entry)
    /\ pending \subseteq Requests
    /\ permits \in 0..Permits
    /\ phase \in [Requests -> {"idle", "connecting", "permit", "waiting", "done"}]
    /\ attempt \in [Requests -> 0..2]
    /\ seen \in [Requests -> [1..2 -> 0..MaxGenerations]]
    /\ reply \in [Requests -> {"none", "disconnected", "shutdown", "ok", "error"}]
    /\ outcome \in [Requests -> Ended \cup {"none"}]
    /\ runs \in [Requests -> 0..2]
    /\ events \in 0..EventCapacity
    /\ told \in 0..MaxEvents
    /\ blocked \in BOOLEAN
    /\ handling \in Requests \cup {None}

Init ==
    /\ generation = 0 /\ link = "down" /\ connected = FALSE /\ stopping = "no"
    /\ outbound = <<>> /\ pending = {} /\ permits = Permits
    /\ phase = [r \in Requests |-> "idle"]
    /\ attempt = [r \in Requests |-> 0]
    /\ seen = [r \in Requests |-> [a \in 1..2 |-> 0]]
    /\ reply = [r \in Requests |-> "none"]
    /\ outcome = [r \in Requests |-> "none"]
    /\ runs = [r \in Requests |-> 0]
    /\ events = 0 /\ told = 0 /\ blocked = FALSE /\ handling = None

------------------------------------------------------------------------------
(* The caller: request and request_once. *)

Start(r) ==
    /\ phase[r] = "idle"
    /\ phase' = [phase EXCEPT ![r] = "connecting"]
    /\ attempt' = [attempt EXCEPT ![r] = 1]
    /\ UNCHANGED <<seen, outcome>>

Return(r, result) ==
    /\ phase' = [phase EXCEPT ![r] = "done"]
    /\ outcome' = [outcome EXCEPT ![r] = result]
    /\ UNCHANGED <<attempt, seen>>

Request(r) ==
    /\ r \notin EventRequests
    /\ Start(r)
    /\ UNCHANGED <<linkVars, outbound, pending, permits, reply, runs, eventVars, blocked>>

\* wait_connected returns the state it sees.
SeeConnected(r) ==
    /\ phase[r] = "connecting" /\ connected
    /\ phase' = [phase EXCEPT ![r] = "permit"]
    /\ seen' = [seen EXCEPT ![r][attempt[r]] = generation]
    /\ UNCHANGED <<linkVars, outbound, pending, permits, attempt, outcome, reply, runs,
                   eventVars, blocked>>

\* Both attempts share one reply channel.
EnqueueShared(r) ==
    /\ phase[r] = "permit" /\ permits > 0
    /\ stopping # "done" /\ Len(outbound) < OutboundCapacity
    /\ outbound' = Append(outbound, [request |-> r, generation |-> seen[r][attempt[r]]])
    /\ permits' = permits - 1
    /\ phase' = [phase EXCEPT ![r] = "waiting"]
    /\ UNCHANGED <<linkVars, pending, attempt, seen, outcome, reply, runs, eventVars, blocked>>

\* A permit is free and the queue has room: no await lies between the two.
Enqueue(r) ==
    /\ phase[r] = "permit" /\ permits > 0
    /\ stopping # "done" /\ Len(outbound) < OutboundCapacity
    /\ outbound' = Append(outbound, [request |-> r, generation |-> seen[r][attempt[r]]])
    /\ permits' = permits - 1
    /\ reply' = [reply EXCEPT ![r] = "none"]
    /\ phase' = [phase EXCEPT ![r] = "waiting"]
    /\ UNCHANGED <<linkVars, pending, attempt, seen, outcome, runs, eventVars, blocked>>

\* try_send fails; the permit goes back with the message.
Refused(r) ==
    /\ phase[r] = "permit" /\ permits > 0
    /\ \/ stopping = "done" /\ Return(r, "shutdown")
       \/ stopping # "done" /\ Len(outbound) = OutboundCapacity /\ Return(r, "queueFull")
    /\ UNCHANGED <<linkVars, outbound, pending, permits, reply, runs, eventVars, blocked>>

Receive(r) ==
    /\ phase[r] = "waiting" /\ reply[r] # "none"
    /\ reply[r] = "disconnected" => attempt[r] = 2
    /\ Return(r, reply[r])
    /\ UNCHANGED <<linkVars, outbound, pending, permits, reply, runs, eventVars, blocked>>

Retry(r) ==
    /\ phase[r] = "waiting" /\ reply[r] = "disconnected" /\ attempt[r] = 1
    /\ phase' = [phase EXCEPT ![r] = "connecting"]
    /\ attempt' = [attempt EXCEPT ![r] = 2]
    /\ UNCHANGED <<linkVars, outbound, pending, permits, seen, outcome, reply, runs,
                   eventVars, blocked>>

\* A deadline for the response alone, restarted in every phase.
TimeOutWaiting(r) ==
    /\ phase[r] = "waiting" /\ reply[r] = "none"
    /\ Return(r, "timeout")
    /\ UNCHANGED <<linkVars, outbound, pending, permits, reply, runs, eventVars, blocked>>

\* The shared deadline ends the wait of any phase.  What the request left in
\* the queue or in pending stays there, with its permit.
TimeOut(r) ==
    /\ \/ phase[r] \in {"connecting", "permit"}
       \/ phase[r] = "waiting" /\ reply[r] = "none"
    /\ Return(r, "timeout")
    /\ UNCHANGED <<linkVars, outbound, pending, permits, reply, runs, eventVars, blocked>>

------------------------------------------------------------------------------
(* The connection task: supervise, run_connection, write_outbound,           *)
(* handle_inbound.  It does one thing at a time, and nothing while blocked.  *)

Reading == link = "up" /\ ~blocked

Connect ==
    /\ link = "down" /\ stopping = "no" /\ generation < MaxGenerations
    /\ generation' = generation + 1
    /\ link' \in {"up", "down"}
    /\ UNCHANGED <<connected, stopping, outbound, pending, permits, callVars, reply, runs,
                   eventVars, blocked>>

Initialized ==
    /\ Reading /\ ~connected
    /\ connected' = TRUE
    /\ UNCHANGED <<generation, link, stopping, outbound, pending, permits, callVars, reply,
                   runs, eventVars, blocked>>

\* The senders of the attempts in S are used or dropped: their waiters get
\* `result`.  A waiter that gave up has closed its end.
Send(S, result) ==
    [r \in Requests |-> IF r \in S /\ phase[r] = "waiting" THEN result ELSE reply[r]]

Current(e) == e.generation = generation /\ connected

Write ==
    /\ Reading /\ outbound # <<>>
    /\ LET e == Head(outbound) IN
       /\ Current(e)
       /\ pending' = pending \cup {e.request}
       /\ runs' = [runs EXCEPT ![e.request] = @ + 1]
    /\ outbound' = Tail(outbound)
    /\ UNCHANGED <<linkVars, permits, callVars, reply, eventVars, blocked>>

\* The permit of an entry that is not written is forgotten.
RefuseAndKeep ==
    /\ Reading /\ outbound # <<>> /\ ~Current(Head(outbound))
    /\ reply' = Send({Head(outbound).request}, "disconnected")
    /\ outbound' = Tail(outbound)
    /\ UNCHANGED <<linkVars, pending, permits, callVars, runs, eventVars, blocked>>

\* An entry queued for another connection is not written.
RefuseStale ==
    /\ Reading /\ outbound # <<>> /\ ~Current(Head(outbound))
    /\ reply' = Send({Head(outbound).request}, "disconnected")
    /\ permits' = permits + 1
    /\ outbound' = Tail(outbound)
    /\ UNCHANGED <<linkVars, pending, callVars, runs, eventVars, blocked>>

\* run_connection returns: pending is dropped with its permits.
DropPending(dropped) ==
    /\ reply' = Send(pending \cup dropped, "disconnected")
    /\ permits' = permits + Cardinality(pending) + Cardinality(dropped)
    /\ pending' = {}
    /\ link' = "closing"

\* A failed write ends the connection; the app-server may have read it all.
WriteFails ==
    /\ Reading /\ outbound # <<>>
    /\ LET e == Head(outbound) IN
       /\ Current(e)
       /\ runs' \in {runs, [runs EXCEPT ![e.request] = @ + 1]}
       /\ DropPending({e.request})
    /\ outbound' = Tail(outbound)
    /\ UNCHANGED <<generation, connected, stopping, callVars, eventVars, blocked>>

Answer(r, result) ==
    /\ Reading /\ r \in pending
    /\ pending' = pending \ {r}
    /\ permits' = permits + 1
    /\ reply' = Send({r}, result)
    /\ UNCHANGED <<linkVars, outbound, callVars, runs, eventVars, blocked>>

\* The connection breaks, or run_connection sees the shutdown flag.
Lose ==
    /\ Reading
    /\ DropPending({})
    /\ UNCHANGED <<generation, connected, stopping, outbound, callVars, runs, eventVars,
                   blocked>>

\* supervise publishes the end of the connection, after it has waited for a
\* child process.
Closed ==
    /\ link = "closing"
    /\ link' = "down" /\ connected' = FALSE
    /\ UNCHANGED <<generation, stopping, outbound, pending, permits, callVars, reply, runs,
                   eventVars, blocked>>

\* The end of supervise: the queue is drained and its receiver dropped.
Stop ==
    /\ link = "down" /\ stopping = "asked"
    /\ stopping' = "done"
    /\ reply' = Send({outbound[i].request : i \in DOMAIN outbound}, "shutdown")
    /\ permits' = permits + Len(outbound)
    /\ outbound' = <<>>
    /\ UNCHANGED <<generation, link, connected, pending, callVars, runs, eventVars, blocked>>

ShutDown ==
    /\ stopping = "no"
    /\ stopping' = "asked"
    /\ UNCHANGED <<generation, link, connected, outbound, pending, permits, callVars, reply,
                   runs, eventVars, blocked>>

------------------------------------------------------------------------------
(* Notifications. *)

\* handle_inbound sends a notification into the channel, or waits for room.
Notify ==
    /\ Reading /\ told < MaxEvents
    /\ told' = told + 1
    /\ IF events < EventCapacity
       THEN events' = events + 1 /\ UNCHANGED blocked
       ELSE blocked' = TRUE /\ UNCHANGED events
    /\ UNCHANGED <<linkVars, outbound, pending, permits, callVars, reply, runs, handling>>

Unblock ==
    /\ blocked /\ events < EventCapacity
    /\ events' = events + 1 /\ blocked' = FALSE
    /\ UNCHANGED <<linkVars, outbound, pending, permits, callVars, reply, runs, told, handling>>

\* The event task takes an event and may need a request to handle it.
HandleEvent ==
    /\ handling = None /\ events > 0
    /\ events' = events - 1
    /\ \/ handling' = None /\ UNCHANGED callVars
       \/ \E r \in EventRequests : Start(r) /\ handling' = r
    /\ UNCHANGED <<linkVars, outbound, pending, permits, reply, runs, told, blocked>>

EventHandled ==
    /\ handling # None /\ phase[handling] = "done"
    /\ handling' = None
    /\ UNCHANGED <<linkVars, outbound, pending, permits, callVars, reply, runs, events, told,
                   blocked>>

------------------------------------------------------------------------------
Caller(r) ==
    \/ SeeConnected(r) \/ Enqueue(r) \/ Refused(r) \/ Receive(r) \/ Retry(r) \/ TimeOut(r)
ConnectionTask ==
    \/ Connect \/ Initialized \/ Write \/ RefuseStale \/ Closed \/ Stop \/ Unblock
EventTask == HandleEvent \/ EventHandled

Next ==
    \/ \E r \in Requests : Request(r) \/ Caller(r)
    \/ \E r \in Requests, result \in {"ok", "error"} : Answer(r, result)
    \/ ConnectionTask \/ WriteFails \/ Lose \/ ShutDown \/ Notify
    \/ EventTask

Spec == Init /\ [][Next]_vars

\* Tasks are scheduled and deadlines pass; the app-server, the network and
\* the user owe nothing.
Fairness ==
    /\ \A r \in Requests : WF_vars(Caller(r))
    /\ WF_vars(ConnectionTask)
    /\ WF_vars(EventTask)
FairSpec == Spec /\ Fairness

------------------------------------------------------------------------------
\* No permit is lost or made up: each is free, in the queue, or with a
\* request the app-server has not answered, whatever became of the callers
\* and connections.  A leak would in the end block every request.
PermitsConserved ==
    permits + Len(outbound) + Cardinality(pending) = Permits

\* Requests implement the abstract call.
Call == INSTANCE RemoteCall WITH MaxRuns <- 2
ImplementsRemoteCall == Call!Spec

\* Every request returns, in whichever phase the connection leaves it, also
\* when the connection task waits for the event task to take a notification and
\* the event task for a request only the connection task can write.
RequestsReturn == \A r \in Requests : phase[r] # "idle" ~> phase[r] = "done"
==============================================================================
