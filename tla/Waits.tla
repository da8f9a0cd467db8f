--------------------------------- MODULE Waits ---------------------------------
(* What has to end in the bridge: requests of the client (AppServerClient),    *)
(* replies to requests of the app-server (ServerRequests), side questions      *)
(* (AskForks) and scheduled deletions (DeletionWorker).  The four share no      *)
(* state: "part" selects the one a behaviour is about, the variables of the    *)
(* others rest.  AppServerClient is extended, the others are instances.        *)
EXTENDS AppServerClient

CONSTANTS
    \* ServerRequests; the capacity of the outbound queue is that of AppServerClient
    Incoming, Decisions, InboxCapacity, MaxGeneration, MaxPresses, MaxCrashes, MaxFaults,
    \* AskForks
    Forks,
    \* DeletionWorker
    Messages, Deadline, Lease, MaxAttempts, BackoffCap, Limit, MaxRestarts

\* Channels hold something, and no button is named like a state of an approval.
ASSUME ServerAssumption ==
    /\ InboxCapacity \in Nat \ {0}
    /\ {MaxGeneration, MaxPresses, MaxCrashes, MaxFaults} \subseteq Nat
    /\ Decisions \cap {"none", "pending", "undelivered", "error"} = {}

\* Times are natural numbers, and a message is tried at least once.
ASSUME DeletionAssumption ==
    /\ {Deadline, Lease, BackoffCap, MaxRestarts} \subseteq Nat
    /\ MaxAttempts \in Nat \ {0} /\ "none" \notin Messages

VARIABLES
    part,
    \* ServerRequests, but for the names it shares with AppServerClient
    served, active, transport, wire, held, inbox, replies, live, stamp, approval,
    pc, job, ack, shown, asked, written, disturbed, presses, crashes, faults,
    \* AskForks
    asker, ask_threads, turn, forkEvents, expired, sweep, notices, projected,
    \* DeletionWorker
    row, present, batch, tried, restarts

Server == INSTANCE ServerRequests WITH
    Requests <- Incoming, generation <- served, link <- transport, outbound <- replies
Asks == INSTANCE AskForks WITH pending <- forkEvents
Deletions == INSTANCE DeletionWorker

serverVars == <<served, active, transport, wire, held, inbox, replies, live, stamp, approval,
    pc, job, ack, shown, asked, written, disturbed, presses, crashes, faults>>
askVars == <<asker, ask_threads, turn, forkEvents, expired, sweep, notices, projected>>
deletionVars == <<row, present, batch, tried, restarts>>
allVars == <<part, vars, serverVars, askVars, deletionVars>>

WaitsInit ==
    /\ part \in {"client", "server", "asks", "deletions"}
    /\ Init /\ Server!Init /\ Asks!Init /\ Deletions!Init
WaitsNext ==
    /\ UNCHANGED part
    /\ \/ part = "client" /\ Next /\ UNCHANGED <<serverVars, askVars, deletionVars>>
       \/ part = "server" /\ Server!Next /\ UNCHANGED <<vars, askVars, deletionVars>>
       \/ part = "asks" /\ Asks!Next /\ UNCHANGED <<vars, serverVars, deletionVars>>
       \/ part = "deletions" /\ Deletions!Next /\ UNCHANGED <<vars, serverVars, askVars>>
WaitsSpec == WaitsInit /\ [][WaitsNext]_allVars

------------------------------------------------------------------------------
\* Every variable of the four modules keeps its type.
TypesOK == TypeOK /\ Server!TypeOK /\ Asks!TypeOK /\ Deletions!TypeOK
==============================================================================
