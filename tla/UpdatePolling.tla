---------------------------- MODULE UpdatePolling ----------------------------
(***************************************************************************)
(* How one polling bot turns Telegram's update stream into handler calls:  *)
(* the poller thread (spawn_poller), the bounded channel to the            *)
(* dispatcher task, the KeyedDispatcher with one serial worker per chat,   *)
(* the handler (DispatchContext::process), and the two tables that survive *)
(* a restart (rust_processed_updates and rust_poll_offsets).               *)
(*                                                                         *)
(* The poller is a thread of its own: each access it makes to the store,   *)
(* the channel or the completion queue is one action.  A worker is a tokio *)
(* task: starting and finishing a handler are separate actions, so that    *)
(* everything else can happen while a handler runs.                        *)
(*                                                                         *)
(* DispatchContext::process reports handled = FALSE only for a bot that is *)
(* unknown or may not poll; run_async starts pollers for neither, so that  *)
(* completion is not modelled.                                             *)
(***************************************************************************)
EXTENDS Naturals, FiniteSets, Sequences

CONSTANTS
    MaxId,        \* BOUND: update ids are 1..MaxId
    Chats,        \* chats the bot receives updates from
    ChatOf,       \* the chat of each update id
    MaxBacklog,   \* config.max_backlog: batch size and channel capacity
    MaxCrashes,   \* BOUND: crashes or restarts of the process
    MaxFaults     \* BOUND: store calls that return an error

Ids == 1..MaxId

ASSUME MaxIdAssumption == MaxId \in Nat
ASSUME ChatOfAssumption == ChatOf \in [Ids -> Chats]
ASSUME MaxBacklogAssumption == MaxBacklog \in Nat \ {0}
ASSUME BudgetAssumption == MaxCrashes \in Nat /\ MaxFaults \in Nat

NoUpdate == 0     \* not an update id: an idle worker, an unknown offset

VARIABLES
    arrived,      \* ids of the updates users have produced
    acked,        \* Telegram forgets every update below this id
    processed,    \* durable: rows of rust_processed_updates
    storedOffset, \* durable: rust_poll_offsets.next_update_id, 0 when absent
    pc,           \* poller: "down", "poll", "send", "drain", "record"
    offset,       \* poller's local offset, 0 for None
    batch,        \* updates of the last getUpdates not examined yet
    pending,      \* keys of the poller's BTreeMap
    confirmed,    \* the keys of it whose value is true
    channel,      \* updates_tx / updates_rx
    workerQueue,  \* per chat, the worker's unbounded receiver
    running,      \* per chat, the update its handler is working on
    completions,  \* done_tx / done_rx; drained as a set, see Drain
    started,      \* history: handler starts of this incarnation, in order
    done,         \* history: updates some handler ran to its end
    crashes, faults

durable  == <<processed, storedOffset>>
telegram == <<arrived, acked>>
poller   == <<pc, offset, batch, pending, confirmed>>
workers  == <<channel, workerQueue, running, completions>>
history  == <<started, done>>
budget   == <<crashes, faults>>
vars == <<telegram, durable, poller, workers, history, budget>>

\* Mutant: the batch is walked from the newest update down.
Highest(S) == {x \in S : \A y \in S : x >= y}

\* The lowest id of S, if S has one: the batch and the map are in id order.
Lowest(S) == {x \in S : \A y \in S : x <= y}

Larger(a, b) == IF a < b THEN b ELSE a

\* getUpdates answers in id order; the poller takes at most MaxBacklog.
FirstOf(S) == {x \in S : Cardinality({y \in S : y < x}) < MaxBacklog}

------------------------------------------------------------------------------
Init ==
    /\ arrived = {} /\ acked = 0
    /\ processed = {} /\ storedOffset = 0
    /\ pc = "poll" /\ offset = 0
    /\ batch = {} /\ pending = {} /\ confirmed = {}
    /\ channel = <<>>
    /\ workerQueue = [c \in Chats |-> <<>>]
    /\ running = [c \in Chats |-> NoUpdate]
    /\ completions = {}
    /\ started = <<>> /\ done = {}
    /\ crashes = 0 /\ faults = 0

\* A user acts; Telegram numbers updates upwards, possibly with gaps.
Arrive(id) ==
    /\ \A x \in arrived : x < id
    /\ arrived' = arrived \cup {id}
    /\ UNCHANGED <<acked, durable, poller, workers, history, budget>>

\* A getUpdates that succeeds.  Its offset tells Telegram what to forget; a
\* None offset forgets nothing.  A failed call only sleeps and tries again.
Poll ==
    /\ pc = "poll"
    /\ acked' = Larger(acked, offset)
    /\ batch' = FirstOf({x \in arrived : x >= acked'})
    /\ pc' = "send"
    /\ UNCHANGED <<arrived, durable, offset, pending, confirmed, workers,
                   history, budget>>

------------------------------------------------------------------------------
\* The loop over the batch: an update already in the map is skipped, ...
SkipPending ==
    /\ pc = "send"
    /\ \E id \in Lowest(batch) \cap pending : batch' = batch \ {id}
    /\ UNCHANGED <<telegram, durable, pc, offset, pending, confirmed, workers,
                   history, budget>>

\* ... one recorded before a restart enters the map as confirmed, ...
SkipProcessed ==
    /\ pc = "send"
    /\ \E id \in (Lowest(batch) \ pending) \cap processed :
         /\ batch' = batch \ {id}
         /\ pending' = pending \cup {id}
         /\ confirmed' = confirmed \cup {id}
    /\ UNCHANGED <<telegram, durable, pc, offset, workers, history, budget>>

\* Mutant: the map does not learn that the update is on its way.
SendForgotten(id) ==
    /\ Len(channel) < MaxBacklog
    /\ channel' = Append(channel, id)
    /\ batch' = batch \ {id}
    /\ UNCHANGED <<telegram, durable, pc, offset, pending, confirmed, workerQueue,
                   running, completions, history, crashes>>

\* ... and any other is sent, after waiting for room in the channel.
SendToDispatcher(id) ==
    /\ Len(channel) < MaxBacklog
    /\ channel' = Append(channel, id)
    /\ batch' = batch \ {id}
    /\ pending' = pending \cup {id}
    /\ UNCHANGED <<telegram, durable, pc, offset, confirmed, workerQueue,
                   running, completions, history, crashes>>

\* Mutant: the records of the previous run are not consulted.
DispatchBlindly ==
    /\ pc = "send"
    /\ \E id \in Lowest(batch) \ pending : SendToDispatcher(id)
    /\ UNCHANGED faults

Dispatch ==
    /\ pc = "send"
    /\ \E id \in Lowest(batch) \ (pending \cup processed) : SendToDispatcher(id)
    /\ UNCHANGED faults

\* processed_update_exists failed: unwrap_or(false) dispatches the update.
DispatchUnchecked ==
    /\ pc = "send"
    /\ faults < MaxFaults /\ faults' = faults + 1
    /\ \E id \in (Lowest(batch) \ pending) \cap processed : SendToDispatcher(id)

EndOfBatch ==
    /\ pc = "send" /\ batch = {}
    /\ pc' = "drain"
    /\ UNCHANGED <<telegram, durable, offset, batch, pending, confirmed,
                   workers, history, budget>>

------------------------------------------------------------------------------
\* The dispatcher task moves an update to the worker of its chat.
Route ==
    /\ channel # <<>>
    /\ LET c == ChatOf[Head(channel)] IN
         workerQueue' = [workerQueue EXCEPT ![c] = Append(@, Head(channel))]
    /\ channel' = Tail(channel)
    /\ UNCHANGED <<telegram, durable, poller, running, completions, history,
                   budget>>

StartHandler(c) ==
    /\ running[c] = NoUpdate /\ workerQueue[c] # <<>>
    /\ running' = [running EXCEPT ![c] = Head(workerQueue[c])]
    /\ workerQueue' = [workerQueue EXCEPT ![c] = Tail(@)]
    /\ started' = Append(started, Head(workerQueue[c]))
    /\ UNCHANGED <<telegram, durable, poller, channel, completions, done,
                   budget>>

\* A handler that fails is logged and completes all the same.
FinishHandler(c) ==
    /\ running[c] # NoUpdate
    /\ done' = done \cup {running[c]}
    /\ completions' = completions \cup {running[c]}
    /\ running' = [running EXCEPT ![c] = NoUpdate]
    /\ UNCHANGED <<telegram, durable, poller, channel, workerQueue, started,
                   budget>>

------------------------------------------------------------------------------
\* Mutant: a completion that overtook a lower update is dropped.
DrainInOrder(id) ==
    /\ pc = "drain" /\ id \in completions
    /\ completions' = completions \ {id}
    /\ confirmed' = IF \A x \in pending : id <= x THEN confirmed \cup {id}
                    ELSE confirmed
    /\ UNCHANGED <<telegram, durable, pc, offset, batch, pending, channel,
                   workerQueue, running, history, budget>>

\* The poller reads completions until none is left (a receive times out only
\* on an empty queue).  The order among them is immaterial to the map.
Drain(id) ==
    /\ pc = "drain" /\ id \in completions
    /\ completions' = completions \ {id}
    /\ confirmed' = confirmed \cup ({id} \cap pending)
    /\ UNCHANGED <<telegram, durable, pc, offset, batch, pending, channel,
                   workerQueue, running, history, budget>>

EndOfDrain ==
    /\ pc = "drain" /\ completions = {}
    /\ pc' = "record"
    /\ UNCHANGED <<telegram, durable, offset, batch, pending, confirmed,
                   workers, history, budget>>

\* Mutant: every finished update may be recorded, not just the prefix.
AnyConfirmed == Lowest(confirmed)

\* confirmed_update_prefix: only the least key, and only once confirmed.
NextConfirmed == Lowest(pending) \cap confirmed

\* Mutant: the offset is written for the update itself, not its successor.
RecordOffByOne ==
    /\ pc = "record"
    /\ \E id \in NextConfirmed :
         /\ processed' = processed \cup {id}
         /\ storedOffset' = IF id \in processed THEN storedOffset
                            ELSE Larger(storedOffset, id)
         /\ pending' = pending \ {id}
         /\ confirmed' = confirmed \ {id}
         /\ offset' = id + 1
    /\ UNCHANGED <<telegram, pc, batch, workers, history, budget>>

\* record_processed_update, one transaction: the row and, if the row is new,
\* the offset; then the poller forgets the update.
Record ==
    /\ pc = "record"
    /\ \E id \in NextConfirmed :
         /\ processed' = processed \cup {id}
         /\ storedOffset' = IF id \in processed THEN storedOffset
                            ELSE Larger(storedOffset, id + 1)
         /\ pending' = pending \ {id}
         /\ confirmed' = confirmed \ {id}
         /\ offset' = id + 1
    /\ UNCHANGED <<telegram, pc, batch, workers, history, budget>>

RecordFails ==
    /\ pc = "record" /\ NextConfirmed # {}
    /\ faults < MaxFaults /\ faults' = faults + 1
    /\ pc' = "poll"
    /\ UNCHANGED <<telegram, durable, offset, batch, pending, confirmed,
                   workers, history, crashes>>

EndOfPrefix ==
    /\ pc = "record" /\ NextConfirmed = {}
    /\ pc' = "poll"
    /\ UNCHANGED <<telegram, durable, offset, batch, pending, confirmed,
                   workers, history, budget>>

------------------------------------------------------------------------------
\* The process dies or is stopped (shutdown aborts the tasks): whatever is
\* not in the store is gone.
Crash ==
    /\ pc # "down" /\ crashes < MaxCrashes
    /\ crashes' = crashes + 1
    /\ pc' = "down" /\ offset' = 0
    /\ batch' = {} /\ pending' = {} /\ confirmed' = {}
    /\ channel' = <<>>
    /\ workerQueue' = [c \in Chats |-> <<>>]
    /\ running' = [c \in Chats |-> NoUpdate]
    /\ completions' = {} /\ started' = <<>>
    /\ UNCHANGED <<telegram, durable, done, faults>>

\* Mutant: the stored value is taken for the last update seen.
RestartOffByOne ==
    /\ pc = "down"
    /\ pc' = "poll"
    /\ offset' = storedOffset - 1
    /\ UNCHANGED <<telegram, durable, batch, pending, confirmed, workers,
                   history, budget>>

Restart ==
    /\ pc = "down"
    /\ pc' = "poll"
    /\ offset' = storedOffset
    /\ UNCHANGED <<telegram, durable, batch, pending, confirmed, workers,
                   history, budget>>

\* next_update_offset(..).ok().flatten(): a failed read polls with None.
RestartBlind ==
    /\ pc = "down"
    /\ faults < MaxFaults /\ faults' = faults + 1
    /\ pc' = "poll"
    /\ UNCHANGED <<telegram, durable, offset, batch, pending, confirmed,
                   workers, history, crashes>>

PollerStep == \/ Poll \/ SkipPending \/ SkipProcessed \/ Dispatch \/ EndOfBatch
              \/ (\E id \in completions : Drain(id)) \/ EndOfDrain
              \/ Record \/ EndOfPrefix

Environment == \/ \E id \in Ids : Arrive(id)
               \/ DispatchUnchecked \/ RecordFails \/ Crash \/ RestartBlind

Next == \/ PollerStep \/ Environment \/ Route \/ Restart
        \/ \E c \in Chats : StartHandler(c) \/ FinishHandler(c)

Spec == Init /\ [][Next]_vars

\* The poller thread, the dispatcher task and the workers are scheduled, the
\* supervisor restarts the process, and handlers of the chats in Quick end
\* (their calls have timeouts).  Users and faults owe nothing.
Fairness(Quick) ==
    /\ WF_vars(PollerStep) /\ WF_vars(Route) /\ WF_vars(Restart)
    /\ \A c \in Chats : WF_vars(StartHandler(c))
    /\ \A c \in Quick : WF_vars(FinishHandler(c))

FairSpec == Spec /\ Fairness(Chats)

------------------------------------------------------------------------------
TypeOK ==
    /\ arrived \subseteq Ids /\ acked \in Nat
    /\ processed \subseteq Ids /\ storedOffset \in Nat
    /\ pc \in {"down", "poll", "send", "drain", "record"}
    /\ offset \in Nat
    /\ batch \subseteq Ids /\ pending \subseteq Ids /\ confirmed \subseteq Ids
    /\ channel \in Seq(Ids)
    /\ workerQueue \in [Chats -> Seq(Ids)]
    /\ running \in [Chats -> Ids \cup {NoUpdate}]
    /\ completions \subseteq Ids
    /\ started \in Seq(Ids) /\ done \subseteq Ids
    /\ crashes \in 0..MaxCrashes /\ faults \in 0..MaxFaults

\* An update Telegram will not deliver again was handled to its end, however
\* handlers of other chats overtook it and wherever the process was killed.
NoUpdateLost ==
    \A id \in arrived : id < acked => id \in done

\* The durable offset never runs ahead of a handler: everything below it is a
\* recorded and handled update, and nothing at or above it is recorded, so the
\* two tables always agree on where a restart resumes.
OffsetMatchesRecords ==
    /\ processed = {id \in arrived : id < storedOffset}
    /\ processed \subseteq done
    /\ acked <= storedOffset

\* Within one incarnation no update is handed to a handler twice: it is in one
\* place only between the channel and the completions.
InFlight(id) ==
    Cardinality({i \in 1..Len(channel) : channel[i] = id})
      + Cardinality({i \in 1..Len(workerQueue[ChatOf[id]]) :
                       workerQueue[ChatOf[id]][i] = id})
      + Cardinality({c \in Chats : running[c] = id})
      + (IF id \in completions THEN 1 ELSE 0)

DispatchedOnce ==
    \A id \in Ids :
      /\ InFlight(id) <= 1
      /\ InFlight(id) = 1 => id \in pending \ confirmed

\* Updates of one chat are started in the order Telegram numbered them.
PerChatOrder ==
    \A i, j \in 1..Len(started) :
      i < j /\ ChatOf[started[i]] = ChatOf[started[j]] => started[i] < started[j]

\* A recorded update starts a handler again only after two store failures: the
\* offset read at startup and the existence check both have to fail.
RerunNeedsTwoFaults ==
    [][\A id \in processed : (\E c \in Chats : running[c] # id /\ running'[c] = id)
         => faults >= 2]_vars

\* Everything a user sends is handled and recorded in the end, whatever was in
\* flight when the process died.
EveryUpdateRecorded ==
    \A id \in Ids : id \in arrived ~> id \in processed

\* What all of this promises to the bot's handlers.
Stream == INSTANCE UpdateStream
ImplementsStream == Stream!Spec
==============================================================================
