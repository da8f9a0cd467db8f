------------------------------ MODULE ThreadItems ------------------------------
(* The items of a thread and the subagent tasks derived from them, as the live *)
(* projector builds them from item events (EventProjector::apply,              *)
(* project_item_subagents) and as a start rebuilds them from the history of    *)
(* the thread (projection_from_thread_read).                                   *)
EXTENDS Naturals, Sequences, FiniteSets, Functions, SequencesExt

CONSTANTS
    Agents,        \* subagents, numbers: ids are ordered
    MaxItems,      \* MAX_PROJECTION_ITEMS
    MaxTasks,      \* MAX_SUBAGENT_TASKS
    MaxHistory,    \* bound: items of the thread
    MaxTime,       \* bound: seconds
    MaxChanges     \* bound: status changes of subagents

VARIABLES
    agent,         \* status of each subagent in the app-server, "none" before it is spawned
    changes,       \* status changes so far
    resumed,       \* subagents that ran again after an end
    history,       \* the items of the thread, as the app-server last reported them
    clock,         \* seconds
    projection     \* of the bridge: item_order, items and subagents
vars == <<agent, changes, resumed, history, clock, projection>>

Ids == 1..MaxHistory
Active == {"pending", "inProgress"}
Terminal == {"failed", "interrupted"}
Raw == {"pendingInit", "running", "errored", "interrupted"}
Running == {"pendingInit", "running"}
NoTask == [status |-> "none", started |-> 0, finished |-> 0, updated |-> 0]
Task == [status : Active \cup Terminal \cup {"none"}, started : 0..MaxTime, finished : 0..MaxTime,
         updated : 0..MaxTime]
Default == [item_order |-> <<>>, items |-> {}, subagents |-> [a \in Agents |-> NoTask]]

TypeOK ==
    /\ agent \in [Agents -> Raw \cup {"none"}] /\ changes \in 0..MaxChanges
    /\ resumed \subseteq Agents /\ clock \in 1..MaxTime /\ Len(history) <= MaxHistory
    /\ Len(projection.item_order) <= MaxItems /\ projection.items \subseteq Ids
    /\ projection.subagents \in [Agents -> Task]

Init ==
    /\ agent = [a \in Agents |-> "none"] /\ changes = 0 /\ resumed = {}
    /\ history = <<>> /\ clock = 1 /\ projection = Default

------------------------------------------------------------------------------
(* Subagent tasks *)

Normalized(raw) ==
    CASE raw = "running" -> "inProgress"
      [] raw = "errored" -> "failed"
      [] raw = "interrupted" -> "interrupted"
      [] OTHER -> "pending"

\* An item of the history does not bring an ended task back: the states it shows
\* may be older than those of an item before it.
Latest(task, status, historical) == status
Seen(task, status, historical) ==
    IF historical /\ task.status \in Terminal /\ status \in Active
    THEN task.status ELSE Latest(task, status, historical)

FirstEnd(task, now) == IF task.finished = 0 THEN now ELSE task.finished
Ended(task, status, now) == IF status \in Terminal THEN FirstEnd(task, now) ELSE task.finished
Finish(task, status, now) == IF status \in Active THEN 0 ELSE Ended(task, status, now)

\* collabAgentToolCall: the states of all the agents it names.
FromCall(task, raw, historical, now) ==
    LET status == Seen(task, Normalized(raw), historical) IN
    [status   |-> status,
     started  |-> IF task.started = 0 /\ status \in Active THEN now ELSE task.started,
     finished |-> Finish(task, status, now),
     updated  |-> now]

\* subAgentActivity: one agent was started or spoken to, was interrupted, or else.
ActivityStatus(task, kind, historical) ==
    CASE kind = "interrupted" -> "interrupted"
      [] kind = "interacted" -> Seen(task, "inProgress", historical)
      [] OTHER -> IF task.status = "none" THEN "pending" ELSE task.status
FromActivity(task, kind, historical, now) ==
    LET status == ActivityStatus(task, kind, historical) IN
    [status   |-> status,
     started  |-> IF task.started > 0 THEN task.started ELSE now,
     finished |-> Finish(task, status, now),
     updated  |-> now]

\* project_item_subagents
Projected(tasks, item, historical, now) ==
    [a \in Agents |->
        IF a \notin DOMAIN item.states THEN tasks[a]
        ELSE IF item.kind = "call" THEN FromCall(tasks[a], item.states[a], historical, now)
        ELSE FromActivity(tasks[a], item.kind, historical, now)]

\* trim_subagent_tasks: of those updated longest ago the smallest id goes first.
Known(tasks) == {a \in Agents : tasks[a].status # "none"}
Later(tasks, a) ==
    {b \in Known(tasks) : \/ tasks[b].updated > tasks[a].updated
                          \/ tasks[b].updated = tasks[a].updated /\ b > a}
Trimmed(tasks) ==
    [a \in Agents |-> IF Cardinality(Later(tasks, a)) < MaxTasks THEN tasks[a] ELSE NoTask]

------------------------------------------------------------------------------
(* Items *)

\* truncate_items
LastOf(order, n) == IF Len(order) <= n THEN order ELSE SubSeq(order, Len(order) - n + 1, Len(order))
Keep(p, order) == [p EXCEPT !.item_order = order, !.items = Range(order)]
TruncatedLate(p) == Keep(p, LastOf(p.item_order, MaxItems + 1))
Truncated(p) == Keep(p, LastOf(p.item_order, MaxItems))

FiledAgain(p, id) == [p EXCEPT !.items = p.items \cup {id}, !.item_order = Append(p.item_order, id)]
Filed(p, id) == IF id \in p.items THEN p ELSE FiledAgain(p, id)

WithItem(p, id, item, historical, now) ==
    [Filed(p, id) EXCEPT !.subagents = Trimmed(Projected(p.subagents, item, historical, now))]

\* The event of an item in the live projector.
Live(p, id, item) == Truncated(WithItem(p, id, item, FALSE, clock))

\* projection_from_thread_read: the items in the order in which they began.
Replayed[n \in 0..Len(history)] ==
    IF n = 0 THEN Default ELSE WithItem(Replayed[n - 1], n, history[n], TRUE, clock)
Rebuilt == Truncated(Replayed[Len(history)])

------------------------------------------------------------------------------
(* Steps of the app-server; its event reaches the projector, unless the stream *)
(* of events is interrupted.                                                   *)

Report(id, item) ==
    /\ \/ projection' = Live(projection, id, item)
       \/ UNCHANGED projection
    /\ UNCHANGED clock

Spawned == {a \in Agents : agent[a] # "none"}
States(S) == [a \in S |-> agent[a]]

\* The status of a subagent changes: it runs, ends, or is resumed.
Change(a) ==
    /\ changes < MaxChanges /\ changes' = changes + 1
    /\ \E status \in Raw :
          /\ agent' = [agent EXCEPT ![a] = status]
          /\ \/ /\ agent[a] = "none" /\ status \in Running /\ UNCHANGED resumed
             \/ /\ agent[a] = "pendingInit" /\ status = "running" /\ UNCHANGED resumed
             \/ /\ agent[a] = "running" /\ status \notin Running /\ UNCHANGED resumed
             \/ /\ agent[a] \in Raw \ Running /\ status = "running" /\ resumed' = resumed \cup {a}
    /\ UNCHANGED <<history, clock, projection>>

\* item/started: a tool call with the states its agents have now, or an activity.
Begin ==
    /\ Len(history) < MaxHistory
    /\ \E S \in (SUBSET Spawned) \ {{}}, kind \in {"call", "interacted", "interrupted", "other"} :
          /\ kind = "call" \/ Cardinality(S) = 1
          /\ kind = "interrupted" => \A a \in S : agent[a] = "interrupted"
          /\ kind = "interacted" => \A a \in S : agent[a] \in Running
          /\ LET item == [kind |-> kind, states |-> States(S), open |-> kind = "call"] IN
             history' = Append(history, item) /\ Report(Len(history) + 1, item)
    /\ UNCHANGED <<agent, changes, resumed>>

\* item/completed: a call ends and shows the states its agents have by then.
Complete(id) ==
    /\ id \in DOMAIN history /\ history[id].open
    /\ LET item == [history[id] EXCEPT !.open = FALSE, !.states = States(DOMAIN @)] IN
       history' = [history EXCEPT ![id] = item] /\ Report(id, item)
    /\ UNCHANGED <<agent, changes, resumed>>

\* The last item is sent again after a reconnect.
Resend ==
    /\ history # <<>>
    /\ projection' = Live(projection, Len(history), Last(history))
    /\ UNCHANGED <<agent, changes, resumed, history, clock>>

Hydrate ==
    /\ projection' = Rebuilt
    /\ UNCHANGED <<agent, changes, resumed, history, clock>>

Tick == clock < MaxTime /\ clock' = clock + 1
        /\ UNCHANGED <<agent, changes, resumed, history, projection>>

Next ==
    \/ \E a \in Agents : Change(a)
    \/ Begin \/ \E id \in Ids : Complete(id)
    \/ Resend \/ Hydrate \/ Tick
Spec == Init /\ [][Next]_vars

------------------------------------------------------------------------------
(* Properties *)

\* The order of the items lists each item that is kept, once, however often an
\* item is updated, sent again, or reported after it was dropped (truncate_items).
ItemsInOrder ==
    /\ projection.items = Range(projection.item_order)
    /\ IsInjective(projection.item_order)

\* A task has an end exactly while it is ended: a subagent that is resumed loses
\* the time of its earlier end, and every end has a time.
EndsHaveTimes ==
    \A a \in Agents : LET task == projection.subagents[a] IN
        task.finished # 0 <=> task.status \in Terminal

\* A start does not bring a task back to life: a task the projection showed as
\* ended is ended in the projection rebuilt from the history, unless its subagent
\* was resumed or tasks were dropped ("A historical replay must not resurrect a
\* terminal task back to active", projector.rs).
EndsSurvive ==
    Cardinality(UNION {DOMAIN history[id].states : id \in DOMAIN history}) <= MaxTasks =>
        \A a \in Agents \ resumed :
            projection.subagents[a].status \in Terminal => Rebuilt.subagents[a].status \in Terminal
=============================================================================
