-------------------------- MODULE ThreadProjections ---------------------------
(* The projection of one thread: folded from the events of the app-server in   *)
(* memory (projector.rs), written to its durable row at most once an interval, *)
(* rebuilt from thread/read when the bridge starts, evicted from memory when   *)
(* its turn ended long ago, and shown by three tasks (forward_codex_events).   *)
(* Every turn takes one unit of time, so that the total of the durations is    *)
(* the number of turns counted.                                                *)
EXTENDS Naturals, Sequences, FiniteSets

CONSTANTS
    MaxTurns,       \* bound on turns
    MaxPending,     \* bound on events not yet handled
    MaxTroubles     \* bound on restarts, failed calls, replays and trouble of the thread

VARIABLES
    truth,          \* the thread in the app-server: turns started, state of the last, health
    events,         \* events not yet handled
    phase,          \* of the event loop
    rebuilt,        \* projection made from the answer to thread/read
    mem, row,       \* the projection in memory and in the store
    fresh,          \* the row was written less than an interval ago
    aged, quiet,    \* an hour ago the turn had ended; since an hour there was no event
    debounce,       \* projection the debounce task was started with
    shown,          \* projection the status comment shows
    live,           \* this process rebuilt the projection, and wrote every end of a turn since
    troubles
vars == <<truth, events, phase, rebuilt, mem, row, fresh, aged, quiet, debounce, shown, live, troubles>>

Turns == 1..MaxTurns
Event(type, turn, state) == [type |-> type, turn |-> turn, state |-> state]
Shell == [status |-> "none", thread |-> "unknown", error |-> "none", counted |-> {}, total |-> 0]
Absent == [Shell EXCEPT !.status = "absent"]

TypeOK ==
    /\ truth.turn \in 0..MaxTurns /\ truth.state \in {"none", "inProgress", "completed", "failed"}
    /\ truth.thread \in {"healthy", "error"} /\ Len(events) <= MaxPending
    /\ phase \in {"down", "read", "install", "run"}
    /\ \A p \in {rebuilt, mem, row, debounce, shown} :
          /\ p.status \in {"absent", "none", "inProgress", "completed", "failed"}
          /\ p.thread \in {"unknown", "healthy", "error"}
          /\ p.error \in {"none", "recoverable", "fatal"}
          /\ p.counted \subseteq Turns /\ p.total \in 0..2 * MaxTurns
    /\ {fresh, aged, quiet, live} \subseteq BOOLEAN /\ troubles \in 0..MaxTroubles

Init ==
    /\ truth = [turn |-> 0, state |-> "none", thread |-> "healthy"] /\ events = <<>>
    /\ phase = "down" /\ rebuilt = Absent /\ mem = Absent /\ row = Absent
    /\ fresh = FALSE /\ aged = FALSE /\ quiet = FALSE /\ live = FALSE
    /\ debounce = Absent /\ shown = Absent /\ troubles = 0

Trouble == troubles < MaxTroubles /\ troubles' = troubles + 1
memory == <<mem, row, fresh, aged, quiet, live>>
view == <<debounce, shown>>

------------------------------------------------------------------------------
(* The app-server: its events reach a bridge that has subscribed. *)

Emit(new) ==
    IF phase = "down" THEN UNCHANGED events
    ELSE Len(events) + Len(new) <= MaxPending /\ events' = events \o new
Server(new, next) ==
    Emit(new) /\ truth' = next /\ UNCHANGED <<phase, rebuilt, memory, view>>

StartTurn ==
    /\ truth.state # "inProgress" /\ truth.turn < MaxTurns
    /\ Server(<<Event("started", truth.turn + 1, "inProgress")>>,
              [truth EXCEPT !.turn = @ + 1, !.state = "inProgress"])
    /\ UNCHANGED troubles
CompleteTurn ==
    /\ truth.state = "inProgress"
    /\ \/ /\ Server(<<Event("completed", truth.turn, "completed")>>,
                    [truth EXCEPT !.state = "completed"])
          /\ UNCHANGED troubles
       \/ /\ Trouble
          /\ Server(<<Event("error", truth.turn, "fatal"), Event("completed", truth.turn, "failed")>>,
                    [truth EXCEPT !.state = "failed"])
Progress ==
    /\ truth.state = "inProgress"
    /\ Server(<<Event("updated", truth.turn, "inProgress")>>, truth)
    /\ UNCHANGED troubles
\* An error the server retries, and a thread that fails and recovers.
Hiccup ==
    /\ truth.state = "inProgress" /\ Trouble
    /\ Server(<<Event("error", truth.turn, "recoverable")>>, truth)
ChangeHealth ==
    LET health == IF truth.thread = "healthy" THEN "error" ELSE "healthy" IN
    /\ Trouble
    /\ Server(<<Event("thread", 0, health)>>, [truth EXCEPT !.thread = health])
\* The end of an earlier turn is sent again after a reconnect.
Replay ==
    /\ truth.state \in {"completed", "failed"} /\ phase # "down" /\ Trouble
    /\ Server(<<Event("completed", truth.turn, truth.state)>>, truth)

------------------------------------------------------------------------------
(* Start: rows are restored, and the projection is rebuilt. *)

Over(p) == p.status \in {"completed", "failed"}
Age(p) == quiet' \in BOOLEAN /\ \E long \in BOOLEAN : aged' = (long /\ Over(p))
ShownAtBoot == IF row = Absent THEN shown ELSE row
Boot ==
    /\ phase = "down" /\ phase' = "read"
    /\ events' = <<>> /\ mem' = row
    /\ shown' = ShownAtBoot
    /\ fresh' = FALSE /\ Age(row)
    /\ UNCHANGED <<truth, rebuilt, row, live, debounce, troubles>>

\* projection_from_thread_read counts every turn that is not in progress.
Ended == {t \in Turns : t <= truth.turn /\ (t = truth.turn => truth.state # "inProgress")}
FromRead ==
    [status |-> truth.state, thread |-> truth.thread, error |-> "none", counted |-> Ended,
     total |-> Cardinality(Ended)]
Read ==
    /\ phase = "read"
    /\ rebuilt' = FromRead /\ phase' = "install"
    /\ UNCHANGED <<truth, events, memory, view, troubles>>
\* After three failed attempts the restored row is used.
ReadFails ==
    /\ phase = "read" /\ Trouble
    /\ phase' = "run"
    /\ UNCHANGED <<truth, events, rebuilt, memory, view>>

\* The row is written and the projector restored, then the comment is updated.
InstallRow ==
    /\ phase = "install" /\ phase' = "run"
    /\ row' = rebuilt /\ shown' = rebuilt /\ rebuilt' = Absent
    /\ live' = TRUE /\ Age(rebuilt)
    /\ UNCHANGED <<truth, fresh, debounce, troubles>>
InstallBoth == InstallRow /\ mem' = rebuilt
InstallDeaf == InstallBoth /\ events' = <<>>
Install == InstallBoth /\ UNCHANGED events

Restart ==
    /\ phase # "down" /\ Trouble
    /\ phase' = "down" /\ events' = <<>> /\ mem' = Absent /\ rebuilt' = Absent
    /\ debounce' = Absent /\ live' = FALSE /\ fresh' = FALSE
    /\ UNCHANGED <<truth, row, aged, quiet, shown>>

------------------------------------------------------------------------------
(* EventProjector::apply *)

Calm(p) == IF p.error = "recoverable" THEN [p EXCEPT !.error = "none"] ELSE p
Started(p) == [Calm(p) EXCEPT !.status = "inProgress"]
Updated(p, e) == [Calm(p) EXCEPT !.status = e.state]
CountAlways(p, turn) == [p EXCEPT !.counted = p.counted \cup {turn}, !.total = p.total + 1]
Count(p, turn) == IF turn \in p.counted THEN p ELSE CountAlways(p, turn)
Completed(p, e) == Count([p EXCEPT !.status = e.state], e.turn)
ThreadChanged(p, e) ==
    LET q == [p EXCEPT !.thread = e.state] IN IF e.state = "healthy" THEN Calm(q) ELSE q
Erred(p, e) ==
    [p EXCEPT !.error = e.state, !.status = IF e.state = "fatal" THEN "failed" ELSE p.status]
Applied(p, e) ==
    CASE e.type = "started"   -> Started(p)
      [] e.type = "updated"   -> Updated(p, e)
      [] e.type = "completed" -> Completed(p, e)
      [] e.type = "thread"    -> ThreadChanged(p, e)
      [] e.type = "error"     -> Erred(p, e)

------------------------------------------------------------------------------
(* The event loop *)

\* An evicted projection is reloaded from its row; without one the event starts
\* an empty projection.
LoadShell(p) == IF p = Absent THEN Shell ELSE p
Load(p) == IF p = Absent /\ row # Absent THEN row ELSE LoadShell(p)

Terminal(e) == e.type = "completed" \/ e.state = "fatal"
Aging(e) ==
    /\ aged' = IF Terminal(e) \/ e.type = "started" THEN FALSE ELSE aged
    /\ quiet' = FALSE
Persist(e, p) ==
    \/ /\ ~fresh \/ Terminal(e)
       /\ row' = p /\ fresh' = TRUE /\ UNCHANGED <<live, troubles>>
    \/ /\ fresh /\ ~Terminal(e) /\ UNCHANGED <<row, fresh, live, troubles>>
    \/ /\ ~fresh \/ Terminal(e)
       /\ Trouble /\ live' = (live /\ ~Terminal(e)) /\ UNCHANGED <<row, fresh>>

\* The end of a turn and an error are shown at once, anything else after a pause.
Display(e, p) ==
    IF Terminal(e)
    THEN shown' = p /\ debounce' = Absent
    ELSE debounce' = p /\ UNCHANGED shown

Handle ==
    /\ phase = "run" /\ events # <<>>
    /\ LET e == Head(events)
           p == Applied(Load(mem), e)
       IN mem' = p /\ Persist(e, p) /\ Aging(e) /\ Display(e, p)
    /\ events' = Tail(events)
    /\ UNCHANGED <<truth, phase, rebuilt>>

\* Time: the interval of the row ends; an hour passes.
IntervalEnds ==
    /\ fresh /\ fresh' = FALSE
    /\ UNCHANGED <<truth, events, phase, rebuilt, mem, row, aged, quiet, live, view, troubles>>
HourPasses ==
    /\ phase = "run" /\ events = <<>> /\ ~quiet
    /\ quiet' = TRUE /\ aged' = Over(mem) /\ fresh' = FALSE
    /\ UNCHANGED <<truth, events, phase, rebuilt, mem, row, live, view, troubles>>

\* evict_finished_before: a turn that ended long ago, or a projection that is old.
Evictable == mem # Absent /\ mem.status # "inProgress" /\ (aged \/ quiet)
Evict ==
    /\ phase = "run" /\ Evictable
    /\ mem' = Absent
    /\ UNCHANGED <<truth, events, phase, rebuilt, row, fresh, aged, quiet, live, view, troubles>>

------------------------------------------------------------------------------
(* The tasks that show the row *)

Wake ==
    /\ debounce # Absent /\ debounce' = Absent
    /\ shown' = IF row = Absent THEN debounce ELSE row
    /\ UNCHANGED <<truth, events, phase, rebuilt, memory, troubles>>
Heartbeat ==
    /\ phase = "run" /\ row # Absent /\ shown # row
    /\ shown' = row
    /\ UNCHANGED <<truth, events, phase, rebuilt, memory, debounce, troubles>>

Next ==
    \/ StartTurn \/ Progress \/ CompleteTurn \/ Hiccup \/ ChangeHealth \/ Replay
    \/ Boot \/ Read \/ ReadFails \/ Install \/ Restart
    \/ Handle \/ IntervalEnds \/ HourPasses \/ Evict \/ Wake \/ Heartbeat
Spec == Init /\ [][Next]_vars

------------------------------------------------------------------------------
(* Properties *)

\* Each turn is in the total once, in memory and in the row, however its end is
\* replayed, read again or handled after an eviction ("reconnect replays of the
\* same terminal turn must not double-count the total", projector.rs).
CountedOnce == \A p \in {mem, row, shown} : p.total = Cardinality(p.counted)

\* A turn the row counts is never lost from it: not by an event that meets an
\* evicted projection, nor by the projection a start rebuilt ("so cross-turn
\* totals survive restarts", projector.rs).
KeepsTotals == row.counted \subseteq row'.counted

\* Once a rebuilt projection has handled what was pending, it knows how the last
\* turn stands: events that came while the thread was read are not lost, and do
\* not bring an earlier state back (hydration before live events).
Agrees ==
    phase = "run" /\ live /\ events = <<>> /\ mem # Absent => mem.status = truth.state
=============================================================================
