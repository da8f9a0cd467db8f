--------------------------- MODULE StatusMessages ----------------------------
(* The status comment of one space (daemon.rs): the event task, the debounce *)
(* task it starts, the heartbeat and the task of the group bring the comment *)
(* up to date, each with a copy of the row and of the projection.  The       *)
(* buttons of a comment are tokens that are live until taken or retired; an  *)
(* update retires them, shows a new one, and revives them when its edit      *)
(* fails.  The content is what the fingerprint tells apart.                  *)
EXTENDS Naturals, FiniteSets

CONSTANTS
    MaxChanges,    \* bound on changes of the content; the last one is terminal
    MaxButtons,    \* bound on buttons made
    MaxComments,   \* bound on comments sent
    MaxFaults      \* bound on failed calls and restarts

VARIABLES
    row,           \* of rust_session_spaces: closed, and the comment (0: none)
    content,       \* of the durable projection
    print,         \* fingerprint stored for each comment
    live,          \* buttons that may be taken
    made, comments,\* buttons made and comments sent so far
    shown,         \* of each comment: its button, whether it asks for confirmation, and
                   \* whether the button was live when it came to be shown
    pc, copy,      \* of each task: where it is, and its copy of row and content
    button,        \* of each task: the button it made
    retired,       \* of each task: the buttons it retired
    faults
tasks == <<pc, copy, button, retired>>
vars == <<row, content, print, live, made, comments, shown, tasks, faults>>

Tasks == {"chat", "events", "debounce", "heartbeat"}
Buttons == 1..MaxButtons
Comments == 1..MaxComments
Nothing == [button |-> 0, confirm |-> FALSE, fresh |-> FALSE]
NoCopy == [closed |-> FALSE, comment |-> 0, content |-> 0, force |-> FALSE]

TypeOK ==
    /\ row \in [closed : BOOLEAN, comment : 0..MaxComments]
    /\ content \in 0..MaxChanges /\ print \in [Comments -> 0..MaxChanges + 1]
    /\ live \subseteq Buttons /\ made \in 0..MaxButtons /\ comments \in 0..MaxComments
    /\ shown \in [Comments -> [button : 0..MaxButtons, confirm : BOOLEAN, fresh : BOOLEAN]]
    /\ pc \in [Tasks -> {"idle", "sleep", "ensure", "send", "sent", "check", "edit",
                         "edited", "ask", "close", "freeze"}]
    /\ \A t \in Tasks : /\ copy[t].comment \in 0..MaxComments /\ copy[t].content \in 0..MaxChanges
                        /\ button[t] \in 0..MaxButtons /\ retired[t] \subseteq Buttons
    /\ faults \in 0..MaxFaults

Unprinted == MaxChanges + 1
Init ==
    /\ row = [closed |-> FALSE, comment |-> 0] /\ content = 0
    /\ print = [c \in Comments |-> Unprinted]
    /\ live = {} /\ made = 0 /\ comments = 0 /\ shown = [c \in Comments |-> Nothing]
    /\ pc = [t \in Tasks |-> "idle"] /\ copy = [t \in Tasks |-> NoCopy]
    /\ button = [t \in Tasks |-> 0] /\ retired = [t \in Tasks |-> {}]
    /\ faults = 0

Fault == faults < MaxFaults /\ faults' = faults + 1
Goto(t, where) == pc' = [pc EXCEPT ![t] = where]
Done(t) ==
    /\ Goto(t, "idle") /\ copy' = [copy EXCEPT ![t] = NoCopy]
    /\ button' = [button EXCEPT ![t] = 0] /\ retired' = [retired EXCEPT ![t] = {}]
Read(t, seen, force) ==
    /\ Goto(t, "ensure")
    /\ copy' = [copy EXCEPT ![t] = [closed |-> row.closed, comment |-> row.comment,
                                    content |-> seen, force |-> force]]
    /\ UNCHANGED <<button, retired>>

\* status_is_terminal: the space is closed, or the goal is complete and nothing runs.
Terminal(t) == copy[t].closed \/ copy[t].content = MaxChanges

\* status_callback_markup: a new button is made, unless the status is terminal.
Mark(t, kept) ==
    IF Terminal(t)
    THEN live' = kept /\ UNCHANGED <<made, button>>
    ELSE /\ made < MaxButtons /\ made' = made + 1
         /\ live' = kept \cup IF row.closed THEN {} ELSE {made'}
         /\ button' = [button EXCEPT ![t] = made']
\* These buttons were retired for good: by a task that showed another, or that
\* ended before its edit.
Without(buttons) ==
    [c \in Comments |->
        [shown[c] EXCEPT !.fresh = shown[c].fresh /\ shown[c].button \notin buttons]]
Dead(buttons) == shown' = Without(buttons)
Shows(t, confirm) == [button |-> button[t], confirm |-> confirm, fresh |-> button[t] \in live]

------------------------------------------------------------------------------
(* ensure_status_message: a comment that is missing is sent. *)

Ensure(t) ==
    /\ pc[t] = "ensure"
    /\ IF copy[t].comment # 0
       THEN Goto(t, "check") /\ UNCHANGED <<live, made, button>>
       ELSE Goto(t, "send") /\ Mark(t, IF Terminal(t) THEN live ELSE {})
    /\ retired' = [retired EXCEPT ![t] = live \ live']
    /\ UNCHANGED <<row, content, print, comments, shown, copy, faults>>

Send(t) ==
    /\ pc[t] = "send" /\ comments < MaxComments
    /\ comments' = comments + 1
    /\ shown' = [Without(retired[t]) EXCEPT ![comments'] = Shows(t, FALSE)]
    /\ copy' = [copy EXCEPT ![t].comment = comments']
    /\ Goto(t, "sent")
    /\ UNCHANGED <<row, content, print, live, made, button, retired, faults>>
SendFails(t) ==
    /\ pc[t] = "send" /\ Fault /\ Done(t)
    /\ Dead(retired[t])
    /\ UNCHANGED <<row, content, print, live, made, comments>>

\* The copy is stored with the comment, unless the row was closed meanwhile.
StoreComment(t) ==
    /\ pc[t] = "sent"
    /\ row' = IF row.closed THEN row ELSE [row EXCEPT !.comment = copy[t].comment]
    /\ print' = [print EXCEPT ![copy[t].comment] = copy[t].content]
    /\ Goto(t, "check")
    /\ UNCHANGED <<content, live, made, comments, shown, copy, button, retired, faults>>

------------------------------------------------------------------------------
(* update_status_message_with_edit_timeout; the dashboard in the channel is     *)
(* edited likewise, and has no buttons.                                         *)

Unchanged(t) == ~copy[t].force /\ print[copy[t].comment] = copy[t].content
Retire(t) ==
    /\ pc[t] = "check" /\ ~Unchanged(t)
    /\ Mark(t, {})
    /\ retired' = [retired EXCEPT ![t] = live]
    /\ Goto(t, "edit")
    /\ UNCHANGED <<row, content, print, comments, shown, copy, faults>>
Skip(t) ==
    /\ pc[t] = "check" /\ Unchanged(t) /\ Done(t)
    /\ UNCHANGED <<row, content, print, live, made, comments, shown, faults>>

Lands(t, confirm) ==
    shown' = [Without(retired[t]) EXCEPT ![copy[t].comment] = Shows(t, confirm)]
Edit(t) ==
    /\ pc[t] = "edit" /\ Goto(t, "edited") /\ Lands(t, FALSE)
    /\ UNCHANGED <<row, content, print, live, made, comments, copy, button, retired, faults>>
StorePrint(t) ==
    /\ pc[t] = "edited" /\ Done(t)
    /\ print' = [print EXCEPT ![copy[t].comment] = copy[t].content]
    /\ UNCHANGED <<row, content, live, made, comments, shown, faults>>

\* The edit failed, or only its answer was lost.  Unless the status is terminal,
\* restore_status_callbacks revives what this update retired.
EditDropped(t) ==
    /\ pc[t] = "edit" /\ Fault /\ Done(t)
    /\ Lands(t, FALSE) \/ UNCHANGED shown
    /\ UNCHANGED <<row, content, print, live, made, comments>>
EditFails(t) ==
    /\ pc[t] = "edit" /\ Fault /\ Done(t)
    /\ Lands(t, FALSE) \/ IF Terminal(t) THEN Dead(retired[t]) ELSE UNCHANGED shown
    /\ live' = IF row.closed \/ Terminal(t) THEN live ELSE live \cup retired[t]
    /\ UNCHANGED <<row, content, print, made, comments>>

Update(t) ==
    \/ Ensure(t) \/ Send(t) \/ SendFails(t) \/ StoreComment(t)
    \/ Skip(t) \/ Retire(t) \/ Edit(t) \/ StorePrint(t) \/ EditFails(t)

------------------------------------------------------------------------------
(* Who updates *)

\* An event changes the projection.  The debounce task of the space is aborted,
\* where it is; a turn that ends is shown at once, another change by a new
\* debounce task.
Event ==
    /\ pc["events"] = "idle" /\ content < MaxChanges
    /\ content' = content + 1
    /\ IF row.closed
       THEN UNCHANGED <<tasks, shown>>
       ELSE /\ \/ /\ pc' = [pc EXCEPT !["debounce"] = "sleep"]
                  /\ copy' = [copy EXCEPT !["debounce"] = NoCopy]
               \/ /\ pc' = [pc EXCEPT !["debounce"] = "idle", !["events"] = "ensure"]
                  /\ copy' = [copy EXCEPT !["debounce"] = NoCopy,
                                          !["events"] = [closed |-> FALSE, comment |-> row.comment,
                                                         content |-> content', force |-> TRUE]]
            /\ button' = [button EXCEPT !["debounce"] = 0]
            /\ retired' = [retired EXCEPT !["debounce"] = {}]
            /\ Dead(retired["debounce"])
    /\ UNCHANGED <<row, print, live, made, comments, faults>>

\* After its pause the debounce task reads the row, and leaves a closed space.
Wake ==
    /\ pc["debounce"] = "sleep"
    /\ IF row.closed THEN Done("debounce") ELSE Read("debounce", content, FALSE)
    /\ UNCHANGED <<row, content, print, live, made, comments, shown, faults>>

Heartbeat ==
    /\ pc["heartbeat"] = "idle" /\ ~row.closed
    /\ Read("heartbeat", content, FALSE)
    /\ UNCHANGED <<row, content, print, live, made, comments, shown, faults>>

\* The group's task: activation, or the forwarded post of the space; neither
\* passes a projection.
Provision ==
    /\ pc["chat"] = "idle" /\ ~row.closed
    /\ Read("chat", 0, FALSE)
    /\ UNCHANGED <<row, content, print, live, made, comments, shown, faults>>

------------------------------------------------------------------------------
(* handle_status_callback: a live button of the comment in the row is taken. *)

Take(b) == live' = live \ {b} /\ shown' = [shown EXCEPT ![row.comment] = Nothing]
Pressable(b) ==
    /\ pc["chat"] = "idle" /\ row.comment # 0
    /\ b = shown[row.comment].button /\ b \in live

\* status_unwatch_cancel: the status is shown again, without the projection.
\* (space_refresh would do the same; no comment shows that button.)
Cancel ==
    /\ \E b \in Buttons : Pressable(b) /\ shown[row.comment].confirm /\ Take(b)
    /\ Read("chat", 0, TRUE)
    /\ UNCHANGED <<row, content, print, made, comments, faults>>

\* space_unwatch: all status buttons are retired and the comment asks.
AskUnwatch ==
    /\ \E b \in Buttons :
          /\ Pressable(b) /\ ~shown[row.comment].confirm
          /\ made < MaxButtons /\ made' = made + 1 /\ live' = {made'}
          /\ shown' = [Without(live) EXCEPT ![row.comment] = Nothing]
    /\ Goto("chat", "ask")
    /\ copy' = [copy EXCEPT !["chat"] = [NoCopy EXCEPT !.comment = row.comment]]
    /\ button' = [button EXCEPT !["chat"] = made']
    /\ UNCHANGED <<row, content, print, comments, retired, faults>>
Ask ==
    /\ pc["chat"] = "ask" /\ Done("chat")
    /\ \/ Lands("chat", TRUE) /\ UNCHANGED faults
       \/ Fault /\ UNCHANGED shown
    /\ UNCHANGED <<row, content, print, live, made, comments>>

\* status_unwatch_execute: the space is closed and the comment has its last text.
Execute ==
    /\ \E b \in Buttons : Pressable(b) /\ shown[row.comment].confirm
    /\ row' = [row EXCEPT !.closed = TRUE] /\ live' = {}
    /\ shown' = [shown EXCEPT ![row.comment] = Nothing]
    /\ Goto("chat", "freeze")
    /\ copy' = [copy EXCEPT !["chat"] = [NoCopy EXCEPT !.comment = row.comment]]
    /\ UNCHANGED <<content, print, made, comments, button, retired, faults>>
Freeze ==
    /\ pc["chat"] = "freeze" /\ Done("chat")
    /\ \/ Lands("chat", FALSE) /\ UNCHANGED faults
       \/ Fault /\ UNCHANGED shown
    /\ UNCHANGED <<row, content, print, live, made, comments>>

Restart ==
    /\ Fault
    /\ pc' = [t \in Tasks |-> "idle"] /\ copy' = [t \in Tasks |-> NoCopy]
    /\ button' = [t \in Tasks |-> 0] /\ retired' = [t \in Tasks |-> {}]
    /\ Dead(UNION {retired[t] : t \in Tasks})
    /\ UNCHANGED <<row, content, print, live, made, comments>>

Next ==
    \/ \E t \in Tasks : Update(t)
    \/ Event \/ Wake \/ Heartbeat \/ Provision
    \/ Cancel \/ AskUnwatch \/ Ask \/ Execute \/ Freeze
    \/ Restart
Spec == Init /\ [][Next]_vars

------------------------------------------------------------------------------
(* Properties *)

\* The button of the comment of an open space, if it was live when shown, works
\* until it is pressed or an update shows another: a failed edit revives it,
\* whatever other updates retired and showed meanwhile (retire_status_callbacks_at,
\* restore_status_callbacks).  Left out: a task that was aborted, or whose new
\* comment could not be sent, after it retired the button.
ButtonWorks ==
    LET s == shown[row.comment] IN
    row.comment # 0 /\ ~row.closed /\ s.fresh /\ s.button # 0
    => s.button \in live \cup UNION {retired[t] : t \in Tasks}
=============================================================================
