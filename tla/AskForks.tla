------------------------------- MODULE AskForks -------------------------------
(* Side questions (/ask): a worker forks the thread of its session, registers  *)
(* the fork and starts a turn in it; the event task answers when the turn ends,*)
(* gives up a fork that took too long, and keeps the events of registered      *)
(* forks from the projections (submit_ask_fork, handle_ask_thread_event).      *)
EXTENDS Naturals, Sequences

CONSTANT Forks     \* side questions, one fork each

VARIABLES
    asker,         \* of each question: where its worker is
    ask_threads,   \* of each fork: not registered, registered, or registered with its turn
    turn,          \* of each fork in the app-server: "none", "running", "ended", "deleted"
    pending,       \* events of forks the event task has yet to handle
    expired,       \* forks registered at least 300 seconds ago
    sweep,         \* forks the sweep under way found expired
    notices,       \* messages sent for each question
    projected      \* forks that have a projection
vars == <<asker, ask_threads, turn, pending, expired, sweep, notices, projected>>

TypeOK ==
    /\ asker \in [Forks -> {"idle", "forking", "forked", "starting", "started", "done"}]
    /\ ask_threads \in [Forks -> {"none", "registered", "turn"}]
    /\ turn \in [Forks -> {"none", "running", "ended", "deleted"}]
    /\ expired \subseteq Forks /\ sweep \subseteq Forks /\ projected \subseteq Forks
    /\ notices \in [Forks -> SUBSET {"started", "failed", "answer", "timeout"}]

Init ==
    /\ asker = [f \in Forks |-> "idle"] /\ ask_threads = [f \in Forks |-> "none"]
    /\ turn = [f \in Forks |-> "none"] /\ pending = <<>>
    /\ expired = {} /\ sweep = {} /\ notices = [f \in Forks |-> {}] /\ projected = {}

Goto(f, where) == asker' = [asker EXCEPT ![f] = where]
Notify(f, notice) == notices' = [notices EXCEPT ![f] = @ \cup {notice}]
Unregister(f) == ask_threads' = [ask_threads EXCEPT ![f] = "none"]
\* cleanup_ask_thread; a turn that still runs ends with its thread.
Delete(f) == turn' = [turn EXCEPT ![f] = "deleted"]
Send(f, kind) == pending' = Append(pending, [fork |-> f, kind |-> kind])

------------------------------------------------------------------------------
(* The worker: ask_fork_turn and submit_ask_fork *)

Ask(f) ==
    /\ asker[f] = "idle" /\ Goto(f, "forking")
    /\ UNCHANGED <<ask_threads, turn, pending, expired, sweep, notices, projected>>

\* thread/fork: the app-server announces the fork and answers; without the answer
\* the fork is left alone.
Fork(f) ==
    /\ asker[f] = "forking"
    /\ \/ Send(f, "thread") /\ Goto(f, "forked") /\ UNCHANGED notices
       \/ (Send(f, "thread") \/ UNCHANGED pending) /\ Goto(f, "done") /\ Notify(f, "failed")
    /\ UNCHANGED <<ask_threads, turn, expired, sweep, projected>>

\* ask_session_cwd: the session has no project directory inside the workspace.
Refuse(f) ==
    /\ asker[f] = "forking" /\ Goto(f, "done") /\ Notify(f, "failed")
    /\ UNCHANGED <<ask_threads, turn, pending, expired, sweep, projected>>

Register(f) ==
    /\ asker[f] = "forked" /\ Goto(f, "starting")
    /\ ask_threads' = [ask_threads EXCEPT ![f] = "registered"]
    /\ UNCHANGED <<turn, pending, expired, sweep, notices, projected>>

\* turn/start: the turn may run although its answer is an error.
TurnStarts(f) ==
    /\ asker[f] = "starting" /\ turn[f] = "none"
    /\ turn' = [turn EXCEPT ![f] = "running"]
    /\ UNCHANGED <<asker, ask_threads, pending, expired, sweep, notices, projected>>
StartFails(f) ==
    /\ asker[f] = "starting"
    /\ Unregister(f) /\ Notify(f, "failed")
    /\ Delete(f)
    /\ Goto(f, "done")
    /\ UNCHANGED <<pending, expired, sweep, projected>>
\* An answer without the id of the turn: the fork stays registered.
StartUnnamed(f) ==
    /\ asker[f] = "starting" /\ turn[f] # "none"
    /\ Notify(f, "failed") /\ Goto(f, "done")
    /\ UNCHANGED <<ask_threads, turn, pending, expired, sweep, projected>>
StartNamed(f) ==
    /\ asker[f] = "starting" /\ turn[f] # "none"
    /\ ask_threads' = IF ask_threads[f] = "none" THEN ask_threads
                      ELSE [ask_threads EXCEPT ![f] = "turn"]
    /\ Goto(f, "started")
    /\ UNCHANGED <<turn, pending, expired, sweep, notices, projected>>
RecordStarted(f) ==
    /\ asker[f] = "started" /\ Notify(f, "started") /\ Goto(f, "done")
    /\ UNCHANGED <<ask_threads, turn, pending, expired, sweep, projected>>

\* The app-server ends the turn, and then reports the thread idle.
TurnEnds(f) ==
    /\ turn[f] = "running"
    /\ turn' = [turn EXCEPT ![f] = "ended"]
    /\ pending' = pending \o <<[fork |-> f, kind |-> "completed"], [fork |-> f, kind |-> "thread"]>>
    /\ UNCHANGED <<asker, ask_threads, expired, sweep, notices, projected>>

------------------------------------------------------------------------------
(* The event task *)

\* handle_ask_thread_event: the end of a turn of a registered fork is answered,
\* and the fork deleted; its other events are dropped.
Answered(f) ==
    /\ Notify(f, "answer")
    /\ Delete(f)
    /\ UNCHANGED projected
AnswerAndKeep(f) == Answered(f) /\ UNCHANGED ask_threads
Answer(f) == Answered(f) /\ Unregister(f)
HandleEvent ==
    /\ pending # <<>> /\ sweep = {}
    /\ pending' = Tail(pending)
    /\ LET f == Head(pending).fork IN
       \/ /\ ask_threads[f] # "none" /\ Head(pending).kind = "completed"
          /\ Answer(f)
       \/ /\ ask_threads[f] # "none" /\ Head(pending).kind # "completed"
          /\ UNCHANGED <<ask_threads, turn, notices, projected>>
       \/ /\ ask_threads[f] = "none"
          /\ projected' = projected \cup {f}
          /\ UNCHANGED <<ask_threads, turn, notices>>
    /\ UNCHANGED <<asker, expired, sweep>>

\* The requests of a worker time out long before its fork expires.
Expire(f) ==
    /\ ask_threads[f] # "none" /\ asker[f] # "starting" /\ f \notin expired
    /\ expired' = expired \cup {f}
    /\ UNCHANGED <<asker, ask_threads, turn, pending, sweep, notices, projected>>

\* sweep_expired_ask_threads: a fork is given up if it is still registered.
Unnamed == {f \in Forks : ask_threads[f] = "registered"}
Registered == Unnamed \cup {f \in Forks : ask_threads[f] = "turn"}
Sweep ==
    /\ sweep = {} /\ expired \cap Registered # {}
    /\ sweep' = expired \cap Registered
    /\ UNCHANGED <<asker, ask_threads, turn, pending, expired, notices, projected>>
GiveUp ==
    /\ \E f \in sweep :
          /\ sweep' = sweep \ {f}
          /\ IF ask_threads[f] = "none" THEN UNCHANGED <<ask_threads, notices, turn>>
             ELSE /\ Unregister(f) /\ Notify(f, "timeout")
                  /\ Delete(f)
    /\ UNCHANGED <<asker, pending, expired, projected>>

Work(f) ==
    \/ Fork(f) \/ Refuse(f) \/ Register(f)
    \/ StartFails(f) \/ StartUnnamed(f) \/ StartNamed(f) \/ RecordStarted(f)
Next ==
    \/ \E f \in Forks : Ask(f) \/ Work(f) \/ TurnStarts(f) \/ TurnEnds(f) \/ Expire(f)
    \/ HandleEvent \/ Sweep \/ GiveUp
Fairness ==
    /\ \A f \in Forks : WF_vars(Work(f)) /\ WF_vars(Expire(f))
    /\ WF_vars(HandleEvent) /\ WF_vars(Sweep) /\ WF_vars(GiveUp)
Spec == Init /\ [][Next]_vars /\ Fairness

------------------------------------------------------------------------------
(* Properties *)

\* A question is answered or timed out, not both: whichever comes first
\* unregisters the fork (remove_ask_thread).
EndsOnce(f) == ~({"answer", "timeout"} \subseteq notices[f])

\* A turn that runs is that of a registered fork, which the sweep finds
\* (submit_ask_fork registers the fork first).
Tracked(f) == turn[f] = "running" => ask_threads[f] # "none"
AsksTracked == \A f \in Forks : EndsOnce(f) /\ Tracked(f)

\* Every question gets a final message, an answer, a timeout or a failure, even
\* if its turn never ends or was never named (ASK_THREAD_TIMEOUT_MS), and that
\* is the end of it.
Final(f) ==
    notices[f] \cap {"answer", "timeout", "failed"} # {} /\ EndsOnce(f) /\ Tracked(f)
AskEnds == \A f \in Forks : asker[f] # "idle" ~> []Final(f)
=============================================================================
