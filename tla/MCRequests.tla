------------------------------ MODULE MCRequests ------------------------------
(* Model checking of Waits: what has to end in the bridge, with the fairness   *)
(* of each module.                                                             *)
EXTENDS Waits

CONSTANTS r1, r2, r3, f1, f2, d1, d2

\* Requests and side questions are alike: they are named in the order in which
\* they are asked.
MCNext ==
    /\ WaitsNext
    /\ (asked'[r2] # 0 => asked[r1] # 0) /\ (asked'[r3] # 0 => asked[r2] # 0)
    /\ (asker'[f2] # "idle" => asker[f1] # "idle")
MCSpec == WaitsInit /\ [][MCNext]_allVars

\* The fairness of each module, for the behaviours that are about it.
MCFairSpec ==
    /\ MCSpec
    /\ \A r \in Requests : WF_vars(part = "client" /\ Caller(r))
    /\ WF_vars(part = "client" /\ ConnectionTask)
    /\ WF_vars(part = "client" /\ EventTask)
    /\ WF_serverVars(part = "server" /\ Server!Connection)
    /\ WF_serverVars(part = "server" /\ Server!Presenter)
    /\ WF_serverVars(part = "server" /\ Server!Chat)
    /\ \A f \in Forks : /\ WF_askVars(part = "asks" /\ Asks!Work(f))
                         /\ WF_askVars(part = "asks" /\ Asks!Expire(f))
    /\ WF_askVars(part = "asks" /\ Asks!HandleEvent)
    /\ WF_askVars(part = "asks" /\ Asks!Sweep)
    /\ WF_askVars(part = "asks" /\ Asks!GiveUp)
    /\ WF_deletionVars(part = "deletions" /\ Deletions!Tick)
    /\ WF_deletionVars(part = "deletions" /\ Deletions!Work)

------------------------------------------------------------------------------
\* The waits of the tasks that serve the app-server's requests end (daemon.rs
\* handle_server_request and handle_callback).
TasksEnd == Server!TasksEnd

\* A side question is answered, timed out or refused, and only one of the first
\* two (daemon.rs submit_ask_fork and sweep_expired_ask_threads).
AskEnds == Asks!AskEnds

\* A scheduled deletion is carried out or given up (daemon.rs, the deletion worker).
DeletionsSettle == Deletions!DeletionsSettle
==============================================================================
