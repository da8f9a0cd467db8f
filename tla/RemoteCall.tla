----------------------------- MODULE RemoteCall -----------------------------
(* What AppServerClient::request promises to its callers: one outcome per  *)
(* request; a reply only to a request the app-server ran; at most two      *)
(* runs; and no run after the outcome, unless the caller gave up waiting.  *)
EXTENDS Naturals

CONSTANTS Requests,     \* calls of request()
          MaxRuns       \* two: the attempt and its retry

VARIABLES outcome,      \* what the caller got, "none" while it waits
          runs          \* how often the app-server was given the request
vars == <<outcome, runs>>

Replies == {"ok", "error"}
Outcomes == {"none", "timeout", "queueFull", "shutdown", "disconnected"} \cup Replies

Init ==
    /\ outcome = [r \in Requests |-> "none"]
    /\ runs = [r \in Requests |-> 0]

\* The request reaches the app-server, possibly after the caller gave up.
Run(r) ==
    /\ outcome[r] \in {"none", "timeout"}
    /\ runs[r] < MaxRuns
    /\ runs' = [runs EXCEPT ![r] = @ + 1]
    /\ UNCHANGED outcome

\* The caller gets its outcome, the last one.
End(r, o) ==
    /\ outcome[r] = "none"
    /\ o \in Outcomes \ {"none"}
    /\ o \in Replies => runs[r] > 0
    /\ outcome' = [outcome EXCEPT ![r] = o]
    /\ UNCHANGED runs

Next == \E r \in Requests : Run(r) \/ \E o \in Outcomes : End(r, o)
Spec == Init /\ [][Next]_vars
==============================================================================
