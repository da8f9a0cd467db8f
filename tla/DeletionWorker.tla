---------------------------- MODULE DeletionWorker ----------------------------
(* Scheduled deletion of Telegram messages: the rows of the store and the      *)
(* worker that claims what is due and deletes it, one message after the other. *)
(* Time is counted down in each row, one tick a second.                        *)
EXTENDS Integers, FiniteSets

CONSTANTS
    Messages,      \* replies of the control bot, and the commands they answer
    Deadline,      \* ticks until a message is to be deleted
    Lease,         \* ticks a claim is good for (60 in the code)
    MaxAttempts,   \* failures after which a message is given up (8)
    BackoffCap,    \* longest pause between two attempts (300)
    Limit,         \* messages claimed at a time (32)
    MaxRestarts    \* bound on restarts

VARIABLES
    row,           \* of each message: its scheduled deletion
    present,       \* messages that can be seen in the chat
    batch,         \* messages the worker claimed and has yet to delete
    tried,         \* the message whose deletion returned, and how
    restarts
vars == <<row, present, batch, tried, restarts>>

\* claim is the time a claim has left, 0 when there is none or it is stale.
NoRow == [state |-> "none", wait |-> 0, pause |-> 0, claim |-> 0, attempts |-> 0]
NoTry == [message |-> "none", ok |-> FALSE]

TypeOK ==
    /\ row \in [Messages -> [state : {"none", "scheduled", "claimed", "abandoned"},
                             wait : 0..Deadline, pause : 0..BackoffCap, claim : 0..Lease,
                             attempts : 0..MaxAttempts]]
    /\ present \subseteq Messages /\ batch \subseteq Messages
    /\ tried.message \in Messages \cup {"none"} /\ restarts \in 0..MaxRestarts

Init ==
    /\ row = [m \in Messages |-> NoRow] /\ present = Messages
    /\ batch = {} /\ tried = NoTry /\ restarts = 0

\* schedule_deletion: a row that is there starts anew, for a command that is
\* handled again after a restart.
Anew == [NoRow EXCEPT !.state = "scheduled", !.wait = Deadline]
Schedule(m) ==
    /\ \/ row[m].state = "none" /\ m \in present /\ UNCHANGED restarts
       \/ row[m].state # "none" /\ restarts < MaxRestarts /\ restarts' = restarts + 1
    /\ row' = [row EXCEPT ![m] = Anew]
    /\ UNCHANGED <<present, batch, tried>>

Less(n) == IF n > 0 THEN n - 1 ELSE 0
Tick ==
    /\ row' = [m \in Messages |-> [row[m] EXCEPT !.wait = Less(@), !.pause = Less(@),
                                                 !.claim = Less(@)]]
    /\ UNCHANGED <<present, batch, tried, restarts>>

------------------------------------------------------------------------------
(* claim_due_deletions: a claim of a process that ended is taken over when its *)
(* lease has run out.                                                          *)

Ripe(m) == row[m].wait = 0 /\ row[m].pause = 0
DueUnclaimed(m) == Ripe(m) /\ row[m].state = "scheduled"
Due(m) ==
    \/ DueUnclaimed(m)
    \/ Ripe(m) /\ row[m].state = "claimed" /\ row[m].claim = 0
DueRows == {m \in Messages : Due(m)}

Claim ==
    /\ batch = {} /\ tried = NoTry /\ DueRows # {}
    /\ \E claimed \in SUBSET DueRows :
          /\ claimed # {} /\ Cardinality(claimed) <= Limit
          /\ claimed # DueRows => Cardinality(claimed) = Limit
          /\ batch' = claimed
          /\ row' = [m \in Messages |-> IF m \in claimed
                                        THEN [row[m] EXCEPT !.state = "claimed", !.claim = Lease]
                                        ELSE row[m]]
    /\ UNCHANGED <<present, tried, restarts>>

\* delete_scheduled_message: a message that is gone (error 400) counts as deleted.
Delete ==
    /\ tried = NoTry
    /\ \E m \in batch :
          /\ batch' = batch \ {m}
          /\ \/ present' = present \ {m} /\ tried' = [message |-> m, ok |-> TRUE]
             \/ m \in present /\ UNCHANGED present /\ tried' = [message |-> m, ok |-> FALSE]
    /\ UNCHANGED <<row, restarts>>

Complete ==
    /\ tried.ok /\ tried' = NoTry
    /\ row' = [row EXCEPT ![tried.message] = NoRow]
    /\ UNCHANGED <<present, batch, restarts>>

\* retry_deletion: the pause doubles up to its cap; the last failure gives up.
Pause(attempts) == IF 2 ^ attempts < BackoffCap THEN 2 ^ attempts ELSE BackoffCap
Released(r) == [r EXCEPT !.attempts = r.attempts + 1, !.claim = 0, !.pause = Pause(r.attempts + 1)]
RetriedOnceMore(r) ==
    [Released(r) EXCEPT !.state = IF r.attempts >= MaxAttempts THEN "abandoned" ELSE "scheduled"]
Retried(r) ==
    [Released(r) EXCEPT !.state = IF r.attempts + 1 >= MaxAttempts THEN "abandoned" ELSE "scheduled"]
Retry ==
    /\ tried # NoTry /\ ~tried.ok /\ tried' = NoTry
    /\ row' = [row EXCEPT ![tried.message] = IF @.state = "none" THEN @ ELSE Retried(@)]
    /\ UNCHANGED <<present, batch, restarts>>

\* The claims of the process stay in the rows.
Restart ==
    /\ restarts < MaxRestarts /\ restarts' = restarts + 1
    /\ batch' = {} /\ tried' = NoTry
    /\ UNCHANGED <<row, present>>

Work == Claim \/ Delete \/ Complete \/ Retry
Next == Tick \/ Restart \/ Work \/ \E m \in Messages : Schedule(m)
Fairness == WF_vars(Tick) /\ WF_vars(Work)
Spec == Init /\ [][Next]_vars /\ Fairness

------------------------------------------------------------------------------
(* Properties *)

\* A row is dropped when its message is gone, and given up after its last attempt
\* (delete_scheduled_message, retry_deletion).
RowEndsRight(m) ==
    /\ row[m].state # "none" /\ row'[m].state = "none" => m \notin present
    /\ row'[m].state = "abandoned" => row'[m].attempts = MaxAttempts
RowsEndRight == [][\A m \in Messages : RowEndsRight(m)]_vars

\* A scheduled message is deleted or, after its last attempt, given up, whatever
\* fails and wherever the process ends in between (claim_due_deletions,
\* retry_deletion).
Settled(m) ==
    \/ row[m].state = "none" /\ m \notin present
    \/ row[m].state = "abandoned" /\ row[m].attempts = MaxAttempts
DeletionsSettle == \A m \in Messages : row[m].state = "scheduled" ~> Settled(m)
=============================================================================
