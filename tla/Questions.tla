------------------------------ MODULE Questions ------------------------------
(* One item/tool/requestUserInput request of the app-server (daemon.rs): the *)
(* server-request task stores it and shows its questions one after another,  *)
(* the worker of the chat handles the buttons and /answer commands.  Both    *)
(* write the whole workflow record, from the copy they read.  A record is    *)
(* [status, answers, index]; the ids of the messages are left out.           *)
EXTENDS Naturals, FiniteSets, Functions

CONSTANTS
    QuestionIds,     \* ids the app-server gives its questions
    MaxQuestions,    \* questions of a request, at most
    Options,         \* button labels of a question
    Generation,      \* the connection that asked
    MaxGeneration,   \* bound on reconnects
    MaxFaults,       \* bound on failed calls of Telegram, the app-server and the store
    MaxAnswers       \* bound on buttons pressed and commands sent

VARIABLES
    ids,          \* the id of each question, after normalize_question_values
    secret,       \* one of the questions is secret
    generation,   \* of the current connection
    expired,      \* the deadline of the request has passed
    record,       \* the workflow record, NoRecord before it is stored
    table,        \* status of the row in rust_pending_questions
    buttons,      \* live callbacks: <<index of the question, option>>
    shown,        \* indices of the questions whose text Telegram shows
    presenter,    \* "start", "header", "render", "send", "store", "end", "failed"
    chat,         \* the worker: "idle", "respond", "resolve", "close", "send", "store"
    copy,         \* the record each of the two tasks works on
    answered,     \* history: the answers the app-server was sent, in order
    refusals,     \* history: error replies to the app-server
    overlapped,   \* history: the worker stored a record while the presenter held a copy
    faults, presses
requestVars == <<ids, secret, generation, expired>>
historyVars == <<answered, refusals, overlapped>>
vars == <<requestVars, record, table, buttons, shown, presenter, chat, copy,
          historyVars, faults, presses>>

NoRecord == [status |-> "none", answers |-> <<>>, index |-> 0]
Count == Cardinality(DOMAIN ids)
AskedIds == {ids[i] : i \in DOMAIN ids}
Statuses == {"none", "pending", "failed", "expired", "resolved"}
Records == [status : Statuses, answers : UNION {[S -> Options] : S \in SUBSET QuestionIds},
            index : 0..MaxQuestions]

TypeOK ==
    /\ ids \in UNION {[1..n -> QuestionIds] : n \in 0..MaxQuestions}
    /\ secret \in BOOLEAN /\ expired \in BOOLEAN /\ overlapped \in BOOLEAN
    /\ generation \in Generation..MaxGeneration
    /\ record.status \in Statuses /\ DOMAIN record.answers \subseteq AskedIds
    /\ record.index \in 0..Count
    /\ table \in {"none", "pending", "resolved"}
    /\ buttons \subseteq (1..Count) \X Options /\ shown \subseteq 1..Count
    /\ presenter \in {"start", "header", "render", "send", "store", "end", "failed"}
    /\ chat \in {"idle", "respond", "resolve", "close", "send", "store"}
    /\ answered \in Nat /\ refusals \in 0..1
    /\ faults \in 0..MaxFaults /\ presses \in 0..MaxAnswers

Init ==
    /\ ids \in UNION {[1..n -> QuestionIds] : n \in 0..MaxQuestions}
    /\ secret \in BOOLEAN
    /\ generation = Generation /\ expired = FALSE
    /\ record = NoRecord /\ table = "none" /\ buttons = {} /\ shown = {}
    /\ presenter = "start" /\ chat = "idle"
    /\ copy = [t \in {"presenter", "chat"} |-> NoRecord]
    /\ answered = 0 /\ refusals = 0 /\ overlapped = FALSE
    /\ faults = 0 /\ presses = 0

Fault == faults < MaxFaults /\ faults' = faults + 1

------------------------------------------------------------------------------
(* present_user_input_request *)

Refuse == refusals' = refusals + 1

\* No questions: an error.  A secret one: a hint for the user, no reply at all.
Decline ==
    /\ presenter = "start" /\ (Count = 0 \/ secret)
    /\ IF Count = 0 THEN Refuse ELSE UNCHANGED refusals
    /\ presenter' = "failed"
    /\ UNCHANGED <<requestVars, record, table, buttons, shown, chat, copy, answered,
                   overlapped, faults, presses>>

\* upsert_question, then the workflow record.
Store ==
    /\ presenter = "start" /\ Count > 0 /\ ~secret
    /\ table' = "pending"
    /\ record' = [status |-> "pending", answers |-> <<>>, index |-> 1]
    /\ copy' = [copy EXCEPT !["presenter"] = record']
    /\ presenter' = "header"
    /\ UNCHANGED <<requestVars, buttons, shown, chat, historyVars, faults, presses>>

Header ==
    /\ presenter = "header"
    /\ record' = copy["presenter"]
    /\ presenter' = "render"
    /\ UNCHANGED <<requestVars, table, buttons, shown, chat, copy, historyVars, faults, presses>>

HeaderFails ==
    /\ presenter = "header" /\ Fault
    /\ record' = [copy["presenter"] EXCEPT !.status = "failed"]
    /\ Refuse /\ presenter' = "failed"
    /\ UNCHANGED <<requestVars, table, buttons, shown, chat, copy, answered, overlapped, presses>>

------------------------------------------------------------------------------
(* render_user_question_prompt, which both tasks run: callbacks are created,  *)
(* the message is sent, and the copy is stored with the id of the message.    *)

Task == {"presenter", "chat"}
At(t, where) == IF t = "presenter" THEN presenter = where ELSE chat = where
Go(t, where) ==
    IF t = "presenter" THEN presenter' = where /\ UNCHANGED chat
                       ELSE chat' = where /\ UNCHANGED presenter

CreateButtons ==
    /\ presenter = "render"
    /\ buttons' = buttons \cup ({copy["presenter"].index} \X Options)
    /\ presenter' = "send"
    /\ UNCHANGED <<requestVars, record, table, shown, chat, copy, historyVars, faults, presses>>

Show(t) ==
    /\ At(t, "send")
    /\ shown' = shown \cup {copy[t].index}
    /\ Go(t, "store")
    /\ UNCHANGED <<requestVars, record, table, buttons, copy, historyVars, faults, presses>>

\* sendMessage fails, whether or not the message appears.  The presenter then
\* answers with an error; the record and the buttons stay as they are.
ShowFails(t) ==
    /\ At(t, "send") /\ Fault
    /\ shown' \in {shown, shown \cup {copy[t].index}}
    /\ IF t = "presenter" THEN Refuse /\ Go(t, "failed") ELSE UNCHANGED refusals /\ Go(t, "idle")
    /\ UNCHANGED <<requestVars, record, table, buttons, copy, answered, overlapped, presses>>

StoreCopy(t) ==
    /\ At(t, "store")
    /\ record' = copy[t]
    /\ IF t = "presenter" THEN Go(t, "end") ELSE Go(t, "idle")
    /\ UNCHANGED <<requestVars, table, buttons, shown, copy, historyVars, faults, presses>>

------------------------------------------------------------------------------
(* handle_question_callback and handle_answer_command, then answer_question. *)

LiveGeneration == record # NoRecord /\ generation = Generation
Live == record.status = "pending" /\ generation = Generation
IndexOf(id) == CHOOSE i \in DOMAIN ids : ids[i] = id /\ \A j \in 1..(i - 1) : ids[j] # id
FirstOpen(answers) ==
    CHOOSE i \in DOMAIN ids :
        /\ ids[i] \notin DOMAIN answers
        /\ \A j \in 1..(i - 1) : ids[j] \in DOMAIN answers

Overlap == overlapped' = (overlapped \/ presenter \in {"send", "store"})

\* The answer is added to the record.  The last one is sent to the app-server,
\* any other is stored and the next question is shown.
Accept(id, option) ==
    LET answers == [x \in DOMAIN record.answers \cup {id} |->
                        IF x = id THEN option ELSE record.answers[x]]
        accepted == [record EXCEPT !.answers = answers]
    IN IF AskedIds \subseteq DOMAIN answers
       THEN /\ copy' = [copy EXCEPT !["chat"] = accepted]
            /\ chat' = "respond"
            /\ UNCHANGED record
       ELSE /\ record' = [accepted EXCEPT !.index = FirstOpen(answers)]
            /\ copy' = [copy EXCEPT !["chat"] = record']
            /\ chat' = "send"

NextButtons ==
    buttons' = IF chat' = "send" THEN buttons \cup ({copy'["chat"].index} \X Options)
                                 ELSE buttons

\* Of an expired request only the status is written.
Expire == record' = [record EXCEPT !.status = "expired"] /\ UNCHANGED <<copy, chat>>

\* A press takes its button and must be about the question with its id.
Press(i, option) ==
    /\ chat = "idle" /\ <<i, option>> \in buttons /\ i \in shown
    /\ presses < MaxAnswers /\ presses' = presses + 1
    /\ IF generation # Generation
       THEN UNCHANGED <<record, copy, chat, buttons, overlapped>>
       ELSE IF Live /\ IndexOf(ids[i]) = i
            THEN /\ IF expired THEN Expire ELSE Accept(ids[i], option)
                 /\ buttons' = (IF chat' = "send" THEN {copy'["chat"].index} \X Options ELSE {})
                               \cup (buttons \ {<<i, option>>})
                 /\ Overlap
            ELSE /\ buttons' = buttons \ {<<i, option>>}
                 /\ UNCHANGED <<record, copy, chat, overlapped>>
    /\ UNCHANGED <<requestVars, table, shown, presenter, answered, refusals, faults>>

\* The text of a question names the request and the question for /answer.
Command(id, option) ==
    /\ chat = "idle" /\ shown # {} /\ Live
    /\ presses < MaxAnswers /\ presses' = presses + 1
    /\ IF expired THEN Expire ELSE Accept(id, option)
    /\ NextButtons /\ Overlap
    /\ UNCHANGED <<requestVars, table, shown, presenter, answered, refusals, faults>>

Respond ==
    /\ chat = "respond"
    /\ answered' = answered + 1
    /\ chat' = "resolve"
    /\ UNCHANGED <<requestVars, record, table, buttons, shown, presenter, copy, refusals,
                   overlapped, faults, presses>>

\* The reply fails; when it timed out it may be written all the same.
RespondFails ==
    /\ chat = "respond"
    /\ \/ generation # Generation /\ UNCHANGED <<faults, answered>>
       \/ Fault /\ answered' \in {answered, answered + 1}
    /\ chat' = "idle"
    /\ UNCHANGED <<requestVars, record, table, buttons, shown, presenter, copy, refusals,
                   overlapped, presses>>

\* resolve_question: a conflict, or an error of the store, ends the handler.
Resolve ==
    /\ chat = "resolve"
    /\ \/ table = "pending" /\ table' = "resolved" /\ chat' = "close" /\ UNCHANGED faults
       \/ table # "pending" /\ chat' = "idle" /\ UNCHANGED <<table, faults>>
       \/ Fault /\ chat' = "idle" /\ UNCHANGED table
    /\ UNCHANGED <<requestVars, record, buttons, shown, presenter, copy, historyVars, presses>>

Close ==
    /\ chat = "close"
    /\ record' = [copy["chat"] EXCEPT !.status = "resolved"]
    /\ chat' = "idle"
    /\ Overlap
    /\ UNCHANGED <<requestVars, table, buttons, shown, presenter, copy, answered, refusals,
                   faults, presses>>

------------------------------------------------------------------------------
Reconnect ==
    /\ generation < MaxGeneration
    /\ generation' = generation + 1
    /\ UNCHANGED <<ids, secret, expired, record, table, buttons, shown, presenter, chat, copy,
                   historyVars, faults, presses>>

\* The deadline ends the callbacks with the request.
Deadline ==
    /\ ~expired /\ presenter # "start"
    /\ expired' = TRUE /\ buttons' = {}
    /\ UNCHANGED <<ids, secret, generation, record, table, shown, presenter, chat, copy,
                   historyVars, faults, presses>>

Presenter ==
    \/ Decline \/ Store \/ Header \/ CreateButtons \/ Show("presenter") \/ StoreCopy("presenter")
Worker == Show("chat") \/ StoreCopy("chat") \/ Respond \/ Resolve \/ Close

Next ==
    \/ Presenter \/ HeaderFails \/ Worker \/ RespondFails
    \/ \E t \in Task : ShowFails(t)
    \/ \E i \in 1..MaxQuestions, option \in Options : Press(i, option)
    \/ \E id \in AskedIds, option \in Options : Command(id, option)
    \/ Reconnect \/ Deadline

Spec == Init /\ [][Next]_vars

------------------------------------------------------------------------------
\* Unless a call failed, or the worker and the presenter overlapped, a
\* request gets one reply: the answers, or an error.
OneReply == faults = 0 /\ ~overlapped => answered + refusals <= 1

\* A request that was answered stays closed: no later copy of the record
\* brings it back, as long as the two tasks do not overlap.
StaysResolved == record.status = "resolved" /\ ~overlapped' => record'.status = "resolved"
==============================================================================
