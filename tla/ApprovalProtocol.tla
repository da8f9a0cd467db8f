---------------------------- MODULE ApprovalProtocol ---------------------------
(* What an approval request may be answered with, twice: the contract of the   *)
(* client library (InteractiveApprovalRequest) and what the daemon offers as   *)
(* buttons, stores with them and sends back (handle_server_request,            *)
(* handle_callback). The daemon does not use the library's functions.          *)
EXTENDS Naturals

VARIABLES
    request,      \* the request under way
    phase,        \* "asked", "shown", "answered", "refused"
    offered,      \* of each button, the decision it stands for and the answer stored with it
    answer,       \* sent to the app-server
    record,       \* decision kept in the approvals table
    confirmation  \* told to the chat
vars == <<request, phase, offered, answer, record, confirmation>>

Legacy == {"execCommandApproval", "applyPatchApproval"}
Files == {"fileChange", "applyPatchApproval"}
Methods == {"commandExecution", "fileChange", "permissions"} \cup Legacy

Modern3 == {"accept", "acceptForSession", "decline"}
Simple == Modern3 \cup {"cancel"}
Amendments == {"acceptWithExecpolicyAmendment", "applyNetworkPolicyAmendment"}
Names == {"threadId", "conversationId", "thread"}

\* Which fields name the thread; the decisions the app-server advertises, if any;
\* and whether the permissions it asks for are empty.
WellFormed ==
    [method : Methods, names : SUBSET Names, listed : BOOLEAN,
     decisions : SUBSET {"accept", "decline", "cancel", "malformed", "acceptWithExecpolicyAmendment"},
     permissions : {"empty", "requested"}]

\* An answer: a decision, or permissions with a scope.
Decide(decision) == [decision |-> decision, permissions |-> "none", scope |-> "none"]
Grant(permissions, scope) == [decision |-> "none", permissions |-> permissions, scope |-> scope]
Nothing == Decide("none")
Translated ==
    [accept |-> "approved", acceptForSession |-> "approved_for_session",
     decline |-> "denied", cancel |-> "abort"]

------------------------------------------------------------------------------
(* The contract *)

ConversationFirst(r) ==
    IF r.method \in Legacy /\ "conversationId" \in r.names THEN "conversationId"
    ELSE IF "threadId" \in r.names THEN "threadId" ELSE "none"
RequiredThread(r) ==
    IF ConversationFirst(r) = "none" /\ "thread" \in r.names THEN "thread" ELSE ConversationFirst(r)

\* approval_decision_kind: anything else is not a decision.
Kinds == Simple \cup Amendments

\* interactive_approval_decisions
ContractDecisions(r) ==
    CASE r.method = "commandExecution" ->
            {Decide(d) : d \in IF r.listed THEN r.decisions \cap Kinds ELSE Modern3}
      [] r.method = "execCommandApproval" -> {Decide(d) : d \in Simple}
      [] r.method \in Files ->
            {Decide(d) : d \in IF r.listed THEN r.decisions \cap Simple ELSE Simple}
      [] r.method = "permissions" ->
            {Grant(r.permissions, "turn")} \cup
            IF r.permissions = "empty" THEN {}
            ELSE {Grant(r.permissions, "session"), Grant("empty", "turn")}

\* approval_response_payload of the library
ContractAnswer(r, choice) ==
    IF r.method \in Legacy THEN Decide(Translated[choice.decision]) ELSE choice
Allowed(r) == {ContractAnswer(r, choice) : choice \in ContractDecisions(r)}

------------------------------------------------------------------------------
(* The daemon *)

Init ==
    /\ request \in WellFormed /\ phase = "asked" /\ offered = {} /\ answer = Nothing
    /\ record = "none" /\ confirmation = "none"

\* normalize_server_request_params
ThreadId(r) == ConversationFirst(r)

\* available_approval_decisions
Default(r) ==
    CASE r.method = "permissions" -> {"accept", "decline"}
      [] r.method \in Legacy -> Simple
      [] OTHER -> Modern3
Available(r) ==
    IF r.method = "permissions" \/ ~r.listed THEN Default(r) ELSE r.decisions \cap Simple

\* approval_response_payload of the daemon
Literal(r, d) == IF r.method = "permissions" THEN Grant(r.permissions, "turn") ELSE Decide(d)
Payload(r, d) ==
    CASE r.method \in Legacy -> Decide(Translated[d])
      [] r.method = "permissions" /\ d # "accept" -> Grant("empty", "turn")
      [] OTHER -> Literal(r, d)

Refuse ==
    /\ phase = "asked"
    /\ ThreadId(request) = "none" \/ Available(request) = {}
    /\ phase' = "refused"
    /\ UNCHANGED <<request, offered, answer, record, confirmation>>
Show ==
    /\ phase = "asked" /\ ThreadId(request) # "none" /\ Available(request) # {}
    /\ offered' = {[decision |-> d, response |-> Payload(request, d)] : d \in Available(request)}
    /\ record' = "pending" /\ phase' = "shown"
    /\ UNCHANGED <<request, answer, confirmation>>

\* domain_decision and approval_confirmation
Domain(d) == IF d \in {"accept", "acceptForSession"} THEN "approved" ELSE "rejected"
Confirmation(r, d) ==
    CASE r.method = "permissions" -> IF d = "accept" THEN "approved" ELSE "denied"
      [] d = "accept" -> "accepted" [] d = "acceptForSession" -> "accepted for session"
      [] d = "decline" -> "denied" [] OTHER -> "cancelled"

Press ==
    /\ phase = "shown" /\ phase' = "answered"
    /\ \E button \in offered :
          /\ answer' = button.response
          /\ record' = Domain(button.decision)
          /\ confirmation' = Confirmation(request, button.decision)
    /\ UNCHANGED <<request, offered>>

Next == Refuse \/ Show \/ Press
Spec == Init /\ [][Next]_vars

------------------------------------------------------------------------------
(* Properties *)

\* Whatever button is pressed, the answer is one the contract has for a decision
\* the app-server advertised ("Encode an approval response only after checking it
\* against the exact decisions Codex advertised for this request"), although the
\* daemon works it out by itself.
WithinContract == phase = "answered" => answer \in Allowed(request)

\* The record, the message to the chat and the answer say the same: what is
\* recorded as rejected or confirmed as denied grants nothing.
Grants(a) ==
    \/ a.decision \in {"accept", "acceptForSession", "approved", "approved_for_session"}
    \/ a.permissions = "requested"
RecordAgrees ==
    phase = "answered" =>
        /\ Grants(answer) => record = "approved"
        /\ record = "rejected" <=> confirmation \in {"denied", "cancelled"}
=============================================================================
