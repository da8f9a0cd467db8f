------------------------ MODULE PromptPipelineProofs ------------------------
(* For any number of prompts, turns, commands, faults and restarts: queue     *)
(* entries are submitted in their order, by no dispatcher twice, and never    *)
(* again after a restart; what is recorded as started is the turn that was    *)
(* started for it; and as long as every end names its turn, a prompt gets the *)
(* outcome of its own.                                                        *)
(*                                                                            *)
(* The argument: an entry gets "queued" once, from "absent", so that a task   *)
(* that picked the first one may rely on all older ones being past it, however *)
(* long it waits; and it picks one only before any call was made for it.      *)
EXTENDS PromptPipeline, TLAPS

Submitting == {"submit", "submitted", "recordStarted"}
Prompting == {"receipt", "prompted", "recordIntent", "recordPrompt"}

\* What a handler works on, and the outcome the event task has in hand.
Items ==
    /\ \A p \in Tasks : pc[p] \in Submitting => item[p] \in Keys
    /\ pc["chat"] \in {"enqueue", "withdraw"} => item["chat"] \in Keys
    /\ pc["chat"] \in Prompting => item["chat"] \in Prompts
    /\ pc["events"] \in {"markPrompts", "markQueue"} => ended.as \in Terminal
    /\ \A p \in Tasks : call[p].kind = "interrupt" => call[p].turn \in Turns

Typed == TypeOK /\ Items

------------------------------------------------------------------------------
LEMMA TypeInit == Init => Typed
<1> SUFFICES ASSUME Init PROVE Typed
  OBVIOUS
<1> USE DEF Init
<1>1. /\ status \in [Keys -> EntryStatus] /\ entryTurn \in [Keys -> TurnOrNone]
      /\ intent \in [Prompts -> IntentState] /\ intentTurn \in [Prompts -> TurnOrNone]
      /\ recorded \subseteq Prompts /\ sessionTurn \in TurnOrNone /\ projTurn \in TurnOrNone
  BY DEF EntryStatus, IntentState, TurnOrNone
<1>2. /\ saved \in [turn : TurnOrNone, status : {"none", "inProgress"} \cup Terminal,
                    older : SUBSET Prompts]
      /\ ended \in [turn : TurnOrNone, as : {"none"} \cup Terminal]
  BY DEF TurnOrNone, NotEnded
<1>3. /\ pc \in [Tasks -> Label] /\ item \in [Tasks -> Keys \cup Prompts \cup {NoItem}]
      /\ seen \in [Tasks -> TurnOrNone]
      /\ call \in [Tasks -> [kind : {"none", "start", "steer", "interrupt"},
                             turn : TurnOrNone, reply : {"none", "pending", "ok", "err"}]]
  BY DEF Label, TurnOrNone, NoCall
<1>4. /\ serverTurn \in [Turns -> {"none", "active"} \cup Terminal]
      /\ origin \in [Turns -> Keys \cup Prompts \cup {NoItem}]
      /\ events \in Seq([kind : {"started", "error"} \cup Terminal, turn : Turns])
      /\ calls \in [Keys -> [Tasks -> Nat]] /\ calledBefore \subseteq Keys
      /\ budget \in [DOMAIN Limits -> Nat]
  BY DEF Terminal
<1>5. Items
  BY DEF Items, Submitting, Prompting, Tasks, NoCall
<1> QED
  BY <1>1, <1>2, <1>3, <1>4, <1>5 DEF Typed, TypeOK

------------------------------------------------------------------------------
(* Steps keep the types. *)

LEMMA AsIntentState == \A as \in Terminal : AsIntent(as) \in {"completed", "failed", "cancelled"}
BY DEF Terminal, AsIntent

LEMMA SpendType ==
  ASSUME NEW what \in DOMAIN Limits, Spend(what), budget \in [DOMAIN Limits -> Nat]
  PROVE  budget' \in [DOMAIN Limits -> Nat]
BY DEF Spend

LEMMA DispatchType ==
  ASSUME Typed, NEW p \in Tasks, DispatchStep(p)
  PROVE  Typed'
<1> USE DEF Typed, TypeOK, Items, Return, GoTo, Done, NoCall, TurnOrNone, Submitting, Prompting,
            queue, intents, memory, locals, server, history
<1>1. CASE PickQueued(p)
  <2>1. PICK k \in Keys : item' = [item EXCEPT ![p] = k]
    BY <1>1 DEF PickQueued, FirstQueued, Queued
  <2> QED
    BY <1>1, <2>1 DEF PickQueued, Label
<1>2. CASE NothingToDispatch(p)
  BY <1>2 DEF NothingToDispatch, Label
<1>3. CASE SubmitQueued(p)
  BY <1>3 DEF SubmitQueued, Request, Label, EntryStatus
<1>4. CASE QueuedAccepted(p)
  BY <1>4 DEF QueuedAccepted, SetTurn, Label
<1>5. CASE RecordStarted(p)
  BY <1>5 DEF RecordStarted, Label, EntryStatus
<1>6. CASE QueuedUnclear(p)
  BY <1>6 DEF QueuedUnclear, Label, EntryStatus
<1> QED
  BY <1>1, <1>2, <1>3, <1>4, <1>5, <1>6 DEF DispatchStep

LEMMA ChatType ==
  ASSUME Typed, ChatStep \/ User
  PROVE  Typed'
<1> USE DEF Typed, TypeOK, Items, Return, GoTo, Done, NoCall, TurnOrNone, Submitting, Prompting,
            Tasks, queue, intents, memory, locals, server, history
<1>1. CASE EnqueuePrompt
  BY <1>1 DEF EnqueuePrompt, EntryStatus, Label
<1>2. CASE SubmitPrompt
  BY <1>2 DEF SubmitPrompt, Request, IntentState, Label
<1>3. CASE PromptAccepted
  BY <1>3 DEF PromptAccepted, SetTurn, Label
<1>4. CASE RecordIntent
  BY <1>4 DEF RecordIntent, IntentState, Label
<1>5. CASE RecordPrompt
  BY <1>5 DEF RecordPrompt, Label
<1>6. CASE PromptUnclear
  BY <1>6 DEF PromptUnclear, IntentState, Label
<1>7. CASE CommandAnswered
  BY <1>7 DEF CommandAnswered, SetTurn, Label
<1>8. CASE Withdraw
  BY <1>8 DEF Withdraw, EntryStatus, Label
<1>9. ASSUME NEW k \in Keys, ReceiveQueue(k)
      PROVE  Typed'
  BY <1>9 DEF ReceiveQueue, Label
<1>10. ASSUME NEW k \in Keys, ReceiveWithdrawal(k)
       PROVE  Typed'
  <2>1. budget' \in [DOMAIN Limits -> Nat]
    BY <1>10, SpendType DEF ReceiveWithdrawal, Limits
  <2> QED
    BY <1>10, <2>1 DEF ReceiveWithdrawal, Label
<1>11. ASSUME NEW m \in Prompts, ReceivePrompt(m)
       PROVE  Typed'
  BY <1>11 DEF ReceivePrompt, IntentState, Label
<1>12. CASE ReceiveCancel
  <2>1. budget' \in [DOMAIN Limits -> Nat]
    BY <1>12, SpendType DEF ReceiveCancel, Limits
  <2> QED
    BY <1>12, <2>1 DEF ReceiveCancel, Request, Label
<1>13. CASE ReceiveReview
  <2>1. budget' \in [DOMAIN Limits -> Nat]
    BY <1>13, SpendType DEF ReceiveReview, Limits
  <2> QED
    BY <1>13, <2>1 DEF ReceiveReview, Request, Label
<1> QED
  BY <1>1, <1>2, <1>3, <1>4, <1>5, <1>6, <1>7, <1>8, <1>9, <1>10, <1>11, <1>12, <1>13
     DEF ChatStep, User

Notes == [kind : {"started", "error"} \cup Terminal, turn : Turns]

LEMMA FirstNote ==
  ASSUME Typed, events # <<>>
  PROVE  Head(events) \in Notes /\ Tail(events) \in Seq(Notes)
<1>1. events \in Seq(Notes)
  BY DEF Typed, TypeOK, Notes
<1> QED
  BY <1>1

LEMMA EventType ==
  ASSUME Typed, EventStep
  PROVE  Typed'
<1> USE DEF Typed, TypeOK, Items, Return, GoTo, TurnOrNone, Submitting, Prompting, Tasks,
            queue, intents, memory, locals, server, history
<1>1. CASE SeeStarted
  <2>1. Head(events) \in Notes /\ Tail(events) \in Seq(Notes)
    BY <1>1, FirstNote DEF SeeStarted
  <2>2. projTurn' \in TurnOrNone
    BY <1>1, <2>1 DEF SeeStarted, Notes
  <2>3. /\ saved' \in [turn : TurnOrNone, status : {"none", "inProgress"} \cup Terminal,
                       older : SUBSET Prompts]
    BY <1>1, <2>2 DEF SeeStarted
  <2> QED
    BY <1>1, <2>1, <2>2, <2>3 DEF SeeStarted, Notes
<1>2. CASE SeeEnded
  <2>1. Head(events) \in Notes /\ Tail(events) \in Seq(Notes)
    BY <1>2, FirstNote DEF SeeEnded
  <2> DEFINE e == Head(events)
             as == IF e.kind = "error" THEN "failed" ELSE e.kind
             t == IF e.kind # "error" THEN e.turn
                  ELSE IF projTurn # NoTurn THEN projTurn ELSE sessionTurn
  <2>2. as \in Terminal /\ t \in TurnOrNone
    BY <1>2, <2>1 DEF SeeEnded, Notes, Terminal
  <2>3. /\ ended' = [turn |-> t, as |-> as]
        /\ saved' = [turn |-> projTurn, status |-> as,
                     older |-> {m \in Prompts : intent[m] # "absent"}]
    BY <1>2 DEF SeeEnded
  <2> HIDE DEF as, t
  <2>4. /\ ended' \in [turn : TurnOrNone, as : {"none"} \cup Terminal] /\ ended'.as \in Terminal
        /\ saved' \in [turn : TurnOrNone, status : {"none", "inProgress"} \cup Terminal,
                       older : SUBSET Prompts]
    BY <2>2, <2>3
  <2>5. /\ sessionTurn' \in TurnOrNone /\ pc' \in [Tasks -> Label]
        /\ pc' = [pc EXCEPT !["events"] = "markPrompts"]
        /\ UNCHANGED <<queue, intents, projTurn, item, seen, call, serverTurn, origin, history,
                       budget>>
        /\ events' = Tail(events)
    BY <1>2 DEF SeeEnded, SetTurn, Label
  <2> QED
    BY <2>1, <2>4, <2>5 DEF Notes
<1>3. CASE MarkPrompts
  <2>1. AsIntent(ended.as) \in IntentState
    BY <1>3, AsIntentState DEF MarkPrompts, IntentState
  <2>2. intent' \in [Prompts -> IntentState]
    BY <1>3, <2>1 DEF MarkPrompts
  <2>3. /\ saved' \in [turn : TurnOrNone, status : {"none", "inProgress"} \cup Terminal,
                       older : SUBSET Prompts]
    BY <1>3 DEF MarkPrompts
  <2> QED
    BY <1>3, <2>2, <2>3 DEF MarkPrompts, Label
<1>4. CASE MarkQueue
  <2>1. AsIntent(ended.as) \in EntryStatus
    BY <1>4, AsIntentState DEF MarkQueue, EntryStatus
  <2>2. status' \in [Keys -> EntryStatus]
    BY <1>4, <2>1 DEF MarkQueue
  <2> QED
    BY <1>4, <2>2 DEF MarkQueue, NotEnded, Label
<1>5. CASE ResumeQueue
  BY <1>5 DEF ResumeQueue, Label
<1> QED
  BY <1>1, <1>2, <1>3, <1>4, <1>5 DEF EventStep

\* What the app-server does to its turns and to the notifications.
LEMMA StartType ==
  ASSUME Typed, NEW for \in Keys \cup Prompts \cup {NoItem}, StartTurn(for)
  PROVE  /\ serverTurn' \in [Turns -> {"none", "active"} \cup Terminal]
         /\ origin' \in [Turns -> Keys \cup Prompts \cup {NoItem}]
         /\ events' \in Seq(Notes)
<1>1. PICK t \in Turns : /\ serverTurn' = [serverTurn EXCEPT ![t] = "active"]
                         /\ origin' = [origin EXCEPT ![t] = for]
                         /\ events' = Append(events, [kind |-> "started", turn |-> t])
  BY DEF StartTurn, NewTurn
<1>2. [kind |-> "started", turn |-> t] \in Notes /\ events \in Seq(Notes)
  BY DEF Notes, Typed, TypeOK
<1> QED
  BY <1>1, <1>2 DEF Typed, TypeOK

LEMMA EndType ==
  ASSUME Typed, NEW t \in Turns, NEW as \in Terminal, NEW first \in Seq(Notes),
         EndTurn(t, as, first)
  PROVE  /\ serverTurn' \in [Turns -> {"none", "active"} \cup Terminal] /\ origin' = origin
         /\ events' \in Seq(Notes)
<1>1. [kind |-> as, turn |-> t] \in Notes
  BY DEF Notes
<1>2. Report(as, t) \in Seq(Notes)
  BY <1>1 DEF Report
<1>3. events \in Seq(Notes)
  BY DEF Typed, TypeOK, Notes
<1>4. \A a, b \in Seq(Notes) : a \o b \in Seq(Notes)
  OBVIOUS
<1>5. events' \in Seq(Notes)
  <2>1. events \o first \in Seq(Notes)
    BY <1>3, <1>4
  <2> QED
    BY <1>2, <1>4, <2>1 DEF EndTurn
<1> QED
  BY <1>5 DEF EndTurn, Typed, TypeOK

LEMMA PurposeType ==
  ASSUME Typed, NEW p \in Tasks
  PROVE  Purpose(p) \in Keys \cup Prompts \cup {NoItem}
BY DEF Typed, TypeOK, Purpose

\* At most one turn can be the next.
LEMMA NextTurn ==
  ASSUME NEW t \in NewTurn
  PROVE  NewTurn = {t} /\ (CHOOSE u \in NewTurn : TRUE) = t
<1>1. ASSUME NEW u \in NewTurn
      PROVE  u = t
  <2>1. u \in Nat /\ t \in Nat /\ ~(u < t) /\ ~(t < u)
    BY BoundsAssumption DEF NewTurn, Turns
  <2> QED
    BY <2>1
<1> QED
  BY <1>1

LEMMA ServerType ==
  ASSUME Typed,
         \/ \E p \in Tasks : Serve(p) \/ ServeRefused(p) \/ CallFails(p)
         \/ \E t \in Turns : TurnEnds(t) \/ TurnFails(t)
         \/ StartElsewhere \/ LoseEvents
  PROVE  Typed'
<1> USE DEF TurnOrNone, queue, intents, memory, locals, server, history
<1>1. ASSUME UNCHANGED <<queue, intents, saved, memory, locals, history>>,
             serverTurn' \in [Turns -> {"none", "active"} \cup Terminal],
             origin' \in [Turns -> Keys \cup Prompts \cup {NoItem}], events' \in Seq(Notes),
             budget' \in [DOMAIN Limits -> Nat],
             \/ call' = call
             \/ \E p \in Tasks, t \in TurnOrNone, r \in {"ok", "err"} :
                  /\ call' = [call EXCEPT ![p].turn = t, ![p].reply = r]
                  /\ t = call[p].turn \/ t \in Turns
      PROVE  Typed'
  <2>1. /\ call' \in [Tasks -> [kind : {"none", "start", "steer", "interrupt"},
                               turn : TurnOrNone, reply : {"none", "pending", "ok", "err"}]]
        /\ \A p \in Tasks : call'[p].kind = "interrupt" => call'[p].turn \in Turns
    <3>1. CASE call' = call
      BY <3>1 DEF Typed, TypeOK, Items
    <3>2. ASSUME NEW p \in Tasks, NEW t \in TurnOrNone, NEW r \in {"ok", "err"},
                 call' = [call EXCEPT ![p].turn = t, ![p].reply = r],
                 t = call[p].turn \/ t \in Turns
          PROVE  <2>1!1 /\ <2>1!2
      <4> DEFINE Calls == [kind : {"none", "start", "steer", "interrupt"}, turn : TurnOrNone,
                           reply : {"none", "pending", "ok", "err"}]
      <4>1. call \in [Tasks -> Calls]
        BY DEF Typed, TypeOK
      <4>2. /\ call'[p] = [call[p] EXCEPT !.turn = t, !.reply = r]
            /\ \A q \in Tasks \ {p} : call'[q] = call[q]
        BY <3>2, <4>1
      <4>3. call[p] \in Calls
        BY <4>1
      <4>4. call'[p] \in Calls /\ call'[p].kind = call[p].kind /\ call'[p].turn = t
        BY <4>2, <4>3
      <4>5. call' \in [Tasks -> Calls]
        BY <3>2, <4>1, <4>2, <4>4
      <4>6. \A q \in Tasks : call'[q].kind = "interrupt" => call'[q].turn \in Turns
        BY <3>2, <4>2, <4>4 DEF Typed, Items
      <4> QED
        BY <4>5, <4>6
    <3> QED
      BY <1>1, <3>1, <3>2
  <2>2. TypeOK'
    BY <1>1, <2>1 DEF Typed, TypeOK, Notes
  <2> QED
    BY <1>1, <2>1, <2>2 DEF Typed, Items
<1>k. /\ budget \in [DOMAIN Limits -> Nat] /\ events \in Seq(Notes) /\ <<>> \in Seq(Notes)
      /\ serverTurn \in [Turns -> {"none", "active"} \cup Terminal]
      /\ origin \in [Turns -> Keys \cup Prompts \cup {NoItem}]
      /\ call \in [Tasks -> [kind : {"none", "start", "steer", "interrupt"},
                             turn : TurnOrNone, reply : {"none", "pending", "ok", "err"}]]
  BY DEF Typed, TypeOK, Notes
<1>2. ASSUME NEW p \in Tasks, Refuse(p)
      PROVE  \E t \in TurnOrNone :
                call' = [call EXCEPT ![p].turn = t, ![p].reply = "err"] /\ t = call[p].turn
  <2>1. call' = [call EXCEPT ![p].turn = call[p].turn, ![p].reply = "err"]
    BY <1>2, <1>k DEF Refuse
  <2>2. call[p].turn \in TurnOrNone
    BY <1>k
  <2> QED
    BY <2>1, <2>2
<1>3. ASSUME NEW p \in Tasks, Serve(p)
      PROVE  Typed'
  <2>1. CASE call[p].kind = "start" /\ StartTurn(Purpose(p))
               /\ Answer(p, CHOOSE t \in NewTurn : TRUE)
    <3>1. PICK t \in NewTurn : Answer(p, t)
      BY <2>1, NextTurn DEF StartTurn
    <3>2. t \in Turns /\ call' = [call EXCEPT ![p].turn = t, ![p].reply = "ok"]
      BY <3>1 DEF NewTurn, Answer
    <3> QED
      BY <1>1, <1>3, <1>k, <2>1, <3>2, StartType, PurposeType DEF Serve
  <2>2. CASE call[p].kind = "steer" /\ Answer(p, call[p].turn) /\ UNCHANGED server
    <3>1. call[p].turn \in TurnOrNone
      BY <1>k
    <3> QED
      BY <1>1, <1>3, <1>k, <2>2, <3>1 DEF Serve, Answer
  <2>3. CASE call[p].kind = "interrupt" /\ EndTurn(call[p].turn, "interrupted", <<>>)
               /\ Answer(p, call[p].turn)
    <3>1. call[p].turn \in Turns
      BY <2>3 DEF Typed, Items
    <3>2. "interrupted" \in Terminal
      BY DEF Terminal
    <3>3. /\ serverTurn' \in [Turns -> {"none", "active"} \cup Terminal] /\ origin' = origin
          /\ events' \in Seq(Notes)
      BY <1>k, <2>3, <3>1, <3>2, EndType
    <3> QED
      BY <1>1, <1>3, <1>k, <2>3, <3>1, <3>3 DEF Serve, Answer
  <2> QED
    BY <1>3, <2>1, <2>2, <2>3 DEF Serve
<1>4. ASSUME NEW p \in Tasks, ServeRefused(p)
      PROVE  Typed'
  BY <1>1, <1>2, <1>4, <1>k DEF ServeRefused
<1>5. ASSUME NEW p \in Tasks, CallFails(p)
      PROVE  Typed'
  <2>1. budget' \in [DOMAIN Limits -> Nat]
    BY <1>5, <1>k, SpendType DEF CallFails, Limits
  <2>2. \/ call' = call
        \/ \E q \in Tasks, t \in TurnOrNone, r \in {"ok", "err"} :
             /\ call' = [call EXCEPT ![q].turn = t, ![q].reply = r]
             /\ t = call[q].turn \/ t \in Turns
    BY <1>2, <1>5 DEF CallFails
  <2>3. CASE UNCHANGED server
    BY <1>1, <1>5, <1>k, <2>1, <2>2, <2>3 DEF CallFails
  <2>4. CASE StartTurn(Purpose(p))
    BY <1>1, <1>5, <2>1, <2>2, <2>4, StartType, PurposeType DEF CallFails
  <2> QED
    BY <1>5, <2>3, <2>4 DEF CallFails
<1>6. ASSUME NEW t \in Turns, TurnEnds(t)
      PROVE  Typed'
  <2>1. "completed" \in Terminal
    BY DEF Terminal
  <2> QED
    BY <1>1, <1>6, <1>k, <2>1, EndType DEF TurnEnds
<1>7. ASSUME NEW t \in Turns, TurnFails(t)
      PROVE  Typed'
  <2>1. "failed" \in Terminal /\ Report("error", t) \in Seq(Notes)
    BY DEF Terminal, Report, Notes
  <2>2. budget' \in [DOMAIN Limits -> Nat]
    BY <1>7, <1>k, SpendType DEF TurnFails, Limits
  <2> QED
    BY <1>1, <1>7, <1>k, <2>1, <2>2, EndType DEF TurnFails
<1>8. CASE StartElsewhere
  <2>1. budget' \in [DOMAIN Limits -> Nat]
    BY <1>8, <1>k, SpendType DEF StartElsewhere, Limits
  <2> QED
    BY <1>1, <1>8, <2>1, StartType DEF StartElsewhere
<1>9. CASE LoseEvents
  <2>1. budget' \in [DOMAIN Limits -> Nat]
    BY <1>9, <1>k, SpendType DEF LoseEvents, Limits
  <2>2. events' \in Seq(Notes)
    <3>1. PICK n \in 0..(Len(events) - 1) : events' = SubSeq(events, 1, n)
      BY <1>9 DEF LoseEvents
    <3> QED
      BY <1>k, <3>1
  <2> QED
    BY <1>1, <1>9, <1>k, <2>1, <2>2 DEF LoseEvents
<1> QED
  BY <1>3, <1>4, <1>5, <1>6, <1>7, <1>8, <1>9

LEMMA RestartType ==
  ASSUME Typed, Crash \/ Restart \/ Hydrate
  PROVE  Typed'
<1> USE DEF Typed, TypeOK, Items, Return, GoTo, NoCall, TurnOrNone, Submitting, Prompting, Tasks,
            queue, intents, memory, locals, server, history
<1>1. CASE Crash
  <2>1. budget' \in [DOMAIN Limits -> Nat]
    BY <1>1, SpendType DEF Crash, Limits
  <2>2. /\ calls' \in [Keys -> [Tasks -> Nat]] /\ calledBefore' \subseteq Keys
        /\ pc' \in [Tasks -> Label] /\ ended' = NotEnded /\ events' = <<>>
    BY <1>1 DEF Crash, Label
  <2> QED
    BY <1>1, <2>1, <2>2 DEF Crash, NotEnded
<1>2. CASE Restart
  <2>1. intent' \in [Prompts -> IntentState]
    <3>1. \A as \in Terminal : AsIntent(as) \in IntentState
      BY AsIntentState DEF IntentState
    <3> QED
      BY <1>2, <3>1 DEF Restart
  <2>2. pc' \in [Tasks -> Label] /\ pc'["chat"] = "dispatch" /\ pc'["events"] = "hydrate"
    BY <1>2 DEF Restart, Label
  <2>3. /\ sessionTurn' \in TurnOrNone /\ projTurn' \in TurnOrNone
        /\ seen' \in [Tasks -> TurnOrNone] /\ events' = <<>>
    BY <1>2 DEF Restart
  <2> QED
    BY <1>2, <2>1, <2>2, <2>3 DEF Restart
<1>3. CASE Hydrate
  <2>1. /\ projTurn' \in TurnOrNone
        /\ saved' \in [turn : TurnOrNone, status : {"none", "inProgress"} \cup Terminal,
                       older : SUBSET Prompts]
    <3>1. CASE UNCHANGED <<projTurn, saved>>
      BY <3>1
    <3>2. ASSUME NEW t \in LastTurn, projTurn' = t,
                 \E older \in {{}, {m \in Prompts : intent[m] # "absent"}} :
                    saved' = [turn |-> t, older |-> older,
                              status |-> IF serverTurn[t] = "active" THEN "inProgress"
                                         ELSE serverTurn[t]]
          PROVE  <2>1!1 /\ <2>1!2
      BY <3>2 DEF LastTurn
    <3> QED
      BY <1>3, <3>1, <3>2 DEF Hydrate
  <2> QED
    BY <1>3, <2>1 DEF Hydrate, Label
<1> QED
  BY <1>1, <1>2, <1>3

LEMMA TypeStep == Typed /\ [Next]_vars => Typed'
<1> SUFFICES ASSUME Typed, [Next]_vars
             PROVE  Typed'
  OBVIOUS
<1>1. CASE UNCHANGED vars
  BY <1>1 DEF vars, queue, intents, memory, locals, server, history, Typed, TypeOK, Items
<1>2. CASE Next
  BY <1>2, DispatchType, ChatType, EventType, ServerType, RestartType DEF Next
<1> QED
  BY <1>1, <1>2

------------------------------------------------------------------------------
(* The order of the queue and the calls made for it. *)

Waiting == {"absent", "queued"}
Placed == Submitting \cup {"enqueue", "withdraw"}

\* The entry exists, or is about to.
Known(k) == status[k] # "absent" \/ (pc["chat"] = "enqueue" /\ item["chat"] = k)

\* Entries are made in the order of their keys.
Numbered == \A j, k \in Keys : j < k /\ Known(k) => status[j] # "absent"

\* What a handler may rely on about the entry it works on.
Relied(p) ==
    /\ pc[p] \in Submitting \cup {"withdraw"} => status[item[p]] # "absent"
    /\ pc[p] \in {"enqueue", "withdraw"} => p = "chat"
    /\ pc[p] = "enqueue" => status[item[p]] = "absent"
    /\ pc[p] = "submit" =>
         /\ \A j \in Keys : j < item[p] => status[j] \notin Waiting
         /\ item[p] \notin calledBefore /\ calls[item[p]][p] = 0

\* An entry a call was made for waits no more.
CalledIsPast ==
    \A k \in Keys : k \in calledBefore \/ (\E p \in Tasks : calls[k][p] > 0) =>
        status[k] \notin Waiting

QueueInv ==
    /\ Numbered /\ CalledIsPast /\ OncePerDispatcher
    /\ \A p \in Tasks : Relied(p)

Settles == \A k \in Keys : \/ status'[k] = status[k]
                           \/ status[k] # "absent" /\ status'[k] \notin Waiting
Moves(p) == \/ pc'[p] = pc[p] /\ item'[p] = item[p]
            \/ pc'[p] \notin Placed
            \/ pc[p] = "submitted" /\ pc'[p] = "recordStarted" /\ item'[p] = item[p]

\* A step that makes no call, adds no entry and picks none.
LEMMA Onward ==
  ASSUME Typed, QueueInv, Settles, UNCHANGED history, \A p \in Tasks : Moves(p)
  PROVE  QueueInv'
<1>1. "chat" \in Tasks
  BY DEF Tasks
<1>2. \A k \in Keys : /\ status[k] \notin Waiting => status'[k] \notin Waiting
                      /\ status'[k] # "absent" <=> status[k] # "absent"
  BY DEF Settles, Waiting
<1>3. ASSUME NEW k \in Keys
      PROVE  Known(k)' => Known(k)
  BY <1>1, <1>2 DEF Known, Moves, Placed
<1>4. Numbered'
  BY <1>2, <1>3 DEF QueueInv, Numbered
<1>5. CalledIsPast' /\ OncePerDispatcher'
  BY <1>2 DEF QueueInv, CalledIsPast, OncePerDispatcher, history
<1>6. ASSUME NEW p \in Tasks
      PROVE  Relied(p)'
  <2>1. Relied(p) /\ Moves(p) /\ (pc[p] \in Placed => item[p] \in Keys)
    BY DEF QueueInv, Typed, Items, Placed, Tasks, Relied
  <2>2. CASE pc'[p] = pc[p] /\ item'[p] = item[p]
    BY <1>2, <2>1, <2>2 DEF Relied, Placed, Submitting, history
  <2>3. CASE pc'[p] \notin Placed
    BY <2>3 DEF Relied, Placed, Submitting
  <2>4. CASE pc[p] = "submitted" /\ pc'[p] = "recordStarted" /\ item'[p] = item[p]
    BY <1>2, <2>1, <2>4 DEF Relied, Placed, Submitting
  <2> QED
    BY <2>1, <2>2, <2>3, <2>4 DEF Moves
<1> QED
  BY <1>4, <1>5, <1>6 DEF QueueInv

LEMMA PickOrder ==
  ASSUME Typed, QueueInv, NEW p \in Tasks, PickQueued(p)
  PROVE  QueueInv'
<1>1. PICK k \in FirstQueued : item' = [item EXCEPT ![p] = k]
  BY DEF PickQueued
<1>2. /\ k \in Keys /\ status[k] = "queued" /\ \A j \in Keys : status[j] = "queued" => k <= j
      /\ Keys \subseteq Nat
  BY BoundsAssumption DEF FirstQueued, Queued, Keys
<1>3. /\ pc' = [pc EXCEPT ![p] = "submit"] /\ UNCHANGED <<status, calls, calledBefore>>
      /\ pc[p] = "dispatch"
  BY DEF PickQueued, GoTo, queue, history
<1>4. /\ pc'[p] = "submit" /\ item'[p] = k
      /\ \A q \in Tasks \ {p} : pc'[q] = pc[q] /\ item'[q] = item[q]
  BY <1>1, <1>3 DEF Typed, TypeOK
<1>5. \A j \in Keys : j < k => status[j] \notin Waiting
  BY <1>2 DEF QueueInv, Numbered, Known, Waiting
<1>6. k \notin calledBefore /\ calls[k][p] = 0
  <2>1. calls[k][p] \in Nat
    BY <1>2 DEF Typed, TypeOK
  <2> QED
    BY <1>2, <2>1 DEF QueueInv, CalledIsPast, Waiting
<1>7. Relied(p)'
  BY <1>2, <1>3, <1>4, <1>5, <1>6 DEF Relied, Submitting
<1>8. \A q \in Tasks \ {p} : Relied(q)'
  BY <1>3, <1>4 DEF QueueInv, Relied
<1>9. \A j \in Keys : Known(j)' => Known(j)
  BY <1>3, <1>4 DEF Known, Tasks
<1>10. Numbered' /\ CalledIsPast' /\ OncePerDispatcher'
  BY <1>3, <1>9 DEF QueueInv, Numbered, CalledIsPast, OncePerDispatcher
<1> QED
  BY <1>7, <1>8, <1>10 DEF QueueInv

LEMMA SubmitOrder ==
  ASSUME Typed, QueueInv, NEW p \in Tasks, SubmitQueued(p)
  PROVE  QueueInv'
<1> DEFINE k == item[p]
<1>1. /\ pc[p] = "submit" /\ pc' = [pc EXCEPT ![p] = "submitted"]
      /\ status' = [status EXCEPT ![k] = "submitting"]
      /\ calls' = [calls EXCEPT ![k][p] = @ + 1] /\ UNCHANGED <<item, calledBefore>>
  BY DEF SubmitQueued, GoTo
<1>2. /\ k \in Keys /\ status[k] # "absent" /\ calls[k][p] = 0
  BY <1>1 DEF QueueInv, Relied, Typed, Items, Submitting
<1> HIDE DEF k
<1>3. /\ status'[k] = "submitting" /\ \A j \in Keys \ {k} : status'[j] = status[j]
      /\ calls'[k][p] = 1
      /\ \A q \in Tasks \ {p} : /\ \A j \in Keys : calls'[j][q] = calls[j][q]
                                /\ pc'[q] = pc[q]
      /\ \A j \in Keys \ {k} : calls'[j][p] = calls[j][p]
      /\ pc'[p] = "submitted"
  BY <1>1, <1>2 DEF Typed, TypeOK
<1>4. \A j \in Keys : /\ status'[j] # "absent" <=> status[j] # "absent"
                      /\ status[j] \notin Waiting => status'[j] \notin Waiting
  BY <1>2, <1>3 DEF Waiting
<1>5. \A j \in Keys : Known(j)' => Known(j)
  BY <1>1, <1>3, <1>4 DEF Known, Tasks
<1>6. Numbered'
  BY <1>4, <1>5 DEF QueueInv, Numbered
<1>7. CalledIsPast'
  <2>1. ASSUME NEW j \in Keys, j # k, j \in calledBefore' \/ \E q \in Tasks : calls'[j][q] > 0
        PROVE  status'[j] \notin Waiting
    BY <1>1, <1>3, <2>1 DEF QueueInv, CalledIsPast
  <2>2. status'[k] \notin Waiting
    BY <1>3 DEF Waiting
  <2> QED
    BY <2>1, <2>2 DEF CalledIsPast
<1>8. OncePerDispatcher'
  BY <1>3 DEF QueueInv, OncePerDispatcher
<1>9. Relied(p)'
  BY <1>1, <1>3 DEF Relied, k, Submitting
<1>10. ASSUME NEW q \in Tasks, q # p
       PROVE  Relied(q)'
  <2>1. Relied(q) /\ pc'[q] = pc[q] /\ item'[q] = item[q]
    BY <1>1, <1>3, <1>10 DEF QueueInv
  <2>2. pc[q] \in Placed => item[q] \in Keys
    BY <2>1 DEF Typed, Items, Placed, Tasks, Relied
  <2> QED
    BY <1>1, <1>3, <1>4, <1>10, <2>1, <2>2 DEF Relied, Placed, Submitting
<1> QED
  BY <1>6, <1>7, <1>8, <1>9, <1>10 DEF QueueInv

LEMMA ReceiveOrder ==
  ASSUME Typed, QueueInv, NEW k \in Keys, ReceiveQueue(k) \/ ReceiveWithdrawal(k)
  PROVE  QueueInv'
<1> USE DEF Tasks
<1>1. /\ item' = [item EXCEPT !["chat"] = k] /\ UNCHANGED <<status, calls, calledBefore>>
      /\ pc["chat"] = "idle"
  BY DEF ReceiveQueue, ReceiveWithdrawal, queue, history
<1>2. /\ item'["chat"] = k /\ pc'["events"] = pc["events"] /\ item'["events"] = item["events"]
      /\ \/ pc'["chat"] = "enqueue" /\ status[k] = "absent"
            /\ \A j \in Keys : j < k => status[j] # "absent"
         \/ pc'["chat"] = "withdraw" /\ status[k] = "queued"
  BY <1>1 DEF ReceiveQueue, ReceiveWithdrawal, GoTo, Typed, TypeOK
<1>3. Numbered' /\ CalledIsPast' /\ OncePerDispatcher'
  BY <1>1, <1>2 DEF QueueInv, Numbered, Known, CalledIsPast, OncePerDispatcher
<1>4. Relied("chat")' /\ Relied("events")'
  BY <1>1, <1>2 DEF QueueInv, Relied, Submitting
<1> QED
  BY <1>3, <1>4 DEF QueueInv

LEMMA EnqueueOrder ==
  ASSUME Typed, QueueInv, EnqueuePrompt
  PROVE  QueueInv'
<1> USE DEF Tasks
<1> DEFINE k == item["chat"]
<1>1. /\ pc["chat"] = "enqueue" /\ status' = [status EXCEPT ![k] = "queued"]
      /\ pc' = [pc EXCEPT !["chat"] = "dispatch"] /\ UNCHANGED <<item, calls, calledBefore>>
  BY DEF EnqueuePrompt, GoTo, history
<1>2. k \in Keys /\ status[k] = "absent" /\ \A j \in Keys : j < k => status[j] # "absent"
  BY <1>1 DEF Typed, Items, QueueInv, Relied, Numbered, Known
<1>3. /\ status'[k] = "queued" /\ \A j \in Keys \ {k} : status'[j] = status[j]
      /\ pc'["chat"] = "dispatch" /\ pc'["events"] = pc["events"]
  BY <1>1, <1>2 DEF Typed, TypeOK
<1>4. \A j \in Keys : Known(j)' => Known(j)
  BY <1>1, <1>3 DEF Known
<1>5. \A j \in Keys : status[j] # "absent" => status'[j] = status[j]
  BY <1>2, <1>3
<1>6. Numbered'
  BY <1>4, <1>5 DEF QueueInv, Numbered
<1>7. k \notin calledBefore /\ \A p \in Tasks : ~(calls[k][p] > 0)
  BY <1>2 DEF QueueInv, CalledIsPast, Waiting
<1>8. CalledIsPast' /\ OncePerDispatcher'
  BY <1>1, <1>3, <1>7 DEF QueueInv, CalledIsPast, OncePerDispatcher
<1> HIDE DEF k
<1>9. Relied("chat")'
  BY <1>3 DEF Relied, Submitting
<1>10. Relied("events")'
  <2>1. /\ pc["events"] \notin {"enqueue", "withdraw"}
        /\ pc["events"] \in Submitting => item["events"] \in Keys
    BY DEF QueueInv, Relied, Typed, Items
  <2>2. \A j \in Keys : status[j] \notin Waiting => status'[j] \notin Waiting
    BY <1>5 DEF Waiting
  <2> QED
    BY <1>1, <1>3, <1>5, <2>1, <2>2 DEF QueueInv, Relied, Submitting
<1> QED
  BY <1>6, <1>8, <1>9, <1>10 DEF QueueInv

\* A step of the server, the network or the projection.
LEMMA ElsewhereOrder ==
  ASSUME Typed, QueueInv, UNCHANGED <<status, history>>,
         \/ UNCHANGED <<pc, item>>
         \/ \E p \in Tasks, l \in Label \ Placed :
              pc' = [pc EXCEPT ![p] = l]
                /\ (item' = item \/ \E i : item' = [item EXCEPT ![p] = i])
  PROVE  QueueInv'
<1>1. Settles
  BY DEF Settles
<1>2. \A q \in Tasks : Moves(q)
  BY DEF Moves, Typed, TypeOK
<1> QED
  BY <1>1, <1>2, Onward

LEMMA DispatchOrder ==
  ASSUME Typed, QueueInv, NEW p \in Tasks, DispatchStep(p)
  PROVE  QueueInv'
<1> USE DEF history, queue, memory, locals, Return, GoTo
<1>1. CASE NothingToDispatch(p)
  <2>1. "idle" \in Label \ Placed
    BY DEF Label, Placed, Submitting
  <2> QED
    BY <1>1, <2>1, ElsewhereOrder DEF NothingToDispatch
<1>2. CASE QueuedAccepted(p)
  <2>1. UNCHANGED <<status, history, item>> /\ pc[p] = "submitted"
        /\ pc' = [pc EXCEPT ![p] = "recordStarted"]
    BY <1>2 DEF QueuedAccepted
  <2>2. Settles /\ \A q \in Tasks : Moves(q)
    BY <2>1 DEF Settles, Moves, Typed, TypeOK
  <2> QED
    BY <2>1, <2>2, Onward
<1>3. CASE RecordStarted(p) \/ QueuedUnclear(p)
  <2>1. /\ pc[p] \in Submitting /\ UNCHANGED history
        /\ pc' = [pc EXCEPT ![p] = "idle"] /\ item' = [item EXCEPT ![p] = NoItem]
        /\ status' \in {[status EXCEPT ![item[p]] = "started"],
                        [status EXCEPT ![item[p]] = "uncertain"]}
    BY <1>3 DEF RecordStarted, QueuedUnclear, Submitting
  <2>2. status[item[p]] # "absent" /\ item[p] \in Keys
    BY <2>1 DEF QueueInv, Relied, Typed, Items
  <2>3. Settles
    BY <2>1, <2>2 DEF Settles, Waiting, Typed, TypeOK
  <2>4. \A q \in Tasks : Moves(q)
    BY <2>1 DEF Moves, Placed, Submitting, Typed, TypeOK
  <2> QED
    BY <2>1, <2>3, <2>4, Onward
<1> QED
  BY <1>1, <1>2, <1>3, PickOrder, SubmitOrder DEF DispatchStep

LEMMA ChatOrder ==
  ASSUME Typed, QueueInv, ChatStep \/ User
  PROVE  QueueInv'
<1> USE DEF history, queue, intents, memory, locals, Return, GoTo
<1>l. /\ {"idle", "receipt", "prompted", "recordIntent", "recordPrompt", "cancelling", "reviewing"}
           \subseteq Label \ Placed
      /\ "chat" \in Tasks
  BY DEF Label, Placed, Submitting, Tasks
<1>1. CASE SubmitPrompt \/ PromptAccepted \/ RecordIntent \/ ReceiveCancel \/ ReceiveReview
  <2>1. /\ UNCHANGED <<status, history, item>>
        /\ \E l \in Label \ Placed : pc' = [pc EXCEPT !["chat"] = l]
    BY <1>1, <1>l DEF SubmitPrompt, PromptAccepted, RecordIntent, ReceiveCancel, ReceiveReview
  <2> QED
    BY <1>l, <2>1, ElsewhereOrder
<1>2. CASE RecordPrompt \/ PromptUnclear \/ CommandAnswered
  <2>1. /\ UNCHANGED <<status, history>> /\ item' = [item EXCEPT !["chat"] = NoItem]
        /\ pc' = [pc EXCEPT !["chat"] = "idle"]
    BY <1>2 DEF RecordPrompt, PromptUnclear, CommandAnswered
  <2> QED
    BY <1>l, <2>1, ElsewhereOrder
<1>3. ASSUME NEW m \in Prompts, ReceivePrompt(m)
      PROVE  QueueInv'
  <2>1. /\ UNCHANGED <<status, history>> /\ item' = [item EXCEPT !["chat"] = m]
        /\ pc' = [pc EXCEPT !["chat"] = "receipt"]
    BY <1>3 DEF ReceivePrompt
  <2> QED
    BY <1>l, <2>1, ElsewhereOrder
<1>4. CASE Withdraw
  <2>1. /\ pc["chat"] = "withdraw" /\ UNCHANGED history
        /\ pc' = [pc EXCEPT !["chat"] = "idle"] /\ item' = [item EXCEPT !["chat"] = NoItem]
        /\ status' = [status EXCEPT ![item["chat"]] = "cancelled"]
    BY <1>4 DEF Withdraw
  <2>2. status[item["chat"]] # "absent" /\ item["chat"] \in Keys
    BY <1>l, <2>1 DEF QueueInv, Relied, Typed, Items
  <2>3. Settles
    BY <2>1, <2>2 DEF Settles, Waiting, Typed, TypeOK
  <2>4. \A q \in Tasks : Moves(q)
    BY <2>1 DEF Moves, Placed, Submitting, Typed, TypeOK
  <2> QED
    BY <2>1, <2>3, <2>4, Onward
<1> QED
  BY <1>1, <1>2, <1>3, <1>4, ReceiveOrder, EnqueueOrder DEF ChatStep, User

LEMMA EventOrder ==
  ASSUME Typed, QueueInv, EventStep
  PROVE  QueueInv'
<1> USE DEF history, queue, intents, memory, locals, GoTo
<1>l. {"markPrompts", "markQueue", "dispatch", "answer"} \subseteq Label \ Placed
      /\ "events" \in Tasks
  BY DEF Label, Placed, Submitting, Tasks
<1>1. CASE SeeStarted
  BY <1>1, ElsewhereOrder DEF SeeStarted
<1>2. CASE SeeEnded \/ MarkPrompts \/ ResumeQueue
  <2>1. /\ UNCHANGED <<status, history, item>>
        /\ \E l \in Label \ Placed : pc' = [pc EXCEPT !["events"] = l]
    BY <1>2, <1>l DEF SeeEnded, MarkPrompts, ResumeQueue
  <2> QED
    BY <1>l, <2>1, ElsewhereOrder
<1>3. CASE MarkQueue
  <2>1. /\ UNCHANGED <<history, item>> /\ pc' = [pc EXCEPT !["events"] = "answer"]
        /\ pc["events"] = "markQueue"
        /\ status' = [k \in Keys |-> IF ClosesEntry(k) THEN AsIntent(ended.as) ELSE status[k]]
    BY <1>3 DEF MarkQueue
  <2>2. AsIntent(ended.as) \notin Waiting
    BY <2>1, AsIntentState DEF Typed, Items, Waiting
  <2>3. Settles
    BY <2>1, <2>2 DEF Settles, ClosesEntry
  <2>4. \A q \in Tasks : Moves(q)
    BY <2>1 DEF Moves, Placed, Submitting, Typed, TypeOK
  <2> QED
    BY <2>1, <2>3, <2>4, Onward
<1> QED
  BY <1>1, <1>2, <1>3 DEF EventStep

LEMMA CrashOrder ==
  ASSUME Typed, QueueInv, Crash
  PROVE  QueueInv'
<1>1. /\ pc' = [p \in Tasks |-> "down"] /\ UNCHANGED status
      /\ calledBefore' = calledBefore \cup {k \in Keys : \E p \in Tasks : calls[k][p] > 0}
      /\ calls' = [k \in Keys |-> [p \in Tasks |-> 0]]
  BY DEF Crash, queue
<1>2. Numbered' /\ CalledIsPast' /\ OncePerDispatcher'
  BY <1>1 DEF QueueInv, Numbered, Known, CalledIsPast, OncePerDispatcher, Tasks
<1>3. \A p \in Tasks : Relied(p)'
  BY <1>1 DEF Relied, Submitting
<1> QED
  BY <1>2, <1>3 DEF QueueInv

LEMMA QueueStep == Typed /\ QueueInv /\ [Next]_vars => QueueInv'
<1> SUFFICES ASSUME Typed, QueueInv, [Next]_vars
             PROVE  QueueInv'
  OBVIOUS
<1> USE DEF history, queue, intents, memory, locals, server
<1>1. ASSUME UNCHANGED <<status, history, pc, item>>
      PROVE  QueueInv'
  BY <1>1, ElsewhereOrder
<1>2. ASSUME NEW p \in Tasks, Serve(p) \/ ServeRefused(p) \/ CallFails(p)
      PROVE  QueueInv'
  BY <1>1, <1>2 DEF Serve, ServeRefused, CallFails
<1>3. ASSUME NEW t \in Turns, TurnEnds(t) \/ TurnFails(t)
      PROVE  QueueInv'
  BY <1>1, <1>3 DEF TurnEnds, TurnFails
<1>4. CASE StartElsewhere \/ LoseEvents \/ UNCHANGED vars
  BY <1>1, <1>4 DEF StartElsewhere, LoseEvents, vars
<1>5. CASE Restart \/ Hydrate
  <2>1. UNCHANGED <<status, history>> /\ \A q \in Tasks : pc'[q] \notin Placed
             \/ (pc'[q] = pc[q] /\ item'[q] = item[q])
    BY <1>5 DEF Restart, Hydrate, Return, GoTo, Placed, Submitting, Tasks, Typed, TypeOK
  <2> QED
    BY <2>1, Onward DEF Settles, Moves
<1> QED
  BY <1>2, <1>3, <1>4, <1>5, DispatchOrder, ChatOrder, EventOrder, CrashOrder DEF Next

LEMMA QueueInit == Init => QueueInv
BY DEF Init, QueueInv, Numbered, Known, CalledIsPast, OncePerDispatcher, Relied, Submitting, Tasks

------------------------------------------------------------------------------
(* What is recorded as started is the turn started for it.  A turn that was  *)
(* started keeps its origin, so the answer a task waited for keeps naming    *)
(* the turn of its own item, whatever the other task does to the session.    *)

Own(t, i) == t \in Turns /\ serverTurn[t] # "none" /\ origin[t] = i

Starting(p) == \/ pc[p] \in {"submitted", "recordStarted"}
               \/ pc[p] \in {"prompted", "recordIntent"} /\ seen[p] = NoTurn

OwnAnswer(p) ==
    /\ Starting(p) => /\ call[p].kind = "start"
                      /\ call[p].reply = "ok" => Own(call[p].turn, item[p])
    /\ pc[p] \in {"recordStarted", "recordIntent"} => call[p].reply = "ok"

OwnEntry(k) == entryTurn[k] # NoTurn => Own(entryTurn[k], k)
OwnIntent(m) == intent[m] = "started" => Own(intentTurn[m], m)

OwnInv ==
    /\ \A k \in Keys : OwnEntry(k)
    /\ \A m \in Prompts : OwnIntent(m)
    /\ \A p \in Tasks : OwnAnswer(p)

\* Turns that were started stay so, and keep what they were started for.
TurnsKept == \A t \in Turns : serverTurn[t] # "none" =>
                                serverTurn'[t] # "none" /\ origin'[t] = origin[t]

SameTask(p) == pc'[p] = pc[p] /\ item'[p] = item[p] /\ seen'[p] = seen[p] /\ call'[p] = call[p]

\* A step that changes neither a record nor a task's answer, or only to what
\* its item owns.
LEMMA OwnKept ==
  ASSUME OwnInv, TurnsKept,
         \A k \in Keys : entryTurn'[k] = entryTurn[k] \/ OwnEntry(k)',
         \A m \in Prompts : \/ intent'[m] = intent[m] /\ intentTurn'[m] = intentTurn[m]
                            \/ OwnIntent(m)',
         \A p \in Tasks : SameTask(p) \/ OwnAnswer(p)'
  PROVE  OwnInv'
<1>1. \A k \in Keys : OwnEntry(k)'
  BY DEF OwnInv, OwnEntry, Own, TurnsKept
<1>2. \A m \in Prompts : OwnIntent(m)'
  BY DEF OwnInv, OwnIntent, Own, TurnsKept
<1>3. \A p \in Tasks : OwnAnswer(p)'
  BY DEF OwnInv, OwnAnswer, Starting, Own, TurnsKept, SameTask
<1> QED
  BY <1>1, <1>2, <1>3 DEF OwnInv

\* A task that starts no turn and records none owes nothing.
Elsewhere == Label \ {"submitted", "recordStarted", "prompted", "recordIntent"}

LEMMA DispatchOwn ==
  ASSUME Typed, OwnInv, NEW p \in Tasks, DispatchStep(p)
  PROVE  OwnInv'
<1> USE DEF queue, intents, memory, locals, server, history, GoTo, Return, Done, NoCall
<1>1. UNCHANGED <<intent, intentTurn, serverTurn, origin>>
  BY DEF DispatchStep, PickQueued, NothingToDispatch, SubmitQueued, QueuedAccepted,
         RecordStarted, QueuedUnclear
<1>2. TurnsKept
  BY <1>1 DEF TurnsKept
<1>3. \A q \in Tasks \ {p} : SameTask(q)
  BY DEF DispatchStep, PickQueued, NothingToDispatch, SubmitQueued, QueuedAccepted,
         RecordStarted, QueuedUnclear, Request, SameTask, Typed, TypeOK
<1>4. CASE PickQueued(p) \/ NothingToDispatch(p)
  <2>1. pc'[p] \in {"submit", "idle"} /\ entryTurn' = entryTurn
    BY <1>4 DEF PickQueued, NothingToDispatch, Typed, TypeOK
  <2> QED
    BY <1>1, <1>2, <1>3, <2>1, OwnKept DEF OwnAnswer, Starting
<1>5. CASE SubmitQueued(p)
  <2>1. /\ pc'[p] = "submitted" /\ call'[p].kind = "start" /\ call'[p].reply = "pending"
        /\ entryTurn' = [entryTurn EXCEPT ![item[p]] = NoTurn]
    BY <1>5 DEF SubmitQueued, Request, Typed, TypeOK
  <2>2. \A k \in Keys : entryTurn'[k] = entryTurn[k] \/ OwnEntry(k)'
    BY <2>1 DEF OwnEntry, Typed, TypeOK
  <2> QED
    BY <1>1, <1>2, <1>3, <2>1, <2>2, OwnKept DEF OwnAnswer, Starting
<1>6. CASE QueuedAccepted(p)
  <2>1. /\ pc[p] = "submitted" /\ pc'[p] = "recordStarted" /\ call' = call /\ item' = item
        /\ entryTurn' = entryTurn /\ call[p].reply = "ok" /\ seen' = seen
    BY <1>6 DEF QueuedAccepted, Succeeded, Typed, TypeOK
  <2>2. OwnAnswer(p)'
    BY <1>1, <2>1 DEF OwnInv, OwnAnswer, Starting, Own
  <2> QED
    BY <1>1, <1>2, <1>3, <2>1, <2>2, OwnKept
<1>7. CASE RecordStarted(p)
  <2>1. /\ pc[p] = "recordStarted" /\ pc'[p] = "idle"
        /\ entryTurn' = [entryTurn EXCEPT ![item[p]] = call[p].turn]
    BY <1>7 DEF RecordStarted, Typed, TypeOK
  <2>2. Own(call[p].turn, item[p])
    BY <2>1 DEF OwnInv, OwnAnswer, Starting
  <2>3. \A k \in Keys : entryTurn'[k] = entryTurn[k] \/ OwnEntry(k)'
    BY <1>1, <2>1, <2>2 DEF OwnEntry, Own, Typed, TypeOK
  <2> QED
    BY <1>1, <1>2, <1>3, <2>1, <2>3, OwnKept DEF OwnAnswer, Starting
<1>8. CASE QueuedUnclear(p)
  <2>1. pc'[p] = "idle" /\ entryTurn' = [entryTurn EXCEPT ![item[p]] = NoTurn]
    BY <1>8 DEF QueuedUnclear, Typed, TypeOK
  <2>2. \A k \in Keys : entryTurn'[k] = entryTurn[k] \/ OwnEntry(k)'
    BY <2>1 DEF OwnEntry, Typed, TypeOK
  <2> QED
    BY <1>1, <1>2, <1>3, <2>1, <2>2, OwnKept DEF OwnAnswer, Starting
<1> QED
  BY <1>4, <1>5, <1>6, <1>7, <1>8 DEF DispatchStep

LEMMA ChatOwn ==
  ASSUME Typed, OwnInv, ChatStep \/ User
  PROVE  OwnInv'
<1> USE DEF queue, intents, memory, locals, server, history, GoTo, Return, Done, NoCall
<1>1. UNCHANGED <<serverTurn, origin>>
  BY DEF ChatStep, EnqueuePrompt, SubmitPrompt, PromptAccepted, RecordIntent, RecordPrompt,
         PromptUnclear, CommandAnswered, Withdraw, User, ReceiveQueue, ReceiveWithdrawal,
         ReceivePrompt, ReceiveCancel, ReceiveReview
<1>2. TurnsKept
  BY <1>1 DEF TurnsKept
<1>3. SameTask("events")
  BY DEF ChatStep, EnqueuePrompt, SubmitPrompt, PromptAccepted, RecordIntent, RecordPrompt,
         PromptUnclear, CommandAnswered, Withdraw, User, ReceiveQueue, ReceiveWithdrawal,
         ReceivePrompt, ReceiveCancel, ReceiveReview, Request, SameTask, Typed, TypeOK, Tasks
<1>c. "chat" \in Tasks /\ \A q \in Tasks : q = "chat" \/ q = "events"
  BY DEF Tasks
<1>4. CASE EnqueuePrompt \/ RecordPrompt \/ CommandAnswered \/ ReceiveCancel \/ ReceiveReview
             \/ \E k \in Keys : ReceiveQueue(k) \/ ReceiveWithdrawal(k)
  <2>1. pc'["chat"] \in Elsewhere
    BY <1>4, <1>c DEF EnqueuePrompt, RecordPrompt, CommandAnswered, ReceiveCancel, ReceiveReview,
       ReceiveQueue, ReceiveWithdrawal, Elsewhere, Label, Typed, TypeOK
  <2>2. UNCHANGED <<entryTurn, intent, intentTurn>>
    BY <1>4 DEF EnqueuePrompt, RecordPrompt, CommandAnswered, ReceiveCancel, ReceiveReview,
       ReceiveQueue, ReceiveWithdrawal
  <2>3. OwnAnswer("chat")'
    BY <2>1 DEF OwnAnswer, Starting, Elsewhere
  <2> QED
    BY <1>2, <1>3, <1>c, <2>2, <2>3, OwnKept
<1>5. CASE Withdraw
  <2>1. pc'["chat"] = "idle" /\ entryTurn' = [entryTurn EXCEPT ![item["chat"]] = NoTurn]
        /\ UNCHANGED <<intent, intentTurn>>
    BY <1>5, <1>c DEF Withdraw, Typed, TypeOK
  <2>2. \A k \in Keys : entryTurn'[k] = entryTurn[k] \/ OwnEntry(k)'
    BY <2>1 DEF OwnEntry, Typed, TypeOK
  <2>3. OwnAnswer("chat")'
    BY <2>1 DEF OwnAnswer, Starting
  <2> QED
    BY <1>2, <1>3, <1>c, <2>1, <2>2, <2>3, OwnKept
<1>6. ASSUME NEW m \in Prompts, ReceivePrompt(m)
      PROVE  OwnInv'
  <2>1. pc'["chat"] = "receipt" /\ intent' = [intent EXCEPT ![m] = "received"]
        /\ UNCHANGED <<entryTurn, intentTurn>>
    BY <1>6, <1>c DEF ReceivePrompt, Typed, TypeOK
  <2>2. \A n \in Prompts : intent'[n] = intent[n] \/ OwnIntent(n)'
    BY <2>1 DEF OwnIntent, Typed, TypeOK
  <2>3. OwnAnswer("chat")'
    BY <2>1 DEF OwnAnswer, Starting
  <2> QED
    BY <1>2, <1>3, <1>c, <2>1, <2>2, <2>3, OwnKept
<1>7. CASE SubmitPrompt
  <2>1. /\ pc'["chat"] = "prompted" /\ intent' = [intent EXCEPT ![item["chat"]] = "submitting"]
        /\ UNCHANGED <<entryTurn, intentTurn, seen>>
        /\ call'["chat"].reply = "pending"
        /\ seen["chat"] = NoTurn => call'["chat"].kind = "start"
    BY <1>7, <1>c DEF SubmitPrompt, Request, Typed, TypeOK
  <2>2. \A n \in Prompts : intent'[n] = intent[n] \/ OwnIntent(n)'
    BY <2>1 DEF OwnIntent, Typed, TypeOK
  <2>3. OwnAnswer("chat")'
    BY <2>1 DEF OwnAnswer, Starting
  <2> QED
    BY <1>2, <1>3, <1>c, <2>1, <2>2, <2>3, OwnKept
<1>8. CASE PromptAccepted
  <2>1. /\ pc["chat"] = "prompted" /\ pc'["chat"] = "recordIntent" /\ call["chat"].reply = "ok"
        /\ UNCHANGED <<entryTurn, intent, intentTurn, call, item, seen>>
    BY <1>8, <1>c DEF PromptAccepted, Succeeded, Typed, TypeOK
  <2>2. OwnAnswer("chat")'
    BY <1>1, <1>c, <2>1 DEF OwnInv, OwnAnswer, Starting, Own
  <2> QED
    BY <1>2, <1>3, <1>c, <2>1, <2>2, OwnKept
<1>9. CASE RecordIntent
  <2> DEFINE m == item["chat"]
  <2>1. /\ pc["chat"] = "recordIntent" /\ pc'["chat"] = "recordPrompt"
        /\ intent' = [intent EXCEPT ![m] = IF seen["chat"] = NoTurn THEN "started" ELSE "steered"]
        /\ intentTurn' = [intentTurn EXCEPT ![m] = call["chat"].turn]
        /\ entryTurn' = entryTurn
    BY <1>9, <1>c DEF RecordIntent, Typed, TypeOK
  <2>2. seen["chat"] = NoTurn => Own(call["chat"].turn, m)
    BY <1>c, <2>1 DEF OwnInv, OwnAnswer, Starting
  <2>3. \A n \in Prompts : \/ intent'[n] = intent[n] /\ intentTurn'[n] = intentTurn[n]
                           \/ OwnIntent(n)'
    BY <1>1, <2>1, <2>2 DEF OwnIntent, Own, Typed, TypeOK
  <2>4. OwnAnswer("chat")'
    BY <2>1 DEF OwnAnswer, Starting
  <2> QED
    BY <1>2, <1>3, <1>c, <2>1, <2>3, <2>4, OwnKept
<1>10. CASE PromptUnclear
  <2>1. /\ pc'["chat"] = "idle" /\ intent' = [intent EXCEPT ![item["chat"]] = "uncertain"]
        /\ UNCHANGED <<entryTurn, intentTurn>>
    BY <1>10, <1>c DEF PromptUnclear, Typed, TypeOK
  <2>2. \A n \in Prompts : intent'[n] = intent[n] \/ OwnIntent(n)'
    BY <2>1 DEF OwnIntent, Typed, TypeOK
  <2>3. OwnAnswer("chat")'
    BY <2>1 DEF OwnAnswer, Starting
  <2> QED
    BY <1>2, <1>3, <1>c, <2>1, <2>2, <2>3, OwnKept
<1> QED
  BY <1>4, <1>5, <1>6, <1>7, <1>8, <1>9, <1>10 DEF ChatStep, User

LEMMA EventOwn ==
  ASSUME Typed, OwnInv, EventStep \/ Hydrate \/ Crash \/ Restart
  PROVE  OwnInv'
<1> USE DEF queue, intents, memory, locals, server, history, GoTo, Return
<1>1. UNCHANGED <<serverTurn, origin, entryTurn, intentTurn>>
  BY DEF EventStep, SeeStarted, SeeEnded, MarkPrompts, MarkQueue, ResumeQueue, Hydrate, Crash,
         Restart
<1>2. TurnsKept
  BY <1>1 DEF TurnsKept
<1>3. \A p \in Tasks : SameTask(p) \/ OwnAnswer(p)'
  <2>1. CASE Crash \/ Restart
    BY <2>1 DEF Crash, Restart, OwnAnswer, Starting, Tasks
  <2>2. CASE SeeStarted
    BY <2>2 DEF SeeStarted, SameTask
  <2>3. CASE SeeEnded \/ MarkPrompts \/ MarkQueue \/ ResumeQueue \/ Hydrate
    <3>1. SameTask("chat")
      BY <2>3 DEF SeeEnded, MarkPrompts, MarkQueue, ResumeQueue, Hydrate, SameTask, Typed, TypeOK,
         Tasks
    <3>2. pc'["events"] \in {"markPrompts", "markQueue", "answer", "dispatch", "idle"}
      BY <2>3 DEF SeeEnded, MarkPrompts, MarkQueue, ResumeQueue, Hydrate, Typed, TypeOK, Tasks
    <3> QED
      BY <3>1, <3>2 DEF OwnAnswer, Starting, Tasks
  <2> QED
    BY <2>1, <2>2, <2>3 DEF EventStep
<1>4. \A m \in Prompts : intent'[m] = intent[m] \/ intent'[m] # "started"
  <2>1. CASE MarkPrompts
    <3>1. AsIntent(ended.as) # "started"
      BY <2>1, AsIntentState DEF MarkPrompts, Typed, Items
    <3> QED
      BY <2>1, <3>1 DEF MarkPrompts
  <2>2. CASE Restart
    BY <2>2, AsIntentState DEF Restart
  <2>3. CASE SeeStarted \/ SeeEnded \/ MarkQueue \/ ResumeQueue \/ Hydrate \/ Crash
    BY <2>3 DEF SeeStarted, SeeEnded, MarkQueue, ResumeQueue, Hydrate, Crash
  <2> QED
    BY <2>1, <2>2, <2>3 DEF EventStep
<1>5. \A m \in Prompts : intent'[m] = intent[m] \/ OwnIntent(m)'
  BY <1>4 DEF OwnIntent
<1> QED
  BY <1>1, <1>2, <1>3, <1>5, OwnKept

\* A turn that starts was none before, and it is for its caller.
LEMMA StartOwn ==
  ASSUME Typed, NEW for \in Keys \cup Prompts \cup {NoItem}, StartTurn(for)
  PROVE  /\ TurnsKept
         /\ (CHOOSE t \in NewTurn : TRUE) \in Turns
         /\ serverTurn'[CHOOSE t \in NewTurn : TRUE] # "none"
         /\ origin'[CHOOSE t \in NewTurn : TRUE] = for
<1>1. PICK t \in NewTurn : /\ serverTurn' = [serverTurn EXCEPT ![t] = "active"]
                           /\ origin' = [origin EXCEPT ![t] = for]
  BY DEF StartTurn
<1>2. t \in Turns /\ serverTurn[t] = "none" /\ (CHOOSE u \in NewTurn : TRUE) = t
  BY NextTurn DEF NewTurn
<1> QED
  BY <1>1, <1>2 DEF TurnsKept, Typed, TypeOK

LEMMA EndOwn ==
  ASSUME Typed, NEW t, NEW as \in Terminal, NEW first, EndTurn(t, as, first)
  PROVE  TurnsKept
<1>1. as # "none"
  BY DEF Terminal
<1> QED
  BY <1>1 DEF EndTurn, TurnsKept, Typed, TypeOK

LEMMA ServerOwn ==
  ASSUME Typed, OwnInv,
         \/ \E p \in Tasks : Serve(p) \/ ServeRefused(p) \/ CallFails(p)
         \/ \E t \in Turns : TurnEnds(t) \/ TurnFails(t)
         \/ StartElsewhere \/ LoseEvents
  PROVE  OwnInv'
<1> USE DEF queue, intents, memory, locals, server, history
<1>1. UNCHANGED <<entryTurn, intent, intentTurn, pc, item, seen>>
  BY DEF Serve, ServeRefused, CallFails, TurnEnds, TurnFails, StartElsewhere, LoseEvents
<1>2. ASSUME TurnsKept, UNCHANGED call
      PROVE  OwnInv'
  BY <1>1, <1>2, OwnKept DEF SameTask
<1>3. ASSUME NEW p \in Tasks, TurnsKept, Refuse(p), call[p].reply = "pending"
      PROVE  OwnInv'
  <2>1. /\ \A q \in Tasks \ {p} : SameTask(q)
        /\ call'[p].kind = call[p].kind /\ call'[p].reply = "err"
    BY <1>1, <1>3 DEF Refuse, SameTask, Typed, TypeOK
  <2>2. OwnAnswer(p)'
    BY <1>1, <1>3, <2>1 DEF OwnInv, OwnAnswer, Starting
  <2> QED
    BY <1>1, <1>3, <2>1, <2>2, OwnKept
<1>4. "interrupted" \in Terminal /\ "completed" \in Terminal /\ "failed" \in Terminal
      /\ NoItem \in Keys \cup Prompts \cup {NoItem}
  BY DEF Terminal
<1>5. ASSUME NEW p \in Tasks, Serve(p)
      PROVE  OwnInv'
  <2>1. ASSUME NEW t, Answer(p, t), TurnsKept,
               Starting(p) => (t \in Turns /\ serverTurn'[t] # "none" /\ origin'[t] = item[p])
        PROVE  OwnInv'
    <3>1. /\ \A q \in Tasks \ {p} : SameTask(q)
          /\ call'[p].kind = call[p].kind /\ call'[p].reply = "ok" /\ call'[p].turn = t
      BY <1>1, <2>1 DEF Answer, SameTask, Typed, TypeOK
    <3>2. Starting(p)' <=> Starting(p)
      BY <1>1 DEF Starting
    <3>3. OwnAnswer(p)'
      BY <1>1, <2>1, <3>1, <3>2 DEF OwnInv, OwnAnswer, Own
    <3> QED
      BY <1>1, <2>1, <3>1, <3>3, OwnKept
  <2>2. CASE call[p].kind = "start" /\ StartTurn(Purpose(p))
               /\ Answer(p, CHOOSE t \in NewTurn : TRUE)
    <3>1. Starting(p) /\ call[p].reply = "pending" => Purpose(p) = item[p]
      BY DEF Starting, Purpose, OwnInv, OwnAnswer
    <3> DEFINE t == CHOOSE u \in NewTurn : TRUE
    <3>2. TurnsKept /\ t \in Turns /\ serverTurn'[t] # "none" /\ origin'[t] = Purpose(p)
      BY <2>2, StartOwn, PurposeType
    <3>3. Answer(p, t) /\ call[p].reply = "pending"
      BY <1>5, <2>2 DEF Serve
    <3> HIDE DEF t
    <3> QED
      BY <2>1, <3>1, <3>2, <3>3
  <2>3. CASE call[p].kind = "steer" /\ Answer(p, call[p].turn) /\ UNCHANGED server
    <3>1. TurnsKept /\ ~Starting(p)
      BY <2>3 DEF TurnsKept, OwnInv, OwnAnswer
    <3> QED
      BY <2>1, <2>3, <3>1
  <2>4. CASE call[p].kind = "interrupt" /\ EndTurn(call[p].turn, "interrupted", <<>>)
               /\ Answer(p, call[p].turn)
    <3>1. TurnsKept /\ ~Starting(p)
      BY <1>4, <2>4, EndOwn DEF OwnInv, OwnAnswer
    <3> QED
      BY <2>1, <2>4, <3>1
  <2> QED
    BY <1>5, <2>2, <2>3, <2>4 DEF Serve
<1>6. ASSUME NEW p \in Tasks, ServeRefused(p)
      PROVE  OwnInv'
  <2>1. TurnsKept /\ Refuse(p) /\ call[p].reply = "pending"
    BY <1>6 DEF ServeRefused, TurnsKept
  <2> QED
    BY <1>3, <2>1
<1>7. ASSUME NEW p \in Tasks, CallFails(p)
      PROVE  OwnInv'
  <2>1. TurnsKept
    BY <1>7, StartOwn, PurposeType DEF CallFails, TurnsKept
  <2> QED
    BY <1>2, <1>3, <1>7, <2>1 DEF CallFails
<1>8. ASSUME NEW t \in Turns, TurnEnds(t) \/ TurnFails(t)
      PROVE  OwnInv'
  <2>1. TurnsKept /\ UNCHANGED call
    BY <1>4, <1>8, EndOwn DEF TurnEnds, TurnFails
  <2> QED
    BY <1>2, <2>1
<1>9. CASE StartElsewhere \/ LoseEvents
  <2>1. TurnsKept /\ UNCHANGED call
    BY <1>4, <1>9, StartOwn DEF StartElsewhere, LoseEvents, TurnsKept
  <2> QED
    BY <1>2, <2>1
<1> QED
  BY <1>5, <1>6, <1>7, <1>8, <1>9

LEMMA OwnStep == Typed /\ OwnInv /\ [Next]_vars => OwnInv'
<1> SUFFICES ASSUME Typed, OwnInv, [Next]_vars
             PROVE  OwnInv'
  OBVIOUS
<1>1. CASE UNCHANGED vars
  BY <1>1 DEF vars, queue, intents, locals, server, OwnInv, OwnEntry, OwnIntent, OwnAnswer,
     Starting, Own
<1> QED
  BY <1>1, DispatchOwn, ChatOwn, EventOwn, ServerOwn DEF Next

LEMMA OwnInit == Init => OwnInv
BY DEF Init, OwnInv, OwnEntry, OwnIntent, OwnAnswer, Starting, NoTurn, Tasks

------------------------------------------------------------------------------
\* The order of the queue's records, and what each task that has an entry in
\* hand may rely on while the other one changes them (dispatch_next_queued).
THEOREM QueueInvariance == Spec => [](Typed /\ QueueInv)
<1>1. Init => Typed /\ QueueInv
  BY TypeInit, QueueInit
<1>2. Typed /\ QueueInv /\ [Next]_vars => (Typed /\ QueueInv)'
  BY TypeStep, QueueStep
<1> QED
  BY <1>1, <1>2, PTL DEF Spec

\* Every variable keeps its type.
THEOREM TypeCorrect == Spec => []TypeOK
<1>1. Typed => TypeOK
  BY DEF Typed
<1> QED
  BY <1>1, QueueInvariance, PTL

\* Two dispatchers may take the same entry, but neither submits it twice
\* (dispatch_next_queued).
THEOREM NeitherTwice == Spec => []OncePerDispatcher
<1>1. QueueInv => OncePerDispatcher
  BY DEF QueueInv
<1> QED
  BY <1>1, QueueInvariance, PTL

\* Only SubmitQueued makes a call for an entry.
LEMMA SubmittedFrom ==
  ASSUME Typed, QueueInv, [Next]_vars, NEW k \in Keys, Submits(k)
  PROVE  /\ k \notin calledBefore
         /\ \A j \in Keys : j < k => status[j] # "queued"
<1>1. PICK p \in Tasks : calls'[k][p] > calls[k][p]
  BY DEF Submits
<1>2. calls[k][p] \in Nat
  BY DEF Typed, TypeOK
<1>3. PICK q \in Tasks : SubmitQueued(q)
  <2>1. calls' # calls /\ calls'[k][p] # 0
    BY <1>1, <1>2
  <2>2. ~Crash
    BY <2>1 DEF Crash
  <2> QED
    BY <2>1, <2>2 DEF Next, vars, history, User, ReceiveQueue, ReceiveWithdrawal, ReceivePrompt,
            ReceiveCancel, ReceiveReview, ChatStep, EnqueuePrompt, SubmitPrompt, PromptAccepted,
            RecordIntent, RecordPrompt, PromptUnclear, CommandAnswered, Withdraw, EventStep,
            SeeStarted, SeeEnded, MarkPrompts, MarkQueue, ResumeQueue, DispatchStep, PickQueued,
            NothingToDispatch, QueuedAccepted, RecordStarted, QueuedUnclear, Serve, ServeRefused,
            CallFails, TurnEnds, TurnFails, StartElsewhere, LoseEvents, Restart, Hydrate
<1>4. pc[q] = "submit" /\ calls' = [calls EXCEPT ![item[q]][q] = @ + 1]
  BY <1>3 DEF SubmitQueued
<1>5. item[q] = k
  BY <1>1, <1>2, <1>4 DEF Typed, TypeOK
<1> QED
  BY <1>4, <1>5 DEF QueueInv, Relied, Waiting

\* No entry overtakes an older one that still waits, whichever task submits it
\* and however long it took between choosing and submitting.
THEOREM InOrder == Spec => FifoOrder
<1>1. Typed /\ QueueInv /\ [Next]_vars =>
        [\A j, k \in Keys : j < k /\ Submits(k) => status[j] # "queued"]_vars
  BY SubmittedFrom
<1> QED
  BY <1>1, QueueInvariance, PTL DEF Spec, FifoOrder

\* An entry the bridge may have submitted before a crash is never submitted
\* again, wherever between the call and its record the crash came.
THEOREM NeverAgain == Spec => RestartNeverResubmits
<1>1. Typed /\ QueueInv /\ [Next]_vars => [\A k \in calledBefore : ~Submits(k)]_vars
  <2>1. Typed => calledBefore \subseteq Keys
    BY DEF Typed, TypeOK
  <2> QED
    BY <2>1, SubmittedFrom
<1> QED
  BY <1>1, QueueInvariance, PTL DEF Spec, RestartNeverResubmits

\* What is recorded as started, of the queue or of a direct prompt, is the turn
\* that was started for it, whatever turn the other task has put into the
\* session meanwhile.
THEOREM OwnTurns == Spec => []RecordsOwnTurn
<1>1. Init => Typed /\ OwnInv
  BY TypeInit, OwnInit
<1>2. Typed /\ OwnInv /\ [Next]_vars => (Typed /\ OwnInv)'
  BY TypeStep, OwnStep
<1>3. Typed /\ OwnInv => RecordsOwnTurn
  BY DEF OwnInv, OwnEntry, OwnIntent, Own, RecordsOwnTurn
<1> QED
  BY <1>1, <1>2, <1>3, PTL DEF Spec

------------------------------------------------------------------------------
(* The outcomes of prompts.                                                *)

\* Calls that were answered, and prompts that have a record, have a turn.
TurnsKnown ==
    /\ \A p \in Tasks : call[p].kind = "steer" \/ call[p].reply = "ok" => call[p].turn \in Turns
    /\ pc["chat"] = "recordIntent" => call["chat"].turn \in Turns
    /\ pc["chat"] = "recordPrompt" => intentTurn[item["chat"]] \in Turns
    /\ \A m \in recorded : intentTurn[m] \in Turns

\* Every end that is under way, or in the hands of the event task, is the end its
\* turn had.
Calm == budget["error"] = 0 /\ budget["crash"] = 0
EndIsTrue(e) == e.kind # "error" /\ (e.kind # "started" => serverTurn[e.turn] = e.kind)
EndsAreTrue ==
    /\ pc["events"] # "down"
    /\ \A i \in DOMAIN events : EndIsTrue(events[i])
    /\ pc["events"] = "markPrompts" => ended.turn \in Turns /\ serverTurn[ended.turn] = ended.as
    /\ OutcomeTruthful
OutcomeInv == TurnsKnown /\ (Calm => EndsAreTrue)

\* A step that leaves calls and records alone, and puts the worker at no record.
LEMMA KnownKept ==
  ASSUME TurnsKnown, UNCHANGED <<intentTurn, recorded>>,
         \A p \in Tasks : \/ call'[p] = call[p]
                          \/ call'[p].kind # "steer" /\ call'[p].reply # "ok"
                          \/ call'[p].turn \in Turns,
         \/ UNCHANGED pc /\ UNCHANGED item
            /\ (pc["chat"] = "recordIntent" => call'["chat"].turn = call["chat"].turn)
         \/ pc'["chat"] \notin {"recordIntent", "recordPrompt"}
         \/ UNCHANGED item /\ pc'["chat"] = pc["chat"] /\ UNCHANGED call
         \/ item'["chat"] = item["chat"] /\ pc'["chat"] = pc["chat"] /\ UNCHANGED call
  PROVE  TurnsKnown'
BY DEF TurnsKnown, Tasks

LEMMA ChatKnown ==
  ASSUME Typed, TurnsKnown, ChatStep \/ User
  PROVE  TurnsKnown'
<1> USE DEF intents, locals, GoTo, Return, Typed, TypeOK, Tasks
<1>1. CASE RecordIntent
  <2>1. /\ pc["chat"] = "recordIntent" /\ pc'["chat"] = "recordPrompt" /\ item["chat"] \in Prompts
        /\ intentTurn' = [intentTurn EXCEPT ![item["chat"]] = call["chat"].turn]
        /\ UNCHANGED <<recorded, item, call>>
    BY <1>1 DEF RecordIntent, Items, Prompting
  <2> QED
    BY <2>1 DEF TurnsKnown
<1>2. CASE RecordPrompt
  <2>1. /\ pc["chat"] = "recordPrompt" /\ pc'["chat"] = "idle"
        /\ recorded' = recorded \cup {item["chat"]} /\ intentTurn' = intentTurn
        /\ call' = [call EXCEPT !["chat"] = NoCall]
    BY <1>2 DEF RecordPrompt, Done
  <2> QED
    BY <2>1 DEF TurnsKnown, NoCall
<1>3. CASE SubmitPrompt
  <2>1. /\ pc'["chat"] = "prompted" /\ UNCHANGED <<intentTurn, recorded>>
        /\ call' = [call EXCEPT !["chat"] =
                      [kind |-> IF seen["chat"] = NoTurn THEN "start" ELSE "steer",
                       turn |-> seen["chat"], reply |-> "pending"]]
    BY <1>3 DEF SubmitPrompt, Request
  <2>2. seen["chat"] # NoTurn => seen["chat"] \in Turns
    BY DEF TurnOrNone
  <2>3. \A p \in Tasks : \/ call'[p] = call[p]
                         \/ call'[p].kind # "steer" /\ call'[p].reply # "ok"
                         \/ call'[p].turn \in Turns
    BY <2>1, <2>2
  <2> QED
    BY <2>1, <2>3, KnownKept
<1>4. CASE PromptAccepted
  <2>1. /\ pc["chat"] = "prompted" /\ pc'["chat"] = "recordIntent" /\ call["chat"].reply = "ok"
        /\ UNCHANGED <<intentTurn, recorded, call>>
    BY <1>4 DEF PromptAccepted, Succeeded
  <2> QED
    BY <2>1 DEF TurnsKnown
<1>5. CASE EnqueuePrompt \/ PromptUnclear \/ CommandAnswered \/ Withdraw
  <2>1. /\ pc'["chat"] \in {"dispatch", "idle"} /\ UNCHANGED <<intentTurn, recorded>>
        /\ \A p \in Tasks : call'[p] = call[p] \/ call'[p] = NoCall
    BY <1>5 DEF EnqueuePrompt, PromptUnclear, CommandAnswered, Withdraw, Done
  <2> QED
    BY <2>1, KnownKept DEF NoCall
<1>6. CASE User
  <2>1. /\ pc'["chat"] \in {"enqueue", "receipt", "cancelling", "reviewing", "withdraw"}
        /\ UNCHANGED <<intentTurn, recorded>>
    BY <1>6 DEF User, ReceiveQueue, ReceiveWithdrawal, ReceivePrompt, ReceiveCancel, ReceiveReview
  <2>2. \A p \in Tasks : \/ call'[p] = call[p]
                         \/ call'[p].kind # "steer" /\ call'[p].reply # "ok"
    BY <1>6 DEF User, ReceiveQueue, ReceiveWithdrawal, ReceivePrompt, ReceiveCancel,
       ReceiveReview, Request
  <2> QED
    BY <2>1, <2>2, KnownKept
<1> QED
  BY <1>1, <1>2, <1>3, <1>4, <1>5, <1>6 DEF ChatStep

LEMMA TaskKnown ==
  ASSUME Typed, TurnsKnown,
         \/ \E p \in Tasks : DispatchStep(p)
         \/ EventStep \/ Crash \/ Restart \/ Hydrate
  PROVE  TurnsKnown'
<1> USE DEF intents, locals, GoTo, Return, Typed, TypeOK, Tasks
<1>1. ASSUME NEW p \in Tasks, DispatchStep(p)
      PROVE  TurnsKnown'
  <2>1. UNCHANGED <<intentTurn, recorded>>
    BY <1>1 DEF DispatchStep, PickQueued, NothingToDispatch, SubmitQueued, QueuedAccepted,
       RecordStarted, QueuedUnclear
  <2>2. /\ \A q \in Tasks : q # p => call'[q] = call[q]
        /\ \/ call'[p] = call[p] \/ call'[p] = NoCall
           \/ call'[p] = [kind |-> "start", turn |-> NoTurn, reply |-> "pending"]
    BY <1>1 DEF DispatchStep, PickQueued, NothingToDispatch, SubmitQueued, QueuedAccepted,
       RecordStarted, QueuedUnclear, Request, Done
  <2>3. /\ pc'[p] \in {"submit", "idle", "submitted", "recordStarted"}
        /\ \A q \in Tasks : q # p => pc'[q] = pc[q] /\ item'[q] = item[q]
    BY <1>1 DEF DispatchStep, PickQueued, NothingToDispatch, SubmitQueued, QueuedAccepted,
       RecordStarted, QueuedUnclear
  <2>4. \A q \in Tasks : \/ call'[q] = call[q]
                         \/ call'[q].kind # "steer" /\ call'[q].reply # "ok"
    BY <2>2 DEF NoCall
  <2> QED
    BY <2>1, <2>2, <2>3, <2>4 DEF TurnsKnown
<1>2. CASE EventStep
  <2>1. /\ UNCHANGED <<intentTurn, recorded, call>> /\ pc'["chat"] = pc["chat"]
        /\ item'["chat"] = item["chat"]
    BY <1>2 DEF EventStep, SeeStarted, SeeEnded, MarkPrompts, MarkQueue, ResumeQueue
  <2> QED
    BY <2>1, KnownKept
<1>3. CASE Crash \/ Restart
  <2>1. /\ pc'["chat"] \in {"down", "dispatch"} /\ UNCHANGED <<intentTurn, recorded>>
        /\ \A p \in Tasks : call'[p] = call[p] \/ call'[p] = NoCall
    BY <1>3 DEF Crash, Restart
  <2> QED
    BY <2>1, KnownKept DEF NoCall
<1>4. CASE Hydrate
  <2>1. /\ UNCHANGED <<intentTurn, recorded, call>> /\ pc'["chat"] = pc["chat"]
        /\ item'["chat"] = item["chat"]
    BY <1>4 DEF Hydrate
  <2> QED
    BY <2>1, KnownKept
<1> QED
  BY <1>1, <1>2, <1>3, <1>4

LEMMA ServerKnown ==
  ASSUME Typed, TurnsKnown,
         \/ \E p \in Tasks : Serve(p) \/ ServeRefused(p) \/ CallFails(p)
         \/ \E t \in Turns : TurnEnds(t) \/ TurnFails(t)
         \/ StartElsewhere \/ LoseEvents
  PROVE  TurnsKnown'
<1> USE DEF intents, locals
<1>1. UNCHANGED <<intentTurn, recorded, pc, item>>
  BY DEF Serve, ServeRefused, CallFails, TurnEnds, TurnFails, StartElsewhere, LoseEvents
<1>2. CASE UNCHANGED call
  BY <1>1, <1>2, KnownKept
<1>3. ASSUME NEW p \in Tasks, NEW t \in Turns, Answer(p, t)
      PROVE  TurnsKnown'
  <2>1. /\ call'[p].turn = t /\ call'[p].kind = call[p].kind
        /\ \A q \in Tasks : q # p => call'[q] = call[q]
    BY <1>3 DEF Answer, Typed, TypeOK
  <2> QED
    BY <1>1, <2>1 DEF TurnsKnown, Tasks
<1>4. ASSUME NEW p \in Tasks, Refuse(p)
      PROVE  TurnsKnown'
  BY <1>1, <1>4 DEF TurnsKnown, Refuse, Typed, TypeOK
<1>5. ASSUME NEW p \in Tasks, Serve(p)
      PROVE  TurnsKnown'
  <2>1. StartTurn(Purpose(p)) => (CHOOSE t \in NewTurn : TRUE) \in Turns
    BY StartOwn, PurposeType
  <2>2. call[p].kind \in {"steer", "interrupt"} => call[p].turn \in Turns
    BY DEF TurnsKnown, Typed, Items
  <2>3. \E t \in Turns : Answer(p, t)
    BY <1>5, <2>1, <2>2 DEF Serve
  <2> QED
    BY <1>3, <2>3
<1> QED
  BY <1>2, <1>4, <1>5 DEF ServeRefused, CallFails, TurnEnds, TurnFails, StartElsewhere, LoseEvents

\* What the app-server does leaves the ends of turns alone.
EndsKept == \A t \in Turns : serverTurn[t] \in Terminal => serverTurn'[t] = serverTurn[t]

LEMMA CalmBefore ==
  ASSUME Typed, [Next]_vars, Calm'
  PROVE  Calm
<1>1. "error" \in DOMAIN Limits /\ "crash" \in DOMAIN Limits
  BY DEF Limits
<1>2. budget' = budget \/ \E what \in DOMAIN Limits : Spend(what)
  <2>1. CASE \E k \in Keys : ReceiveWithdrawal(k)
    BY <2>1 DEF ReceiveWithdrawal, Limits
  <2>2. CASE ReceiveCancel \/ ReceiveReview \/ StartElsewhere \/ LoseEvents \/ Crash
    BY <2>2 DEF ReceiveCancel, ReceiveReview, StartElsewhere, LoseEvents, Crash, Limits
  <2>3. CASE \E t \in Turns : TurnFails(t)
    BY <2>3 DEF TurnFails, Limits
  <2>4. CASE \E p \in Tasks : CallFails(p)
    BY <2>4 DEF CallFails, Limits
  <2> QED
    BY <2>1, <2>2, <2>3, <2>4
       DEF Next, vars, User, ReceiveQueue, ReceivePrompt, ChatStep, EnqueuePrompt, SubmitPrompt,
           PromptAccepted, RecordIntent, RecordPrompt, PromptUnclear, CommandAnswered, Withdraw,
           EventStep, SeeStarted, SeeEnded, MarkPrompts, MarkQueue, ResumeQueue, DispatchStep,
           PickQueued, NothingToDispatch, SubmitQueued, QueuedAccepted, RecordStarted,
           QueuedUnclear, Serve, ServeRefused, TurnEnds, Restart, Hydrate
<1>3. \A what \in DOMAIN Limits : budget'[what] = 0 => budget[what] = 0
  BY <1>2 DEF Spend, Typed, TypeOK
<1> QED
  BY <1>1, <1>3 DEF Calm

\* The steps of the two tasks, but for the ends that the event task handles.
LEMMA TasksTrue ==
  ASSUME Typed, TurnsKnown, EndsAreTrue,
         \/ \E p \in Tasks : DispatchStep(p)
         \/ ChatStep \/ User \/ SeeStarted \/ MarkQueue \/ ResumeQueue \/ Hydrate
  PROVE  EndsAreTrue'
<1> USE DEF queue, intents, memory, locals, server, history, GoTo, Return, Typed, TypeOK, Tasks
<1>1. /\ UNCHANGED serverTurn /\ (ended' = ended \/ pc'["events"] # "markPrompts")
      /\ pc'["events"] # "down" /\ (pc'["events"] = "markPrompts" => pc["events"] = "markPrompts")
  BY DEF DispatchStep, PickQueued, NothingToDispatch, SubmitQueued, QueuedAccepted,
     RecordStarted, QueuedUnclear, ChatStep, EnqueuePrompt, SubmitPrompt, PromptAccepted,
     RecordIntent, RecordPrompt, PromptUnclear, CommandAnswered, Withdraw, User, ReceiveQueue,
     ReceivePrompt, ReceiveCancel, ReceiveReview, ReceiveWithdrawal, SeeStarted, MarkQueue,
     ResumeQueue, Hydrate, EndsAreTrue
<1>2. \A i \in DOMAIN events' : EndIsTrue(events[i])'
  <2>1. CASE UNCHANGED events
    BY <1>1, <2>1 DEF EndsAreTrue, EndIsTrue
  <2>2. CASE SeeStarted
    <3>1. events' = Tail(events) /\ events # <<>> /\ events \in Seq(Notes)
      BY <2>2 DEF SeeStarted, Notes
    <3>2. \A i \in DOMAIN events' : i + 1 \in DOMAIN events /\ events'[i] = events[i + 1]
      BY <3>1
    <3> QED
      BY <1>1, <3>2 DEF EndsAreTrue, EndIsTrue
  <2>3. UNCHANGED events \/ SeeStarted
    BY DEF DispatchStep, PickQueued, NothingToDispatch, SubmitQueued, QueuedAccepted,
       RecordStarted, QueuedUnclear, ChatStep, EnqueuePrompt, SubmitPrompt, PromptAccepted,
       RecordIntent, RecordPrompt, PromptUnclear, CommandAnswered, Withdraw, User, ReceiveQueue,
       ReceivePrompt, ReceiveCancel, ReceiveReview, ReceiveWithdrawal, MarkQueue,
       ResumeQueue, Hydrate
  <2> QED
    BY <2>1, <2>2, <2>3
<1>3. \A m \in Prompts : intent'[m] \in {"completed", "failed", "cancelled"} =>
                           intent'[m] = intent[m] /\ intentTurn'[m] = intentTurn[m]
  <2>1. CASE UNCHANGED intents
    BY <2>1
  <2>2. CASE SubmitPrompt \/ PromptUnclear \/ RecordPrompt
    BY <2>2 DEF SubmitPrompt, PromptUnclear, RecordPrompt
  <2>3. CASE RecordIntent
    BY <2>3 DEF RecordIntent
  <2>4. CASE \E m \in Prompts : ReceivePrompt(m)
    BY <2>4 DEF ReceivePrompt
  <2>5. UNCHANGED intents \/ SubmitPrompt \/ PromptUnclear \/ RecordPrompt \/ RecordIntent
        \/ \E m \in Prompts : ReceivePrompt(m)
    BY DEF DispatchStep, PickQueued, NothingToDispatch, SubmitQueued, QueuedAccepted,
       RecordStarted, QueuedUnclear, ChatStep, EnqueuePrompt, PromptAccepted,
       CommandAnswered, Withdraw, User, ReceiveQueue,
       ReceiveCancel, ReceiveReview, ReceiveWithdrawal, SeeStarted, MarkQueue,
       ResumeQueue, Hydrate
  <2> QED
    BY <2>1, <2>2, <2>3, <2>4, <2>5
<1>4. OutcomeTruthful'
  BY <1>1, <1>3 DEF EndsAreTrue, OutcomeTruthful
<1> QED
  BY <1>1, <1>2, <1>4 DEF EndsAreTrue

\* The event task takes the next end, and gives it to the prompts of its turn.
LEMMA SeeEndedTrue ==
  ASSUME Typed, EndsAreTrue, SeeEnded
  PROVE  EndsAreTrue'
<1>1. /\ events' = Tail(events) /\ events # <<>> /\ events \in Seq(Notes) /\ Head(events) \in Notes
      /\ UNCHANGED <<serverTurn, intent, intentTurn>> /\ pc'["events"] = "markPrompts"
  BY FirstNote DEF SeeEnded, Notes, intents, GoTo, Typed, TypeOK, Tasks
<1>2. 1 \in DOMAIN events /\ Head(events) = events[1]
  BY <1>1
<1>3. EndIsTrue(Head(events)) /\ Head(events).kind # "error" /\ Head(events).kind \in Terminal
  BY <1>2 DEF SeeEnded, EndsAreTrue, EndIsTrue
<1>4. ended' = [turn |-> Head(events).turn, as |-> Head(events).kind]
  BY <1>3 DEF SeeEnded
<1>5. ended'.turn \in Turns /\ serverTurn'[ended'.turn] = ended'.as
  BY <1>1, <1>3, <1>4 DEF EndIsTrue, Notes, Terminal
<1>6. \A i \in DOMAIN events' : i + 1 \in DOMAIN events /\ events'[i] = events[i + 1]
  BY <1>1
<1>7. \A i \in DOMAIN events' : EndIsTrue(events[i])'
  BY <1>1, <1>6 DEF EndsAreTrue, EndIsTrue
<1> QED
  BY <1>1, <1>5, <1>7 DEF EndsAreTrue, OutcomeTruthful

LEMMA MarkPromptsTrue ==
  ASSUME Typed, TurnsKnown, EndsAreTrue, MarkPrompts
  PROVE  EndsAreTrue'
<1>1. /\ UNCHANGED <<serverTurn, events, intentTurn>> /\ pc'["events"] = "markQueue"
      /\ ended.turn \in Turns /\ serverTurn[ended.turn] = ended.as /\ ended.as \in Terminal
  BY DEF MarkPrompts, EndsAreTrue, server, Typed, TypeOK, Tasks, GoTo, Items
<1>2. \A m \in Prompts : \/ intent'[m] = intent[m]
                         \/ /\ m \in recorded /\ ended.turn \in {NoTurn, intentTurn[m]}
                            /\ intent'[m] = AsIntent(ended.as)
  BY DEF MarkPrompts
<1>3. ASSUME NEW m \in Prompts, m \in recorded, ended.turn \in {NoTurn, intentTurn[m]}
      PROVE  intentTurn[m] = ended.turn /\ intentTurn[m] # NoTurn
  BY <1>1, <1>3, BoundsAssumption DEF TurnsKnown, Turns, NoTurn
<1>4. OutcomeTruthful'
  BY <1>1, <1>2, <1>3 DEF EndsAreTrue, OutcomeTruthful
<1> QED
  BY <1>1, <1>4 DEF EndsAreTrue, EndIsTrue

\* The app-server sends the end its turn has, and a turn ends once.
LEMMA StartTrue ==
  ASSUME Typed, NEW for \in Keys \cup Prompts \cup {NoItem}, StartTurn(for), EndsAreTrue
  PROVE  EndsKept /\ \A i \in DOMAIN events' : EndIsTrue(events[i])'
<1>1. PICK t \in Turns : /\ serverTurn[t] = "none"
                         /\ serverTurn' = [serverTurn EXCEPT ![t] = "active"]
                         /\ events' = Append(events, [kind |-> "started", turn |-> t])
  BY DEF StartTurn, NewTurn
<1>2. EndsKept
  BY <1>1 DEF EndsKept, Terminal, Typed, TypeOK
<1>3. events \in Seq(Notes)
  BY DEF Typed, TypeOK, Notes
<1>4. \A i \in DOMAIN events' : \/ i \in DOMAIN events /\ events'[i] = events[i]
                                \/ events'[i] = [kind |-> "started", turn |-> t]
  BY <1>1, <1>3
<1>5. ASSUME NEW i \in DOMAIN events, events[i].kind # "started"
      PROVE  serverTurn'[events[i].turn] = events[i].kind
  <2>1. events[i] \in Notes
    BY <1>3, <1>5
  <2> QED
    BY <1>2, <1>5, <2>1 DEF EndsAreTrue, EndIsTrue, EndsKept, Notes
<1> QED
  BY <1>2, <1>4, <1>5 DEF EndsAreTrue, EndIsTrue

LEMMA EndTrue ==
  ASSUME Typed, NEW t \in Turns, NEW as \in Terminal, EndTurn(t, as, <<>>), EndsAreTrue
  PROVE  EndsKept /\ \A i \in DOMAIN events' : EndIsTrue(events[i])'
<1>1. /\ serverTurn[t] = "active" /\ serverTurn' = [serverTurn EXCEPT ![t] = as]
      /\ events' = events \o <<>> \o <<[kind |-> as, turn |-> t]>>
  BY DEF EndTurn, Report
<1>2. EndsKept
  BY <1>1 DEF EndsKept, Terminal, Typed, TypeOK
<1>3. events \in Seq(Notes) /\ [kind |-> as, turn |-> t] \in Notes
  BY DEF Typed, TypeOK, Notes
<1>4. events \o <<>> = events
  BY <1>3
<1>5. \A i \in DOMAIN events' : \/ i \in DOMAIN events /\ events'[i] = events[i]
                                \/ events'[i] = [kind |-> as, turn |-> t]
  <2> DEFINE e == [kind |-> as, turn |-> t]
  <2>1. events' = events \o <<e>> /\ e \in Notes
    BY <1>1, <1>3, <1>4
  <2> HIDE DEF e
  <2>2. \A i \in DOMAIN events' : \/ i \in DOMAIN events /\ events'[i] = events[i]
                                  \/ events'[i] = e
    BY <1>3, <2>1
  <2> QED
    BY <2>2 DEF e
<1>6. ASSUME NEW i \in DOMAIN events, events[i].kind # "started"
      PROVE  serverTurn'[events[i].turn] = events[i].kind
  <2>1. events[i] \in Notes
    BY <1>3, <1>6
  <2> QED
    BY <1>2, <1>6, <2>1 DEF EndsAreTrue, EndIsTrue, EndsKept, Notes
<1>7. as # "error" /\ serverTurn'[t] = as
  BY <1>1 DEF Terminal, Typed, TypeOK
<1>8. ASSUME NEW i \in DOMAIN events'
      PROVE  EndIsTrue(events[i])'
  <2>1. CASE i \in DOMAIN events /\ events'[i] = events[i]
    BY <1>6, <2>1 DEF EndsAreTrue, EndIsTrue
  <2>2. CASE events'[i] = [kind |-> as, turn |-> t]
    <3>1. events'[i].kind = as /\ events'[i].turn = t
      BY <2>2
    <3> QED
      BY <1>7, <3>1 DEF EndIsTrue
  <2> QED
    BY <1>5, <2>1, <2>2
<1> QED
  BY <1>2, <1>8

LEMMA ServerTrue ==
  ASSUME Typed, TurnsKnown, EndsAreTrue,
         \/ \E p \in Tasks : Serve(p) \/ ServeRefused(p) \/ CallFails(p)
         \/ \E t \in Turns : TurnEnds(t)
         \/ StartElsewhere \/ LoseEvents
  PROVE  EndsAreTrue'
<1>1. UNCHANGED <<pc, ended, intent, intentTurn>>
  BY DEF Serve, ServeRefused, CallFails, TurnEnds, StartElsewhere, LoseEvents, locals, intents
<1>2. ASSUME EndsKept, \A i \in DOMAIN events' : EndIsTrue(events[i])'
      PROVE  EndsAreTrue'
  <2>1. pc["events"] = "markPrompts" => ended.as \in Terminal
    BY DEF Typed, Items
  <2>2. \A m \in Prompts : intentTurn[m] # NoTurn => intentTurn[m] \in Turns
    BY DEF Typed, TypeOK, TurnOrNone
  <2>3. OutcomeTruthful'
    BY <1>1, <1>2, <2>2 DEF EndsKept, EndsAreTrue, OutcomeTruthful
  <2> QED
    BY <1>1, <1>2, <2>1, <2>3 DEF EndsKept, EndsAreTrue
<1>3. CASE UNCHANGED server
  BY <1>2, <1>3 DEF server, EndsKept, EndsAreTrue, EndIsTrue
<1>4. ASSUME NEW for \in Keys \cup Prompts \cup {NoItem}, StartTurn(for)
      PROVE  EndsAreTrue'
  BY <1>2, <1>4, StartTrue
<1>5. ASSUME NEW t \in Turns, NEW as \in Terminal, EndTurn(t, as, <<>>)
      PROVE  EndsAreTrue'
  BY <1>2, <1>5, EndTrue
<1>6. ASSUME NEW p \in Tasks, Serve(p)
      PROVE  EndsAreTrue'
  <2>1. call[p].kind = "interrupt" => call[p].turn \in Turns
    BY DEF Typed, Items
  <2>2. "interrupted" \in Terminal
    BY DEF Terminal
  <2> QED
    BY <1>3, <1>4, <1>5, <1>6, <2>1, <2>2, PurposeType DEF Serve
<1>7. ASSUME NEW p \in Tasks, ServeRefused(p) \/ CallFails(p)
      PROVE  EndsAreTrue'
  BY <1>3, <1>4, <1>7, PurposeType DEF ServeRefused, CallFails
<1>8. ASSUME NEW t \in Turns, TurnEnds(t)
      PROVE  EndsAreTrue'
  BY <1>5, <1>8 DEF TurnEnds, Terminal
<1>9. CASE StartElsewhere
  BY <1>4, <1>9 DEF StartElsewhere
<1>10. CASE LoseEvents
  <2>1. PICK n \in 0..(Len(events) - 1) : events' = SubSeq(events, 1, n)
    BY <1>10 DEF LoseEvents
  <2>2. events \in Seq(Notes) /\ UNCHANGED serverTurn
    BY <1>10 DEF LoseEvents, Typed, TypeOK, Notes
  <2>3. \A i \in DOMAIN events' : i \in DOMAIN events /\ events'[i] = events[i]
    BY <2>1, <2>2
  <2> QED
    BY <1>2, <2>2, <2>3 DEF EndsKept, EndsAreTrue, EndIsTrue
<1> QED
  BY <1>6, <1>7, <1>8, <1>9, <1>10

LEMMA OutcomeStep == Typed /\ OutcomeInv /\ [Next]_vars => OutcomeInv'
<1> SUFFICES ASSUME Typed, OutcomeInv, [Next]_vars
             PROVE  OutcomeInv'
  OBVIOUS
<1>1. TurnsKnown'
  <2>1. CASE UNCHANGED vars
    BY <2>1 DEF vars, intents, locals, OutcomeInv, TurnsKnown
  <2> QED
    BY <2>1, ChatKnown, TaskKnown, ServerKnown DEF OutcomeInv, Next
<1>2. ASSUME Calm'
      PROVE  EndsAreTrue'
  <2>1. Calm /\ EndsAreTrue /\ TurnsKnown
    BY <1>2, CalmBefore DEF OutcomeInv
  <2>2. CASE UNCHANGED vars
    BY <2>1, <2>2 DEF vars, intents, locals, server, EndsAreTrue, EndIsTrue, OutcomeTruthful
  <2>3. ~Crash /\ ~Restart /\ \A t \in Turns : ~TurnFails(t)
    <3>1. \A what \in DOMAIN Limits : budget[what] \in Nat
      BY DEF Typed, TypeOK
    <3>2. "error" \in DOMAIN Limits /\ "crash" \in DOMAIN Limits
      BY DEF Limits
    <3> QED
      BY <1>2, <2>1, <3>1, <3>2 DEF Crash, Restart, TurnFails, Spend, Calm, EndsAreTrue, Typed,
         TypeOK
  <2> QED
    BY <2>1, <2>2, <2>3, TasksTrue, SeeEndedTrue, MarkPromptsTrue, ServerTrue DEF Next, EventStep
<1> QED
  BY <1>1, <1>2 DEF OutcomeInv

LEMMA OutcomeInit == Init => OutcomeInv
BY DEF Init, OutcomeInv, TurnsKnown, EndsAreTrue, EndIsTrue, OutcomeTruthful, NoCall, Tasks

\* As long as no fatal error was reported and the bridge was not restarted, a
\* prompt is reported with the outcome of the turn it went into, whatever
\* notifications are late or lost and whatever other turns end meanwhile
\* (mark_turn_workflows).
THEOREM OutcomesAreTrue == Spec => []OutcomesReported
<1>1. Init => Typed /\ OutcomeInv
  BY TypeInit, OutcomeInit
<1>2. Typed /\ OutcomeInv /\ [Next]_vars => (Typed /\ OutcomeInv)'
  BY TypeStep, OutcomeStep
<1>3. OutcomeInv => OutcomesReported
  BY DEF OutcomeInv, Calm, EndsAreTrue, OutcomesReported
<1> QED
  BY <1>1, <1>2, <1>3, PTL DEF Spec
==============================================================================
