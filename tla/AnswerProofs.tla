---------------------------- MODULE AnswerProofs -----------------------------
(* For any number of questions, plans, buttons, faults and approvals: a request *)
(* for input gets one reply and a plan one decision, and what the daemon answers *)
(* to an approval keeps to its contract.                                        *)
(*                                                                              *)
(* The arguments.  The place of the presenter and of the chat's worker says how *)
(* many replies went out so far (Replies); what they hold cannot change under   *)
(* them, because the worker starts when the presenter is done (Apart).  A plan  *)
(* is open until the worker takes it, and never again (PlanSound).  That every  *)
(* variable keeps its type and its bound is stated at the end.                  *)
EXTENDS Workflows, FiniteSetTheorems, TLAPS

\* Questions.
\* The record as it is stored first.
FirstRecord == [status |-> "pending", answers |-> <<>>, index |-> 1]
Shape(r) == r = [status |-> r.status, answers |-> r.answers, index |-> r.index]

QuestionsTyped ==
    /\ answered \in Nat /\ refusals \in Nat /\ faults \in Nat /\ overlapped \in BOOLEAN
    /\ table \in {"none", "pending", "resolved"}
    /\ presenter \in {"start", "header", "render", "send", "store", "end", "failed"}
    /\ chat \in {"idle", "respond", "resolve", "close", "send", "store"}
    /\ copy = [t \in Questions!Task |-> copy[t]]
    /\ copy["presenter"] \in {Questions!NoRecord, FirstRecord}
    /\ Shape(record) /\ Shape(copy["chat"])
    /\ presenter = "start" => record = Questions!NoRecord /\ table = "none"

\* No button and no command comes before a question is shown.
NothingShown ==
    presenter \in {"start", "header", "render", "send"} => shown = {} /\ chat = "idle"

\* The worker starts when the presenter is done, and is done when the request is
\* closed.
Apart ==
    ~overlapped =>
      /\ presenter \notin {"end", "failed"} => chat = "idle"
      /\ record.status = "resolved" => chat = "idle" /\ presenter \in {"end", "failed"}

\* The replies so far, by the places of the two tasks.
Replies ==
    faults = 0 /\ ~overlapped =>
      /\ presenter = "failed" =>
            shown = {} /\ record = Questions!NoRecord /\ chat = "idle" /\ answered = 0 /\
                     refusals <= 1
      /\ presenter # "failed" => refusals = 0
      /\ presenter \notin {"start", "failed"} => table # "none"
      /\ chat = "idle" /\ record.status # "resolved" => answered = 0
      /\ chat \in {"respond", "send", "store"} => answered = 0
      /\ chat \in {"resolve", "close"} => answered = 1
      /\ table = "resolved" => answered = 1 /\ chat # "resolve"
      /\ answered <= 1

QuestionsInv == QuestionsTyped /\ NothingShown /\ Apart /\ Replies

LEMMA ShapeExcept ==
  ASSUME NEW r, Shape(r), NEW v
  PROVE  /\ Shape([r EXCEPT !.status = v]) /\ [r EXCEPT !.status = v].status = v
         /\ Shape([r EXCEPT !.answers = v]) /\ [r EXCEPT !.answers = v].status = r.status
         /\ Shape([r EXCEPT !.index = v]) /\ [r EXCEPT !.index = v].status = r.status
<1> DEFINE a == r.status
           b == r.answers
           c == r.index
<1>1. r = [status |-> a, answers |-> b, index |-> c]
  BY DEF Shape
<1> HIDE DEF a, b, c
<1>2. /\ [r EXCEPT !.status = v] = [status |-> v, answers |-> b, index |-> c]
      /\ [r EXCEPT !.answers = v] = [status |-> a, answers |-> v, index |-> c]
      /\ [r EXCEPT !.index = v] = [status |-> a, answers |-> b, index |-> v]
      /\ r.status = a
  BY <1>1
<1>3. QED
  BY <1>2 DEF Shape

LEMMA ShapeFirst ==
  /\ Shape(Questions!NoRecord) /\ Shape(FirstRecord)
  /\ Questions!NoRecord.status = "none" /\ FirstRecord.status = "pending"
BY DEF Shape, Questions!NoRecord, FirstRecord

LEMMA DeclineKeeps ==
  ASSUME QuestionsInv, Questions!Decline
  PROVE  QuestionsInv'
BY ShapeFirst DEF QuestionsInv, QuestionsTyped, NothingShown, Apart, Replies, Questions!Decline,
   Questions!Refuse

LEMMA QuestionStoreKeeps ==
  ASSUME QuestionsInv, Questions!Store
  PROVE  QuestionsInv'
<1>1. /\ presenter = "start" /\ presenter' = "header" /\ table' = "pending" /\ record' = FirstRecord
      /\ copy' = [copy EXCEPT !["presenter"] = FirstRecord]
      /\ UNCHANGED <<shown, chat, answered, refusals, overlapped, faults>>
  BY DEF Questions!Store, FirstRecord, Questions!historyVars
<1>2. QED
  BY <1>1, ShapeFirst DEF QuestionsInv, QuestionsTyped, NothingShown, Apart, Replies, Questions!Task

LEMMA HeaderKeeps ==
  ASSUME QuestionsInv, Questions!Header
  PROVE  QuestionsInv'
BY ShapeFirst DEF QuestionsInv, QuestionsTyped, NothingShown, Apart, Replies, Questions!Header,
   Questions!requestVars, Questions!historyVars

LEMMA HeaderFailsKeeps ==
  ASSUME QuestionsInv, Questions!HeaderFails
  PROVE  QuestionsInv'
<1>1. faults' \in Nat /\ faults' # 0
  BY DEF Questions!HeaderFails, Questions!Fault, QuestionsInv, QuestionsTyped
<1>2. Shape(record') /\ record'.status = "failed"
  <2> DEFINE r == copy["presenter"]
  <2>1. Shape(r) /\ record' = [r EXCEPT !.status = "failed"]
    BY ShapeFirst DEF Questions!HeaderFails, QuestionsInv, QuestionsTyped
  <2> HIDE DEF r
  <2>2. QED
    BY <2>1, ShapeExcept
<1>3. QED
  BY <1>1, <1>2 DEF QuestionsInv, QuestionsTyped, NothingShown, Apart, Replies,
     Questions!HeaderFails, Questions!Refuse

LEMMA CreateButtonsKeeps ==
  ASSUME QuestionsInv, Questions!CreateButtons
  PROVE  QuestionsInv'
BY DEF QuestionsInv, QuestionsTyped, NothingShown, Apart, Replies, Questions!CreateButtons,
   Questions!requestVars, Questions!historyVars

LEMMA QuestionShowKeeps ==
  ASSUME QuestionsInv, NEW t \in Questions!Task, Questions!Show(t)
  PROVE  QuestionsInv'
BY DEF QuestionsInv, QuestionsTyped, NothingShown, Apart, Replies, Questions!Show, Questions!At,
   Questions!Go, Questions!Task, Questions!requestVars, Questions!historyVars

LEMMA ShowFailsKeeps ==
  ASSUME QuestionsInv, NEW t \in Questions!Task, Questions!ShowFails(t)
  PROVE  QuestionsInv'
<1>1. faults' \in Nat /\ faults' # 0
  BY DEF Questions!ShowFails, Questions!Fault, QuestionsInv, QuestionsTyped
<1>2. QED
  BY <1>1 DEF QuestionsInv, QuestionsTyped, NothingShown, Apart, Replies, Questions!ShowFails,
     Questions!Refuse, Questions!At, Questions!Go, Questions!Task

LEMMA StoreCopyKeeps ==
  ASSUME QuestionsInv, NEW t \in Questions!Task, Questions!StoreCopy(t)
  PROVE  QuestionsInv'
BY ShapeFirst DEF QuestionsInv, QuestionsTyped, NothingShown, Apart, Replies,
   Questions!StoreCopy, Questions!At, Questions!Go, Questions!Task, Questions!requestVars,
   Questions!historyVars

LEMMA RespondKeeps ==
  ASSUME QuestionsInv, Questions!Respond
  PROVE  QuestionsInv'
BY DEF QuestionsInv, QuestionsTyped, NothingShown, Apart, Replies, Questions!Respond

LEMMA RespondFailsKeeps ==
  ASSUME QuestionsInv, Questions!RespondFails
  PROVE  QuestionsInv'
BY DEF QuestionsInv, QuestionsTyped, NothingShown, Apart, Replies, Questions!RespondFails,
   Questions!Fault

LEMMA ResolveKeeps ==
  ASSUME QuestionsInv, Questions!Resolve
  PROVE  QuestionsInv'
BY DEF QuestionsInv, QuestionsTyped, NothingShown, Apart, Replies, Questions!Resolve,
   Questions!Fault, Questions!requestVars, Questions!historyVars

LEMMA CloseKeeps ==
  ASSUME QuestionsInv, Questions!Close
  PROVE  QuestionsInv'
<1>1. Shape(record') /\ record'.status = "resolved"
  BY ShapeExcept, ZenonT(60) DEF Questions!Close, QuestionsInv, QuestionsTyped
<1>2. overlapped' \in BOOLEAN /\ (~overlapped' => ~overlapped)
  BY DEF Questions!Close, Questions!Overlap, QuestionsInv, QuestionsTyped
<1>3. QED
  BY <1>1, <1>2 DEF QuestionsInv, QuestionsTyped, NothingShown, Apart, Replies, Questions!Close

LEMMA OtherKeeps ==
  ASSUME QuestionsInv, Questions!Reconnect \/ Questions!Deadline \/ UNCHANGED questionVars
  PROVE  QuestionsInv'
BY DEF QuestionsInv, QuestionsTyped, NothingShown, Apart, Replies, Questions!Reconnect,
   Questions!Deadline, questionVars, Questions!historyVars

LEMMA QuestionsStart == Questions!Init => QuestionsInv
<1> SUFFICES ASSUME Questions!Init PROVE QuestionsInv
  OBVIOUS
<1>1. /\ record = Questions!NoRecord /\ copy["presenter"] = Questions!NoRecord
      /\ copy["chat"] = Questions!NoRecord /\ copy = [t \in Questions!Task |-> copy[t]]
  BY DEF Questions!Init, Questions!Task
<1>2. /\ table = "none" /\ shown = {} /\ presenter = "start" /\ chat = "idle"
      /\ answered = 0 /\ refusals = 0 /\ overlapped = FALSE /\ faults = 0
  BY DEF Questions!Init
<1>3. QuestionsTyped
  BY <1>1, <1>2, ShapeFirst DEF QuestionsTyped
<1>4. NothingShown /\ Apart /\ Replies
  BY <1>1, <1>2, ShapeFirst DEF NothingShown, Apart, Replies
<1>5. QED
  BY <1>3, <1>4 DEF QuestionsInv

\* An accepted answer leaves the request pending.
LEMMA AcceptEffect ==
  ASSUME QuestionsTyped, NEW i, NEW o, Questions!Accept(i, o)
  PROVE  /\ Shape(record') /\ record'.status = record.status
         /\ Shape(copy'["chat"]) /\ copy' = [t \in Questions!Task |-> copy'[t]]
         /\ copy'["presenter"] = copy["presenter"]
         /\ chat' \in {"respond", "send"}
<1> DEFINE answers == [x \in DOMAIN record.answers \cup {i} |->
                         IF x = i THEN o ELSE record.answers[x]]
           taken == [record EXCEPT !.answers = answers]
           open == Questions!FirstOpen(answers)
<1>1. \/ /\ copy' = [copy EXCEPT !["chat"] = taken] /\ chat' = "respond" /\ record' = record
      \/ /\ record' = [taken EXCEPT !.index = open]
         /\ copy' = [copy EXCEPT !["chat"] = record'] /\ chat' = "send"
  BY Zenon DEF Questions!Accept
<1>2. Shape(record) /\ copy = [t \in Questions!Task |-> copy[t]]
  BY DEF QuestionsTyped
<1> HIDE DEF answers, open
<1>3. Shape(taken) /\ taken.status = record.status
  BY <1>2, ShapeExcept
<1> HIDE DEF taken
<1>4. Shape([taken EXCEPT !.index = open]) /\ [taken EXCEPT !.index = open].status = record.status
  BY <1>3, ShapeExcept
<1>5. Shape(record') /\ record'.status = record.status /\ chat' \in {"respond", "send"}
  BY <1>1, <1>2, <1>4
<1>6. \E r : Shape(r) /\ copy' = [copy EXCEPT !["chat"] = r]
  BY <1>1, <1>3, <1>5
<1>7. PICK r : Shape(r) /\ copy' = [copy EXCEPT !["chat"] = r]
  BY <1>6
<1>8. copy'["chat"] = r /\ copy'["presenter"] = copy["presenter"] /\ copy' =
         [t \in Questions!Task |-> copy'[t]]
  BY <1>2, <1>7 DEF Questions!Task
<1>9. QED
  BY <1>5, <1>7, <1>8

\* A button or a command that counts.
LEMMA AnswerKeeps ==
  ASSUME QuestionsInv, Questions!Live, chat = "idle", shown # {}, Questions!Overlap,
         UNCHANGED <<table, shown, presenter, answered, refusals, faults>>,
         Questions!Expire \/ \E i, o : Questions!Accept(i, o)
  PROVE  QuestionsInv'
<1>1. /\ Shape(record') /\ record'.status # "resolved" /\ chat' \in {"idle", "respond", "send"}
      /\ Shape(copy'["chat"]) /\ copy' = [t \in Questions!Task |-> copy'[t]]
      /\ copy'["presenter"] = copy["presenter"] /\ record.status = "pending"
  <2>1. CASE Questions!Expire
    <3>1. Shape([record EXCEPT !.status = "expired"]) /\ [record EXCEPT !.status =
             "expired"].status = "expired"
      BY ShapeExcept DEF QuestionsInv, QuestionsTyped
    <3>2. QED
      BY <2>1, <3>1 DEF Questions!Expire, Questions!Live, QuestionsInv, QuestionsTyped
  <2>2. CASE \E i, o : Questions!Accept(i, o)
    BY <2>2, AcceptEffect DEF Questions!Live, QuestionsInv
  <2>3. QED
    BY <2>1, <2>2
<1>2. overlapped' \in BOOLEAN /\ (~overlapped' => ~overlapped /\ presenter \notin {"send", "store"})
  BY DEF Questions!Overlap, QuestionsInv, QuestionsTyped
<1>3. presenter # "start" /\ presenter \notin {"start", "header", "render", "send"}
  BY DEF QuestionsInv, NothingShown
<1>4. QED
  BY <1>1, <1>2, <1>3, ShapeFirst DEF QuestionsInv, QuestionsTyped, NothingShown, Apart, Replies

LEMMA NothingAnswered ==
  ASSUME QuestionsInv, UNCHANGED <<record, copy, chat, overlapped, table, shown, presenter,
           answered,
                                   refusals, faults>>
  PROVE  QuestionsInv'
BY DEF QuestionsInv, QuestionsTyped, NothingShown, Apart, Replies

LEMMA QuestionPressKeeps ==
  ASSUME QuestionsInv, NEW i, NEW o, Questions!Press(i, o)
  PROVE  QuestionsInv'
<1>1. /\ chat = "idle" /\ shown # {}
      /\ UNCHANGED <<table, shown, presenter, answered, refusals, faults>>
  BY DEF Questions!Press
<1>2. CASE generation = Generation /\ Questions!Live /\ Questions!IndexOf(ids[i]) = i
  <2>1. Questions!Overlap /\ (Questions!Expire \/ Questions!Accept(ids[i], o))
    BY <1>2, Zenon DEF Questions!Press
  <2>2. QED
    BY <1>1, <1>2, <2>1, AnswerKeeps
<1>3. CASE ~(generation = Generation /\ Questions!Live /\ Questions!IndexOf(ids[i]) = i)
  <2>1. UNCHANGED <<record, copy, chat, overlapped>>
    BY <1>3, Zenon DEF Questions!Press
  <2>2. QED
    BY <1>1, <2>1, NothingAnswered
<1>4. QED
  BY <1>2, <1>3

LEMMA CommandKeeps ==
  ASSUME QuestionsInv, NEW i, NEW o, Questions!Command(i, o)
  PROVE  QuestionsInv'
<1>1. /\ chat = "idle" /\ shown # {} /\ Questions!Live /\ Questions!Overlap
      /\ UNCHANGED <<table, shown, presenter, answered, refusals, faults>>
  BY DEF Questions!Command
<1>2. Questions!Expire \/ Questions!Accept(i, o)
  BY Zenon DEF Questions!Command
<1>3. QED
  BY <1>1, <1>2, AnswerKeeps

LEMMA QuestionsNext == QuestionsInv /\ [Questions!Next]_questionVars => QuestionsInv'
BY DeclineKeeps, QuestionStoreKeeps, HeaderKeeps, HeaderFailsKeeps, CreateButtonsKeeps,
   QuestionShowKeeps, ShowFailsKeeps, StoreCopyKeeps, RespondKeeps, RespondFailsKeeps, ResolveKeeps,
   CloseKeeps, OtherKeeps, QuestionPressKeeps, CommandKeeps
   DEF Questions!Next, Questions!Presenter, Questions!Worker, Questions!Task

LEMMA RequestStaysResolved ==
  QuestionsInv /\ [Questions!Next]_questionVars => Questions!StaysResolved
<1> SUFFICES ASSUME QuestionsInv, [Questions!Next]_questionVars, record.status = "resolved",
         ~overlapped'
             PROVE  record'.status = "resolved"
  BY DEF Questions!StaysResolved
<1>1. ~overlapped
  <2>1. overlapped' = overlapped \/ Questions!Overlap
    BY Zenon DEF Questions!Next, Questions!Presenter, Questions!Worker, Questions!Decline,
       Questions!Store,
       Questions!Header, Questions!CreateButtons, Questions!Show, Questions!StoreCopy,
                Questions!Respond,
       Questions!Resolve, Questions!Close, Questions!HeaderFails, Questions!ShowFails,
       Questions!RespondFails, Questions!Press, Questions!Command, Questions!Reconnect,
       Questions!Deadline, Questions!historyVars, questionVars
  <2>2. QED
    BY <2>1 DEF Questions!Overlap, QuestionsInv, QuestionsTyped
<1>2. chat = "idle" /\ presenter \in {"end", "failed"}
  BY <1>1 DEF QuestionsInv, Apart
<1>3. presenter # "start" /\ presenter # "header" /\ presenter # "store" /\ chat # "store" /\
         chat # "close"
      /\ record.status # "pending"
  BY <1>2
<1>4. record' = record
  BY <1>3, Zenon DEF Questions!Next, Questions!Presenter, Questions!Worker, Questions!Decline,
     Questions!Store,
     Questions!Header, Questions!CreateButtons, Questions!Show, Questions!StoreCopy,
              Questions!Respond,
     Questions!Resolve, Questions!Close, Questions!HeaderFails, Questions!ShowFails,
     Questions!RespondFails, Questions!Press, Questions!Command, Questions!Reconnect,
     Questions!Deadline, Questions!Live, Questions!At, questionVars
<1>5. QED
  BY <1>4

LEMMA OneReplyHolds == QuestionsInv => Questions!OneReply
BY DEF QuestionsInv, QuestionsTyped, Replies, Questions!OneReply

------------------------------------------------------------------------------
\* Plans.
\* Where the tasks are with a plan.
Holds(t, p, where) == plan[t] = p /\ pc[t] \in where
Sending == {"send", "store"}
Deciding == {"begin", "call", "record", "feedback", "note"}

PlansTyped ==
    /\ status \in [PlanIds -> Plans!Status]
    /\ pc \in [Plans!Tasks -> {"idle"} \cup Sending \cup Deciding]
    /\ pc["events"] \in {"idle"} \cup Sending
    /\ plan \in [Plans!Tasks -> PlanIds \cup {NoPlan}]
    /\ \A t \in Plans!Tasks : pc[t] # "idle" => plan[t] \in PlanIds
    /\ pc["chat"] \in {"begin", "call", "record"} => decision \in Plans!Decisions
    /\ started \in [PlanIds -> Nat] /\ revised \in [PlanIds -> Nat] /\ planFaults \in Nat

\* Nothing was done about a plan.
Undecided(p) ==
    started[p] = 0 /\ revised[p] = 0 /\ p \notin prompted /\ p \notin planIntents

\* A plan is open until the chat's worker takes it; from then on it is not open
\* again, and what was done about it is what the worker's place says.
PlanSound(p) ==
    /\ \A t \in Plans!Tasks : Holds(t, p, Sending) => status[p] = "none"
    /\ ~(Holds("events", p, Sending) /\ Holds("chat", p, Sending))
    /\ status[p] \in {"none", "published"} \/ Holds("chat", p, {"begin", "call"}) => Undecided(p)
    /\ Holds("chat", p, Deciding) => status[p] # "none"
    /\ Holds("chat", p, Deciding \ {"begin"}) => status[p] # "published"
    /\ Holds("chat", p, {"record"}) =>
          /\ revised[p] = 0 /\ p \notin prompted /\ p \notin planIntents
          /\ started[p] = IF decision = "execute" THEN 1 ELSE 0
    /\ p \in prompted => started[p] = 0 /\ (p \notin planIntents => revised[p] = 0)
    /\ Holds("chat", p, {"feedback"}) => started[p] = 0 /\ revised[p] = 0 /\ p \in planIntents
    /\ Holds("chat", p, {"note"}) => started[p] = 0 /\ revised[p] = 1 /\ p \in planIntents
    /\ started[p] + revised[p] <= 1
PlansSound == planFaults = 0 => \A p \in PlanIds \ republished : PlanSound(p)
PlansInv == PlansTyped /\ PlansSound

LEMMA PlansStart == Plans!Init => PlansInv
<1> SUFFICES ASSUME Plans!Init PROVE PlansInv
  OBVIOUS
<1>1. PlansTyped
  BY DEF Plans!Init, PlansTyped, Plans!Status, Plans!Tasks
<1>2. ASSUME NEW p \in PlanIds PROVE PlanSound(p)
  BY DEF Plans!Init, PlanSound, Holds, Undecided, Sending, Deciding, Plans!Tasks
<1>3. QED
  BY <1>1, <1>2 DEF PlansInv, PlansSound

LEMMA PlanPublishTyped ==
  ASSUME PlansTyped, NEW t \in Plans!Tasks, NEW q \in PlanIds, Plans!Publish(t, q)
  PROVE  PlansTyped'
BY DEF PlansTyped, Plans!Publish, Plans!Markup, Plans!At, Plans!Tasks, Sending, Deciding,
   Plans!Status,
       Plans!Decisions

LEMMA PlanPublishSound ==
  ASSUME PlansTyped, NEW t \in Plans!Tasks, NEW q \in PlanIds, Plans!Publish(t, q),
           NEW p \in PlanIds \ republished',
         p \notin republished => PlanSound(p)
  PROVE  PlanSound(p)'
BY DEF PlanSound, Holds, Undecided, PlansTyped, Plans!Publish, Plans!Markup, Plans!At,
   Plans!Tasks, Sending,
       Deciding, Plans!Status, Plans!Decisions

LEMMA PlanSendTyped ==
  ASSUME PlansTyped, NEW t \in Plans!Tasks, Plans!Send(t)
  PROVE  PlansTyped'
BY DEF PlansTyped, Plans!Send, Plans!At, Plans!historyVars, Plans!Tasks, Sending, Deciding,
   Plans!Status,
       Plans!Decisions

LEMMA PlanSendSound ==
  ASSUME PlansTyped, NEW t \in Plans!Tasks, Plans!Send(t), NEW p \in PlanIds \ republished',
         p \notin republished => PlanSound(p)
  PROVE  PlanSound(p)'
BY DEF PlanSound, Holds, Undecided, PlansTyped, Plans!Send, Plans!At, Plans!historyVars,
   Plans!Tasks, Sending,
       Deciding, Plans!Status, Plans!Decisions

LEMMA PlanStoreTyped ==
  ASSUME PlansTyped, NEW t \in Plans!Tasks, Plans!Store(t)
  PROVE  PlansTyped'
BY DEF PlansTyped, Plans!Store, Plans!Idle, Plans!Becomes, Plans!historyVars, Plans!Tasks,
   Sending, Deciding, Plans!Status,
       Plans!Decisions

LEMMA PlanStoreSound ==
  ASSUME PlansTyped, NEW t \in Plans!Tasks, Plans!Store(t), NEW p \in PlanIds \ republished',
         p \notin republished => PlanSound(p)
  PROVE  PlanSound(p)'
BY DEF PlanSound, Holds, Undecided, PlansTyped, Plans!Store, Plans!Idle, Plans!Becomes,
   Plans!historyVars, Plans!Tasks, Sending,
       Deciding, Plans!Status, Plans!Decisions

LEMMA PlanPressTyped ==
  ASSUME PlansTyped, NEW q \in PlanIds, NEW d \in Plans!Decisions, Plans!Press(q, d)
  PROVE  PlansTyped'
BY DEF PlansTyped, Plans!Press, Plans!taskVars, Plans!historyVars, Plans!Tasks, Sending,
   Deciding, Plans!Status,
       Plans!Decisions

LEMMA PlanPressSound ==
  ASSUME PlansTyped, NEW q \in PlanIds, NEW d \in Plans!Decisions, Plans!Press(q, d),
           NEW p \in PlanIds \ republished',
         p \notin republished => PlanSound(p)
  PROVE  PlanSound(p)'
BY DEF PlanSound, Holds, Undecided, PlansTyped, Plans!Press, Plans!taskVars, Plans!historyVars,
   Plans!Tasks, Sending,
       Deciding, Plans!Status, Plans!Decisions

LEMMA PlanBeginTyped ==
  ASSUME PlansTyped, Plans!Begin
  PROVE  PlansTyped'
BY DEF PlansTyped, Plans!Begin, Plans!At, Plans!Becomes, Plans!historyVars, Plans!Tasks,
   Sending, Deciding, Plans!Status,
       Plans!Decisions

LEMMA PlanBeginSound ==
  ASSUME PlansTyped, Plans!Begin, NEW p \in PlanIds \ republished',
         p \notin republished => PlanSound(p)
  PROVE  PlanSound(p)'
BY DEF PlanSound, Holds, Undecided, PlansTyped, Plans!Begin, Plans!At, Plans!Becomes,
   Plans!historyVars, Plans!Tasks, Sending,
       Deciding, Plans!Status, Plans!Decisions

LEMMA PlanExecuteTyped ==
  ASSUME PlansTyped, Plans!Execute
  PROVE  PlansTyped'
BY DEF PlansTyped, Plans!Execute, Plans!At, Plans!Tasks, Sending, Deciding, Plans!Status,
       Plans!Decisions

LEMMA PlanExecuteSound ==
  ASSUME PlansTyped, Plans!Execute, NEW p \in PlanIds \ republished',
         p \notin republished => PlanSound(p)
  PROVE  PlanSound(p)'
BY DEF PlanSound, Holds, Undecided, PlansTyped, Plans!Execute, Plans!At, Plans!Tasks, Sending,
       Deciding, Plans!Status, Plans!Decisions

LEMMA PlanAskFeedbackTyped ==
  ASSUME PlansTyped, Plans!AskFeedback
  PROVE  PlansTyped'
BY DEF PlansTyped, Plans!AskFeedback, Plans!At, Plans!historyVars, Plans!Tasks, Sending,
   Deciding, Plans!Status,
       Plans!Decisions

LEMMA PlanAskFeedbackSound ==
  ASSUME PlansTyped, Plans!AskFeedback, NEW p \in PlanIds \ republished',
         p \notin republished => PlanSound(p)
  PROVE  PlanSound(p)'
BY DEF PlanSound, Holds, Undecided, PlansTyped, Plans!AskFeedback, Plans!At, Plans!historyVars,
   Plans!Tasks, Sending,
       Deciding, Plans!Status, Plans!Decisions

LEMMA PlanRecordTyped ==
  ASSUME PlansTyped, Plans!Record
  PROVE  PlansTyped'
BY DEF PlansTyped, Plans!Record, Plans!Idle, Plans!Becomes, Plans!historyVars, Plans!Tasks,
   Sending, Deciding, Plans!Status,
       Plans!Decisions

LEMMA PlanRecordSound ==
  ASSUME PlansTyped, Plans!Record, NEW p \in PlanIds \ republished',
         p \notin republished => PlanSound(p)
  PROVE  PlanSound(p)'
BY DEF PlanSound, Holds, Undecided, PlansTyped, Plans!Record, Plans!Idle, Plans!Becomes,
   Plans!historyVars, Plans!Tasks, Sending,
       Deciding, Plans!Status, Plans!Decisions

LEMMA PlanFeedbackTyped ==
  ASSUME PlansTyped, NEW q \in PlanIds, Plans!Feedback(q)
  PROVE  PlansTyped'
BY DEF PlansTyped, Plans!Feedback, Plans!At, Plans!historyVars, Plans!Tasks, Sending, Deciding,
   Plans!Status,
       Plans!Decisions

LEMMA PlanFeedbackSound ==
  ASSUME PlansTyped, NEW q \in PlanIds, Plans!Feedback(q), NEW p \in PlanIds \ republished',
         p \notin republished => PlanSound(p)
  PROVE  PlanSound(p)'
BY DEF PlanSound, Holds, Undecided, PlansTyped, Plans!Feedback, Plans!At, Plans!historyVars,
   Plans!Tasks, Sending,
       Deciding, Plans!Status, Plans!Decisions

LEMMA PlanSubmitFeedbackTyped ==
  ASSUME PlansTyped, Plans!SubmitFeedback
  PROVE  PlansTyped'
BY DEF PlansTyped, Plans!SubmitFeedback, Plans!At, Plans!Tasks, Sending, Deciding, Plans!Status,
       Plans!Decisions

LEMMA PlanSubmitFeedbackSound ==
  ASSUME PlansTyped, Plans!SubmitFeedback, NEW p \in PlanIds \ republished',
         p \notin republished => PlanSound(p)
  PROVE  PlanSound(p)'
BY DEF PlanSound, Holds, Undecided, PlansTyped, Plans!SubmitFeedback, Plans!At, Plans!Tasks,
   Sending,
       Deciding, Plans!Status, Plans!Decisions

LEMMA PlanNoteTyped ==
  ASSUME PlansTyped, Plans!Note
  PROVE  PlansTyped'
BY DEF PlansTyped, Plans!Note, Plans!Idle, Plans!Becomes, Plans!historyVars, Plans!Tasks,
   Sending, Deciding, Plans!Status,
       Plans!Decisions

LEMMA PlanNoteSound ==
  ASSUME PlansTyped, Plans!Note, NEW p \in PlanIds \ republished',
         p \notin republished => PlanSound(p)
  PROVE  PlanSound(p)'
BY DEF PlanSound, Holds, Undecided, PlansTyped, Plans!Note, Plans!Idle, Plans!Becomes,
   Plans!historyVars, Plans!Tasks, Sending,
       Deciding, Plans!Status, Plans!Decisions

LEMMA PlanTurnEndsTyped ==
  ASSUME PlansTyped, NEW o \in {"completed", "failed"}, Plans!TurnEnds(o)
  PROVE  PlansTyped'
BY DEF PlansTyped, Plans!TurnEnds, Plans!taskVars, Plans!historyVars, Plans!Tasks, Sending,
   Deciding, Plans!Status,
       Plans!Decisions

LEMMA PlanTurnEndsSound ==
  ASSUME PlansTyped, NEW o \in {"completed", "failed"}, Plans!TurnEnds(o),
           NEW p \in PlanIds \ republished',
         p \notin republished => PlanSound(p)
  PROVE  PlanSound(p)'
BY DEF PlanSound, Holds, Undecided, PlansTyped, Plans!TurnEnds, Plans!taskVars,
   Plans!historyVars, Plans!Tasks, Sending,
       Deciding, Plans!Status, Plans!Decisions

\* A step in which a call fails: nothing is claimed after it.
LEMMA PlanFaulty ==
  ASSUME PlansInv,
         \/ \E t \in Plans!Tasks : Plans!SendFails(t)
         \/ Plans!StoreFails \/ Plans!CallFails \/ Plans!FeedbackFails
  PROVE  PlansInv'
<1>1. planFaults' # 0 /\ planFaults' \in Nat
  <2>1. Plans!Fault
    BY DEF Plans!SendFails, Plans!StoreFails, Plans!CallFails, Plans!FeedbackFails
  <2>2. QED
    BY <2>1 DEF Plans!Fault, PlansInv, PlansTyped
<1>2. PlansTyped'
  <2>1. CASE \E t \in Plans!Tasks : Plans!SendFails(t)
    BY <1>1, <2>1 DEF PlansInv, PlansTyped, Plans!SendFails, Plans!Becomes, Plans!Idle,
       Plans!historyVars,
       Plans!Tasks, Plans!Status, Sending, Deciding
  <2>2. CASE Plans!StoreFails
    BY <1>1, <2>2 DEF PlansInv, PlansTyped, Plans!StoreFails, Plans!Idle, Plans!historyVars,
       Plans!Tasks, Sending, Deciding
  <2>3. CASE Plans!CallFails
    <3>1. started' = started \/ started' = [started EXCEPT ![plan["chat"]] = @ + 1]
      BY <2>3, Zenon DEF Plans!CallFails
    <3>2. plan["chat"] \in PlanIds
      BY <2>3 DEF PlansInv, PlansTyped, Plans!CallFails, Plans!Tasks
    <3>3. started' \in [PlanIds -> Nat]
      BY <3>1, <3>2 DEF PlansInv, PlansTyped
    <3>4. revised' = revised
      BY <2>3, Zenon DEF Plans!CallFails
    <3>5. QED
      BY <1>1, <2>3, <3>2, <3>3, <3>4 DEF PlansInv, PlansTyped, Plans!CallFails, Plans!Becomes,
         Plans!Idle,
         Plans!Tasks, Plans!Status, Sending, Deciding
  <2>4. CASE Plans!FeedbackFails
    <3>1. revised' = revised \/ revised' = [revised EXCEPT ![plan["chat"]] = @ + 1]
      BY <2>4, Zenon DEF Plans!FeedbackFails
    <3>2. plan["chat"] \in PlanIds
      BY <2>4 DEF PlansInv, PlansTyped, Plans!FeedbackFails, Plans!Tasks
    <3>3. revised' \in [PlanIds -> Nat]
      BY <3>1, <3>2 DEF PlansInv, PlansTyped
    <3>4. started' = started
      BY <2>4, Zenon DEF Plans!FeedbackFails
    <3>5. QED
      BY <1>1, <2>4, <3>2, <3>3, <3>4 DEF PlansInv, PlansTyped, Plans!FeedbackFails, Plans!Idle,
         Plans!Tasks, Sending, Deciding
  <2>5. QED
    BY <2>1, <2>2, <2>3, <2>4
<1>3. QED
  BY <1>1, <1>2 DEF PlansInv, PlansSound

\* A step in which every call succeeds, or there is none.
PlanCalm ==
    \/ \E p \in PlanIds : Plans!PlanItem(p) \/ Plans!PlanCommand(p)
    \/ \E t \in Plans!Tasks : Plans!Send(t) \/ Plans!Store(t)
    \/ \E p \in PlanIds, d \in Plans!Decisions : Plans!Press(p, d)
    \/ Plans!Begin \/ Plans!Execute \/ Plans!AskFeedback \/ Plans!Record
    \/ \E p \in PlanIds : Plans!Feedback(p)
    \/ Plans!SubmitFeedback \/ Plans!Note
    \/ \E outcome \in {"completed", "failed"} : Plans!TurnEnds(outcome)
    \/ Plans!Prompt
    \/ UNCHANGED planVars

LEMMA PlanCalmTyped == PlansTyped /\ PlanCalm => PlansTyped'
<1> SUFFICES ASSUME PlansTyped, PlanCalm PROVE PlansTyped'
  OBVIOUS
<1>1. ASSUME Plans!Prompt \/ UNCHANGED planVars PROVE PlansTyped'
  BY <1>1 DEF PlansTyped, Plans!Prompt, Plans!taskVars, Plans!historyVars, planVars
<1>2. \A p \in PlanIds : Plans!PlanItem(p) \/ Plans!PlanCommand(p) => PlansTyped'
  BY PlanPublishTyped DEF Plans!PlanItem, Plans!PlanCommand, Plans!Tasks
<1>3. QED
  BY <1>1, <1>2, PlanSendTyped, PlanStoreTyped, PlanPressTyped, PlanBeginTyped, PlanExecuteTyped,
     PlanAskFeedbackTyped, PlanRecordTyped, PlanFeedbackTyped, PlanSubmitFeedbackTyped,
              PlanNoteTyped,
     PlanTurnEndsTyped
  DEF PlanCalm

LEMMA PlanCalmSound ==
  ASSUME PlansTyped, PlanCalm, NEW p \in PlanIds \ republished', p \notin republished =>
           PlanSound(p)
  PROVE  PlanSound(p)'
<1>1. ASSUME Plans!Prompt \/ UNCHANGED planVars PROVE PlanSound(p)'
  <2>1. UNCHANGED <<status, prompted, planIntents, pc, plan, decision, started, revised,
           republished>>
    BY <1>1 DEF Plans!Prompt, Plans!taskVars, Plans!historyVars, planVars
  <2>2. PlanSound(p)
    BY <2>1
  <2>3. QED
    BY <2>1, <2>2 DEF PlanSound, Holds, Undecided
<1>2. \A q \in PlanIds : Plans!PlanItem(q) \/ Plans!PlanCommand(q) => PlanSound(p)'
  BY PlanPublishSound DEF Plans!PlanItem, Plans!PlanCommand, Plans!Tasks
<1>3. QED
  BY <1>1, <1>2, PlanSendSound, PlanStoreSound, PlanPressSound, PlanBeginSound, PlanExecuteSound,
     PlanAskFeedbackSound, PlanRecordSound, PlanFeedbackSound, PlanSubmitFeedbackSound,
              PlanNoteSound,
     PlanTurnEndsSound
  DEF PlanCalm

LEMMA PlansNext == PlansInv /\ [Plans!Next]_planVars => PlansInv'
<1> SUFFICES ASSUME PlansInv, [Plans!Next]_planVars PROVE PlansInv'
  OBVIOUS
<1>1. \/ PlanCalm
      \/ \E t \in Plans!Tasks : Plans!SendFails(t)
      \/ Plans!StoreFails \/ Plans!CallFails \/ Plans!FeedbackFails
  BY Zenon DEF Plans!Next, PlanCalm
<1>2. CASE PlanCalm
  <2>1. PlansTyped'
    BY <1>2, PlanCalmTyped DEF PlansInv
  <2>2. planFaults' = planFaults
    BY <1>2, Zenon DEF PlanCalm, Plans!PlanItem, Plans!PlanCommand, Plans!Publish, Plans!Send,
       Plans!Store,
       Plans!Press, Plans!Begin, Plans!Execute, Plans!AskFeedback, Plans!Record, Plans!Feedback,
       Plans!SubmitFeedback, Plans!Note, Plans!TurnEnds, Plans!Prompt, planVars
  <2>3. republished \subseteq republished'
    <3>1. republished' = republished \/ \E p : republished' = republished \cup {p}
      BY <1>2, Zenon DEF PlanCalm, Plans!PlanItem, Plans!PlanCommand, Plans!Publish, Plans!Send,
         Plans!Store,
         Plans!Press, Plans!Begin, Plans!Execute, Plans!AskFeedback, Plans!Record, Plans!Feedback,
         Plans!SubmitFeedback, Plans!Note, Plans!TurnEnds, Plans!Prompt, planVars, Plans!historyVars
    <3>2. QED
      BY <3>1
  <2>4. ASSUME planFaults' = 0, NEW p \in PlanIds \ republished' PROVE PlanSound(p)'
    <3>1. p \notin republished => PlanSound(p)
      BY <2>2, <2>4 DEF PlansInv, PlansSound
    <3>2. QED
      BY <1>2, <2>4, <3>1, PlanCalmSound DEF PlansInv
  <2>5. QED
    BY <2>1, <2>4 DEF PlansInv, PlansSound
<1>3. QED
  BY <1>1, <1>2, PlanFaulty

LEMMA PlansDecideOnce == PlansInv => Plans!OneDecision
BY DEF PlansInv, PlansSound, PlanSound, Plans!OneDecision

------------------------------------------------------------------------------
\* ApprovalProtocol: what an answer that was given says.
Outcome(d) ==
    /\ answer = Approvals!Payload(request, d) /\ approvalRecord = Approvals!Domain(d)
    /\ confirmation = Approvals!Confirmation(request, d)
ApprovalInv ==
    /\ request \in Approvals!WellFormed
    /\ approvalPhase \in {"asked", "shown", "answered", "refused"}
    /\ approvalPhase = "shown" =>
         offered = {[decision |-> d, response |-> Approvals!Payload(request, d)] :
                       d \in Approvals!Available(request)}
    /\ approvalPhase = "answered" => \E d \in Approvals!Available(request) : Outcome(d)

\* What the daemon answers for a decision it offers, the contract allows.
LEMMA PayloadAllowed ==
  ASSUME NEW r \in Approvals!WellFormed, NEW d \in Approvals!Available(r)
  PROVE  Approvals!Payload(r, d) \in Approvals!Allowed(r)
<1> USE DEF Approvals!Allowed, Approvals!ContractAnswer
<1>1. r.method \in Approvals!Methods /\ r.permissions \in {"empty", "requested"}
  BY DEF Approvals!WellFormed
<1>2. CASE r.method \in Approvals!Legacy
  <2>1. d \in Approvals!Simple
    BY <1>2 DEF Approvals!Available, Approvals!Default, Approvals!Legacy, Approvals!Simple,
      Approvals!Modern3
  <2>2. Approvals!Decide(d) \in Approvals!ContractDecisions(r)
    BY <1>2, <2>1 DEF Approvals!ContractDecisions, Approvals!Legacy, Approvals!Files,
      Approvals!Available, Approvals!Default
  <2>3. Approvals!Payload(r, d) = Approvals!ContractAnswer(r, Approvals!Decide(d))
    <3>1. r.method # "permissions"
      BY <1>2 DEF Approvals!Legacy
    <3>2. Approvals!Payload(r, d) = Approvals!Decide(Approvals!Translated[d])
      BY <1>2, <3>1 DEF Approvals!Payload
    <3>3. QED
      BY <1>2, <3>2 DEF Approvals!Decide
  <2>4. QED
    BY <2>2, <2>3
<1>3. CASE r.method = "permissions"
  <2>1. Approvals!Payload(r, d) \in Approvals!ContractDecisions(r)
    BY <1>1, <1>3 DEF Approvals!Payload, Approvals!ContractDecisions, Approvals!Literal,
      Approvals!Legacy, Approvals!Grant, Approvals!Files
  <2>2. r.method \notin Approvals!Legacy
    BY <1>3 DEF Approvals!Legacy
  <2>3. QED
    BY <2>1, <2>2
<1>4. CASE r.method \in {"commandExecution", "fileChange"}
  <2>1. r.method \notin Approvals!Legacy /\ r.method # "permissions"
    BY <1>4 DEF Approvals!Legacy
  <2>2. Approvals!Payload(r, d) = Approvals!Decide(d)
    BY <2>1 DEF Approvals!Payload, Approvals!Literal
  <2>3. d \in Approvals!Simple
    BY <2>1 DEF Approvals!Available, Approvals!Default, Approvals!Simple, Approvals!Modern3
  <2>4. Approvals!Decide(d) \in Approvals!ContractDecisions(r)
    BY <1>4, <2>1, <2>3 DEF Approvals!ContractDecisions, Approvals!Available, Approvals!Default,
      Approvals!Kinds, Approvals!Files, Approvals!Simple
  <2>5. QED
    BY <2>1, <2>2, <2>4
<1>5. QED
  BY <1>1, <1>2, <1>3, <1>4 DEF Approvals!Methods, Approvals!Legacy

\* What is recorded and confirmed says what the answer grants.
LEMMA OutcomesAgree ==
  ASSUME NEW r \in Approvals!WellFormed, NEW d \in Approvals!Available(r)
  PROVE  /\ Approvals!Grants(Approvals!Payload(r, d)) => Approvals!Domain(d) = "approved"
         /\ Approvals!Domain(d) = "rejected" <=>
              Approvals!Confirmation(r, d) \in {"denied", "cancelled"}
<1>1. r.method \in Approvals!Methods /\ r.permissions \in {"empty", "requested"}
  BY DEF Approvals!WellFormed
<1>2. d \in Approvals!Simple /\ (r.method = "permissions" => d \in {"accept", "decline"})
  BY DEF Approvals!Available, Approvals!Default, Approvals!Simple, Approvals!Modern3,
    Approvals!Legacy
<1>3. Approvals!Domain(d) = "rejected" <=>
        Approvals!Confirmation(r, d) \in {"denied", "cancelled"}
  BY <1>2 DEF Approvals!Domain, Approvals!Confirmation, Approvals!Simple, Approvals!Modern3
<1>4. ASSUME d \notin {"accept", "acceptForSession"}
         PROVE ~Approvals!Grants(Approvals!Payload(r, d))
  <2>1. d \in {"decline", "cancel"}
    BY <1>2, <1>4 DEF Approvals!Simple, Approvals!Modern3
  <2>2. CASE r.method \in Approvals!Legacy
    <3>1. r.method # "permissions"
      BY <2>2 DEF Approvals!Legacy
    <3>2. Approvals!Payload(r, d) = Approvals!Decide(Approvals!Translated[d])
      BY <2>2, <3>1 DEF Approvals!Payload
    <3>3. Approvals!Translated[d] \in {"denied", "abort"}
      BY <2>1 DEF Approvals!Translated
    <3>4. QED
      BY <3>2, <3>3 DEF Approvals!Grants, Approvals!Decide
  <2>3. CASE r.method = "permissions"
    BY <2>1, <2>3 DEF Approvals!Payload, Approvals!Grants, Approvals!Grant, Approvals!Legacy
  <2>4. CASE r.method \notin Approvals!Legacy /\ r.method # "permissions"
    BY <2>1, <2>4 DEF Approvals!Payload, Approvals!Grants, Approvals!Literal, Approvals!Decide
  <2>5. QED
    BY <2>2, <2>3, <2>4
<1>5. QED
  BY <1>3, <1>4 DEF Approvals!Domain

LEMMA ApprovalNext == ApprovalInv /\ [Approvals!Next]_(Approvals!vars) => ApprovalInv'
<1> SUFFICES ASSUME ApprovalInv, [Approvals!Next]_(Approvals!vars) PROVE ApprovalInv'
  OBVIOUS
<1> USE DEF ApprovalInv, Outcome
<1>1. CASE Approvals!Refuse
  BY <1>1, Zenon DEF Approvals!Refuse
<1>2. CASE Approvals!Show
  <2>1. request' = request /\ approvalPhase' = "shown"
        /\ offered' = {[decision |-> d, response |-> Approvals!Payload(request, d)] :
                       d \in Approvals!Available(request)}
    BY <1>2, Zenon DEF Approvals!Show
  <2>2. QED
    BY <2>1
<1>3. CASE Approvals!Press
  <2>1. PICK press \in offered :
          /\ answer' = press.response /\ approvalRecord' = Approvals!Domain(press.decision)
          /\ confirmation' = Approvals!Confirmation(request, press.decision)
    BY <1>3 DEF Approvals!Press
  <2>2. PICK d \in Approvals!Available(request) :
          press = [decision |-> d, response |-> Approvals!Payload(request, d)]
    BY <1>3 DEF Approvals!Press
  <2>3. press.response = Approvals!Payload(request, d) /\ press.decision = d
    BY <2>2
  <2>4. request' = request /\ approvalPhase' = "answered"
    BY <1>3 DEF Approvals!Press
  <2>5. QED
    BY <2>1, <2>3, <2>4
<1>4. CASE UNCHANGED Approvals!vars
  BY <1>4 DEF Approvals!vars
<1>5. QED
  BY <1>1, <1>2, <1>3, <1>4 DEF Approvals!Next

LEMMA ApprovalParts ==
  ASSUME [ChatNext]_allVars PROVE [Approvals!Next]_(Approvals!vars)
BY DEF ChatNext, allVars, approvalVars, Approvals!vars

\* Every answer of the daemon to an approval is one the contract of the client
\* library allows for its method, and what the record and the confirmation say of it
\* is what was answered (approval_response_payload, domain_decision, approval_confirmation).
THEOREM ApprovalsAlwaysAgree == ChatSpec => []ApprovalsAgree
<1>1. ChatInit => ApprovalInv
  BY DEF ChatInit, Approvals!Init, ApprovalInv
<1>2. ApprovalInv /\ [ChatNext]_allVars => ApprovalInv'
  BY ApprovalParts, ApprovalNext
<1>3. ApprovalInv => ApprovalsAgree
  BY PayloadAllowed, OutcomesAgree DEF ApprovalInv, Outcome, ApprovalsAgree,
    Approvals!WithinContract, Approvals!RecordAgrees
<1>4. QED
  BY <1>1, <1>2, <1>3, PTL DEF ChatSpec

------------------------------------------------------------------------------
\* The two workflows as parts of the whole.
LEMMA QuestionsInvariant == ChatSpec => []QuestionsInv
<1>1. ChatInit => QuestionsInv
  BY QuestionsStart DEF ChatInit
<1>2. QuestionsInv /\ [ChatNext]_allVars => QuestionsInv'
  <2>1. [ChatNext]_allVars => [Questions!Next]_questionVars
    BY DEF ChatNext, allVars
  <2>2. QED
    BY <2>1, QuestionsNext
<1>3. QED
  BY <1>1, <1>2, PTL DEF ChatSpec

LEMMA PlansInvariant == ChatSpec => []PlansInv
<1>1. ChatInit => PlansInv
  BY PlansStart DEF ChatInit
<1>2. PlansInv /\ [ChatNext]_allVars => PlansInv'
  <2>1. [ChatNext]_allVars => [Plans!Next]_planVars
    BY DEF ChatNext, allVars
  <2>2. QED
    BY <2>1, PlansNext
<1>3. QED
  BY <1>1, <1>2, PTL DEF ChatSpec

\* A request for input gets at most one reply, and a plan one decision, whichever
\* buttons and commands come and however the presenter and the chat's worker
\* interleave (present_user_input_request, answer_question, handle_question_callback;
\* publish_plan_message, handle_plan_callback).
THEOREM InputIsAnsweredOnce == ChatSpec => []AnsweredOnce
<1>1. QuestionsInv /\ PlansInv => AnsweredOnce
  BY OneReplyHolds, PlansDecideOnce DEF AnsweredOnce
<1>2. QED
  BY <1>1, QuestionsInvariant, PlansInvariant, PTL

------------------------------------------------------------------------------
(* Types. *)

\* A set of natural numbers has a least element.
LEMMA LeastElement ==
  ASSUME NEW S \in SUBSET Nat, S # {}
  PROVE  \E x \in S : \A y \in S : x <= y
<1>1. \E x \in S : \A y \in S : ~ (<<y, x>> \in OpToRel(<, Nat))
  BY WFMin, NatLessThanWellFounded
<1>2. \A x, y \in Nat : <<y, x>> \in OpToRel(<, Nat) <=> y < x
  BY DEF OpToRel
<1>3. \A x \in S : x \in Nat
  OBVIOUS
<1>4. PICK x \in S : \A y \in S : ~ (<<y, x>> \in OpToRel(<, Nat))
  BY <1>1
<1>5. \A y \in S : ~ (y < x)
  BY <1>2, <1>3, <1>4
<1>6. \A y \in S : x <= y
  BY <1>3, <1>5
<1>7. QED
  BY <1>6

\* The types of Questions: the copies are about questions of the request, and the one
\* that is rendered next is among them.
AskedOf(r) ==
    /\ r.status \in Questions!Statuses /\ DOMAIN r.answers \subseteq Questions!AskedIds
    /\ r.index \in 0..Questions!Count
QuestionTypes ==
    /\ Questions!TypeOK
    /\ \A t \in Questions!Task : AskedOf(copy[t])
    /\ presenter \in {"header", "render", "send", "store"} =>
         copy["presenter"].index \in 1..Questions!Count
    /\ chat \in {"send", "store"} => copy["chat"].index \in 1..Questions!Count
    /\ presenter # "failed" => refusals = 0

LEMMA QuestionCount ==
  ASSUME Questions!TypeOK
  PROVE  /\ Questions!Count \in 0..MaxQuestions /\ DOMAIN ids = 1..Questions!Count
         /\ IsFiniteSet(DOMAIN ids)
<1>1. PICK n \in 0..MaxQuestions : ids \in [1..n -> QuestionIds]
  BY DEF Questions!TypeOK
<1>2. IsFiniteSet(1..n) /\ Cardinality(1..n) = n
  BY FS_Interval, BoundsAssumption
<1>3. Questions!Count = n
  BY <1>1, <1>2 DEF Questions!Count, Questions!Cardinality, Cardinality
<1>4. QED
  BY <1>1, <1>2, <1>3

\* The next question to ask is the first that has no answer.
LEMMA FirstOpenAsked ==
  ASSUME Questions!TypeOK, NEW answers, ~(Questions!AskedIds \subseteq DOMAIN answers)
  PROVE  Questions!FirstOpen(answers) \in 1..Questions!Count
<1> DEFINE Unanswered == {i \in DOMAIN ids : ids[i] \notin DOMAIN answers}
<1>1. Unanswered # {}
  BY DEF Questions!AskedIds
<1>2. Unanswered \subseteq Nat /\ DOMAIN ids = 1..Questions!Count /\ Questions!Count \in Nat
  BY QuestionCount
<1>3. PICK i \in Unanswered : \A j \in Unanswered : i <= j
  BY <1>1, <1>2, LeastElement
<1>4. \A j \in 1..(i - 1) : ids[j] \in DOMAIN answers
  <2>1. \A j \in 1..(i - 1) : j \in DOMAIN ids /\ ~(i <= j)
    BY <1>2, <1>3
  <2>2. QED
    BY <1>3, <2>1
<1>5. Questions!FirstOpen(answers) \in DOMAIN ids
  BY <1>3, <1>4 DEF Questions!FirstOpen
<1>6. QED
  BY <1>2, <1>5

LEMMA SameQuestions ==
  ASSUME UNCHANGED ids
  PROVE  Questions!Count' = Questions!Count /\ Questions!AskedIds' = Questions!AskedIds
BY DEF Questions!Count, Questions!AskedIds

LEMMA FaultTyped ==
  ASSUME Questions!TypeOK, Questions!Fault PROVE faults' \in 0..MaxQuestionFaults
BY BoundsAssumption DEF Questions!TypeOK, Questions!Fault

LEMMA NoRecordTyped ==
  ASSUME Questions!TypeOK
  PROVE  AskedOf(Questions!NoRecord)
<1>1. DOMAIN <<>> = {}
  OBVIOUS
<1>2. QED
  BY <1>1, QuestionCount DEF AskedOf, Questions!NoRecord, Questions!Statuses

LEMMA QuestionTypesInit == Questions!Init => QuestionTypes
<1> SUFFICES ASSUME Questions!Init PROVE QuestionTypes
  OBVIOUS
<1>1. Questions!TypeOK
  <2>1. DOMAIN <<>> = {}
    OBVIOUS
  <2>2. Questions!Count \in Nat
    <3>1. PICK n \in 0..MaxQuestions : ids \in [1..n -> QuestionIds]
      BY DEF Questions!Init
    <3>2. IsFiniteSet(1..n) /\ Cardinality(1..n) = n
      BY FS_Interval, BoundsAssumption
    <3>3. QED
      BY <3>1, <3>2 DEF Questions!Count, Questions!Cardinality, Cardinality
  <2>3. /\ record.status \in Questions!Statuses
        /\ DOMAIN record.answers \subseteq Questions!AskedIds
        /\ record.index \in 0..Questions!Count
    BY <2>1, <2>2 DEF Questions!Init, Questions!NoRecord, Questions!Statuses
  <2>4. /\ generation \in Generation..MaxGeneration /\ faults \in 0..MaxQuestionFaults
        /\ presses \in 0..MaxAnswers /\ answered \in Nat /\ refusals \in 0..1
    BY BoundsAssumption DEF Questions!Init
  <2>5. /\ expired \in BOOLEAN /\ overlapped \in BOOLEAN /\ secret \in BOOLEAN
    BY DEF Questions!Init
  <2>6. /\ buttons = {} /\ shown = {} /\ presenter = "start" /\ chat = "idle" /\ table = "none"
        /\ ids \in UNION {[1..n -> QuestionIds] : n \in 0..MaxQuestions}
    BY DEF Questions!Init
  <2>7. QED
    BY <2>3, <2>4, <2>5, <2>6 DEF Questions!TypeOK
<1>2. \A t \in Questions!Task : AskedOf(copy[t])
  BY <1>1, NoRecordTyped DEF Questions!Init, Questions!Task
<1>3. QED
  BY <1>1, <1>2 DEF Questions!Init, QuestionTypes

\* Steps of the presenter.
LEMMA PresenterTyped ==
  ASSUME QuestionTypes, QuestionsTyped, Questions!Presenter \/ Questions!HeaderFails
  PROVE  QuestionTypes'
<1>1. /\ Questions!Count \in Nat /\ UNCHANGED <<ids, secret, generation, expired>>
      /\ Questions!Count' = Questions!Count /\ Questions!AskedIds' = Questions!AskedIds
  BY QuestionCount, SameQuestions DEF QuestionTypes, Questions!Presenter, Questions!HeaderFails,
     Questions!Decline, Questions!Store, Questions!Header, Questions!CreateButtons,
     Questions!Show, Questions!StoreCopy, Questions!requestVars
<1>2. CASE Questions!Decline
  BY <1>1, <1>2 DEF QuestionTypes, Questions!TypeOK, Questions!Decline, Questions!Refuse, AskedOf
<1>3. CASE Questions!Store
  BY <1>1, <1>3 DEF QuestionTypes, Questions!TypeOK, Questions!Store, AskedOf, Questions!Task,
     Questions!historyVars, Questions!Statuses, QuestionsTyped
<1>4. CASE Questions!Header
  BY <1>1, <1>4 DEF QuestionTypes, Questions!TypeOK, Questions!Header, AskedOf, Questions!Task,
     Questions!historyVars
<1>5. CASE Questions!CreateButtons
  BY <1>1, <1>5 DEF QuestionTypes, Questions!TypeOK, Questions!CreateButtons, AskedOf,
     Questions!Task, Questions!historyVars
<1>6. CASE Questions!Show("presenter")
  BY <1>1, <1>6 DEF QuestionTypes, Questions!TypeOK, Questions!Show, Questions!Go, Questions!At,
     AskedOf, Questions!Task, Questions!historyVars
<1>7. CASE Questions!StoreCopy("presenter")
  BY <1>1, <1>7 DEF QuestionTypes, Questions!TypeOK, Questions!StoreCopy, Questions!Go,
     Questions!At, AskedOf, Questions!Task, Questions!historyVars
<1>8. CASE Questions!HeaderFails
  <2> DEFINE r == copy["presenter"]
  <2>1. r \in {Questions!NoRecord, FirstRecord} /\ record' = [r EXCEPT !.status = "failed"]
    BY <1>8 DEF Questions!HeaderFails, QuestionsTyped
  <2>2. record'.status = "failed" /\ record'.answers = r.answers /\ record'.index = r.index
    BY <2>1 DEF Questions!NoRecord, FirstRecord
  <2>3. AskedOf(r) /\ faults' \in 0..MaxQuestionFaults
    BY <1>8, FaultTyped DEF QuestionTypes, Questions!Task, Questions!HeaderFails
  <2>4. /\ refusals' \in 0..1 /\ presenter' = "failed"
        /\ UNCHANGED <<table, buttons, shown, chat, copy, answered, overlapped, presses>>
    BY <1>8 DEF QuestionTypes, Questions!HeaderFails, Questions!Refuse
  <2>5. AskedOf(record')
    BY <1>1, <2>2, <2>3 DEF AskedOf, Questions!Statuses
  <2>6. QED
    BY <1>1, <2>4, <2>3, <2>5 DEF QuestionTypes, Questions!TypeOK, AskedOf
<1>9. QED
  BY <1>2, <1>3, <1>4, <1>5, <1>6, <1>7, <1>8 DEF Questions!Presenter

\* Steps of the worker that take no answer.
LEMMA WorkerTyped ==
  ASSUME QuestionTypes, QuestionsTyped, Questions!Worker \/ Questions!RespondFails
  PROVE  QuestionTypes'
<1>1. /\ Questions!Count \in Nat /\ UNCHANGED <<ids, secret, generation, expired>>
      /\ Questions!Count' = Questions!Count /\ Questions!AskedIds' = Questions!AskedIds
  BY QuestionCount, SameQuestions DEF QuestionTypes, Questions!Worker, Questions!RespondFails,
     Questions!Respond, Questions!Resolve, Questions!Close, Questions!Show, Questions!StoreCopy,
     Questions!requestVars
<1>2. CASE Questions!Show("chat")
  BY <1>1, <1>2 DEF QuestionTypes, Questions!TypeOK, Questions!Show, Questions!Go, Questions!At,
     AskedOf, Questions!Task, Questions!historyVars
<1>3. CASE Questions!StoreCopy("chat")
  BY <1>1, <1>3 DEF QuestionTypes, Questions!TypeOK, Questions!StoreCopy, Questions!Go,
     Questions!At, AskedOf, Questions!Task, Questions!historyVars
<1>4. CASE Questions!Respond
  BY <1>1, <1>4 DEF QuestionTypes, Questions!TypeOK, Questions!Respond, AskedOf
<1>5. CASE Questions!RespondFails
  BY <1>1, <1>5, FaultTyped DEF QuestionTypes, Questions!TypeOK, Questions!RespondFails, AskedOf
<1>6. CASE Questions!Resolve
  BY <1>1, <1>6, FaultTyped DEF QuestionTypes, Questions!TypeOK, Questions!Resolve, AskedOf,
     Questions!historyVars
<1>7. CASE Questions!Close
  <2> DEFINE r == copy["chat"]
  <2>1. /\ r = [status |-> r.status, answers |-> r.answers, index |-> r.index]
        /\ record' = [r EXCEPT !.status = "resolved"]
    BY <1>7 DEF Questions!Close, QuestionsTyped, Shape
  <2>2. AskedOf(r)
    BY DEF QuestionTypes, Questions!Task
  <2> HIDE DEF r
  <2>3. record'.status = "resolved" /\ record'.answers = r.answers /\ record'.index = r.index
    BY <2>1
  <2>4. /\ overlapped' \in BOOLEAN /\ chat' = "idle"
        /\ UNCHANGED <<table, buttons, shown, presenter, copy, answered, refusals, faults, presses>>
    BY <1>7 DEF Questions!Close, Questions!Overlap, QuestionTypes, Questions!TypeOK
  <2>5. AskedOf(record')
    BY <1>1, <2>2, <2>3 DEF AskedOf, Questions!Statuses
  <2>6. QED
    BY <1>1, <2>4, <2>5 DEF QuestionTypes, Questions!TypeOK, AskedOf
<1>8. QED
  BY <1>2, <1>3, <1>4, <1>5, <1>6, <1>7 DEF Questions!Worker

\* What an answer makes of the record and of the worker's copy.
LEMMA AcceptTyped ==
  ASSUME QuestionTypes, QuestionsTyped, NEW i \in Questions!AskedIds, NEW o,
         Questions!Accept(i, o)
  PROVE  /\ AskedOf(record') /\ AskedOf(copy'["chat"])
         /\ chat' = "send" => copy'["chat"].index \in 1..Questions!Count
<1> DEFINE answers == [x \in DOMAIN record.answers \cup {i} |->
                         IF x = i THEN o ELSE record.answers[x]]
           taken == [record EXCEPT !.answers = answers]
           open == Questions!FirstOpen(answers)
<1>1. \/ /\ copy' = [copy EXCEPT !["chat"] = taken] /\ chat' = "respond" /\ record' = record
      \/ /\ ~(Questions!AskedIds \subseteq DOMAIN answers)
         /\ record' = [taken EXCEPT !.index = open]
         /\ copy' = [copy EXCEPT !["chat"] = record'] /\ chat' = "send"
  BY Zenon DEF Questions!Accept
<1>2. /\ record = [status |-> record.status, answers |-> record.answers, index |-> record.index]
      /\ copy = [t \in Questions!Task |-> copy[t]] /\ AskedOf(record)
  BY DEF QuestionsTyped, Shape, QuestionTypes, Questions!TypeOK, AskedOf
<1>3. DOMAIN answers \subseteq Questions!AskedIds
  BY <1>2 DEF AskedOf
<1>4. ~(Questions!AskedIds \subseteq DOMAIN answers) => open \in 1..Questions!Count
  BY FirstOpenAsked DEF QuestionTypes
<1>5. Questions!Count \in Nat
  BY QuestionCount DEF QuestionTypes
<1> HIDE DEF answers, open
<1>6. taken = [status |-> record.status, answers |-> answers, index |-> record.index]
  BY <1>2
<1> HIDE DEF taken
<1>7. AskedOf(taken)
  BY <1>2, <1>3, <1>6 DEF AskedOf
<1>8. [taken EXCEPT !.index = open] =
        [status |-> record.status, answers |-> answers, index |-> open]
  BY <1>6
<1>9. open \in 1..Questions!Count => AskedOf([taken EXCEPT !.index = open])
  BY <1>2, <1>3, <1>5, <1>8 DEF AskedOf
<1>10. \A r : copy' = [copy EXCEPT !["chat"] = r] => copy'["chat"] = r
  BY <1>2 DEF Questions!Task
<1>11. CASE chat' = "respond" /\ record' = record /\ copy' = [copy EXCEPT !["chat"] = taken]
  BY <1>2, <1>7, <1>10, <1>11
<1>12. CASE /\ ~(Questions!AskedIds \subseteq DOMAIN answers)
            /\ record' = [taken EXCEPT !.index = open]
            /\ copy' = [copy EXCEPT !["chat"] = record'] /\ chat' = "send"
  BY <1>4, <1>8, <1>9, <1>10, <1>12
<1>13. QED
  BY <1>1, <1>11, <1>12

\* A button or a command that counts.
LEMMA AnswerTyped ==
  ASSUME QuestionTypes, QuestionsTyped, Questions!Overlap, chat = "idle",
         NEW i \in Questions!AskedIds, NEW o, Questions!Expire \/ Questions!Accept(i, o),
         UNCHANGED <<ids, secret, generation, expired, table, shown, presenter, answered,
                     refusals, faults>>,
         presses' \in 0..MaxAnswers, buttons' \subseteq (1..Questions!Count) \X Options
  PROVE  QuestionTypes'
<1>1. /\ Questions!Count' = Questions!Count /\ Questions!AskedIds' = Questions!AskedIds
      /\ overlapped' \in BOOLEAN
  BY SameQuestions DEF Questions!Overlap, QuestionTypes, Questions!TypeOK
<1>2. CASE Questions!Expire
  <2>1. /\ record' = [record EXCEPT !.status = "expired"] /\ UNCHANGED <<copy, chat>>
        /\ record = [status |-> record.status, answers |-> record.answers, index |-> record.index]
    BY <1>2 DEF Questions!Expire, QuestionsTyped, Shape
  <2>2. /\ record'.status = "expired" /\ record'.answers = record.answers
        /\ record'.index = record.index
    BY <2>1
  <2>3. QED
    BY <1>1, <2>1, <2>2 DEF QuestionTypes, Questions!TypeOK, AskedOf, Questions!Statuses
<1>3. CASE Questions!Accept(i, o)
  <2>1. /\ AskedOf(record') /\ AskedOf(copy'["chat"]) /\ copy'["presenter"] = copy["presenter"]
        /\ chat' = "send" => copy'["chat"].index \in 1..Questions!Count
        /\ chat' \in {"respond", "send"}
    BY <1>3, AcceptTyped, AcceptEffect
  <2>2. QED
    BY <1>1, <2>1 DEF QuestionTypes, Questions!TypeOK, AskedOf, Questions!Task
<1>4. QED
  BY <1>2, <1>3

LEMMA PressTyped ==
  ASSUME QuestionTypes, QuestionsTyped, NEW i \in 1..MaxQuestions, NEW o \in Options,
         Questions!Press(i, o)
  PROVE  QuestionTypes'
<1>1. /\ chat = "idle" /\ i \in shown
      /\ UNCHANGED <<ids, secret, generation, expired, table, shown, presenter, answered,
                     refusals, faults>>
      /\ presses' \in 0..MaxAnswers
  BY BoundsAssumption
  DEF Questions!Press, Questions!requestVars, QuestionTypes, Questions!TypeOK
<1>2. /\ DOMAIN ids = 1..Questions!Count /\ Questions!Count \in Nat
      /\ Questions!Count' = Questions!Count /\ Questions!AskedIds' = Questions!AskedIds
  BY <1>1, QuestionCount, SameQuestions DEF QuestionTypes
<1>3. CASE generation = Generation /\ Questions!Live /\ Questions!IndexOf(ids[i]) = i
  <2>1. /\ Questions!Overlap /\ (Questions!Expire \/ Questions!Accept(ids[i], o))
        /\ buttons' = (IF chat' = "send" THEN {copy'["chat"].index} \X Options ELSE {})
                        \cup (buttons \ {<<i, o>>})
    BY <1>3, Zenon DEF Questions!Press
  <2>2. ids[i] \in Questions!AskedIds
    BY <1>1, <1>2 DEF Questions!AskedIds, QuestionTypes, Questions!TypeOK
  <2>3. chat' = "send" => copy'["chat"].index \in 1..Questions!Count
    BY <1>1, <2>1, <2>2, AcceptTyped DEF Questions!Expire
  <2>4. buttons' \subseteq (1..Questions!Count) \X Options
    BY <2>1, <2>3 DEF QuestionTypes, Questions!TypeOK
  <2>5. QED
    BY <1>1, <2>1, <2>2, <2>4, AnswerTyped
<1>4. CASE ~(generation = Generation /\ Questions!Live /\ Questions!IndexOf(ids[i]) = i)
  <2>1. UNCHANGED <<record, copy, chat, overlapped>> /\ buttons' \subseteq buttons
    BY <1>4 DEF Questions!Press
  <2>2. QED
    BY <1>1, <1>2, <2>1 DEF QuestionTypes, Questions!TypeOK, AskedOf
<1>5. QED
  BY <1>3, <1>4

LEMMA CommandTyped ==
  ASSUME QuestionTypes, QuestionsTyped, NEW i \in Questions!AskedIds, NEW o \in Options,
         Questions!Command(i, o)
  PROVE  QuestionTypes'
<1>1. /\ chat = "idle" /\ Questions!NextButtons /\ Questions!Overlap
      /\ UNCHANGED <<ids, secret, generation, expired, table, shown, presenter, answered,
                     refusals, faults>>
      /\ presses' \in 0..MaxAnswers
  BY BoundsAssumption
  DEF Questions!Command, Questions!requestVars, QuestionTypes, Questions!TypeOK
<1>2. Questions!Expire \/ Questions!Accept(i, o)
  BY Zenon DEF Questions!Command
<1>3. chat' = "send" => copy'["chat"].index \in 1..Questions!Count
  BY <1>1, <1>2, AcceptTyped DEF Questions!Expire
<1>4. buttons' \subseteq (1..Questions!Count) \X Options
  BY <1>1, <1>3 DEF Questions!NextButtons, QuestionTypes, Questions!TypeOK
<1>5. QED
  BY <1>1, <1>2, <1>4, AnswerTyped

LEMMA OtherTyped ==
  ASSUME QuestionTypes, QuestionsTyped,
         \/ \E t \in Questions!Task : Questions!ShowFails(t)
         \/ Questions!Reconnect \/ Questions!Deadline \/ UNCHANGED questionVars
  PROVE  QuestionTypes'
<1>1. /\ Questions!Count \in Nat /\ UNCHANGED ids
      /\ Questions!Count' = Questions!Count /\ Questions!AskedIds' = Questions!AskedIds
  BY QuestionCount, SameQuestions DEF QuestionTypes, Questions!ShowFails, Questions!Reconnect,
     Questions!Deadline, questionVars, Questions!requestVars
<1>2. ASSUME NEW t \in Questions!Task, Questions!ShowFails(t) PROVE QuestionTypes'
  <2>1. faults' \in 0..MaxQuestionFaults
    BY <1>2, FaultTyped DEF Questions!ShowFails, QuestionTypes
  <2>2. shown' \subseteq 1..Questions!Count
    BY <1>2 DEF Questions!ShowFails, Questions!At, Questions!Task, QuestionTypes, Questions!TypeOK
  <2>3. QED
    BY <1>1, <1>2, <2>1, <2>2 DEF QuestionTypes, Questions!TypeOK, AskedOf, Questions!Task,
       Questions!ShowFails, Questions!Go, Questions!At, Questions!Refuse, Questions!requestVars
<1>3. CASE Questions!Reconnect
  BY <1>1, <1>3, BoundsAssumption DEF QuestionTypes, Questions!TypeOK, AskedOf,
     Questions!Reconnect, Questions!historyVars
<1>4. CASE Questions!Deadline
  BY <1>1, <1>4 DEF QuestionTypes, Questions!TypeOK, AskedOf, Questions!Deadline,
     Questions!historyVars
<1>5. CASE UNCHANGED questionVars
  BY <1>1, <1>5 DEF QuestionTypes, Questions!TypeOK, AskedOf, questionVars
<1>6. QED
  BY <1>2, <1>3, <1>4, <1>5

LEMMA QuestionTypesNext ==
  QuestionTypes /\ QuestionsTyped /\ [Questions!Next]_questionVars => QuestionTypes'
BY PresenterTyped, WorkerTyped, PressTyped, CommandTyped, OtherTyped DEF Questions!Next

LEMMA PlanFaultTyped ==
  ASSUME Plans!TypeOK, Plans!Fault PROVE planFaults' \in 0..MaxPlanFaults
BY BoundsAssumption DEF Plans!TypeOK, Plans!Fault

LEMMA TurnTyped ==
  ASSUME Plans!TypeOK, Plans!RunTurn PROVE turn' \in BOOLEAN /\ turns' \in 0..MaxPlanTurns
BY BoundsAssumption DEF Plans!TypeOK, Plans!RunTurn

\* What PlansTyped leaves out of the types.
PlanSets ==
    /\ planButtons \subseteq PlanIds \X Plans!Decisions
    /\ planShown \subseteq PlanIds /\ prompted \subseteq PlanIds
    /\ planIntents \subseteq PlanIds /\ republished \subseteq PlanIds
    /\ decision \in Plans!Decisions \cup {NoPlan}
    /\ turn \in BOOLEAN /\ turns \in 0..MaxPlanTurns /\ planFaults \in 0..MaxPlanFaults

LEMMA PlanTypesSplit == Plans!TypeOK /\ PlansTyped <=> PlanSets /\ PlansTyped
BY DEF Plans!TypeOK, PlanSets, PlansTyped, Sending, Deciding

LEMMA PlanTypesInit == Plans!Init => PlanSets
<1> SUFFICES ASSUME Plans!Init PROVE PlanSets
  OBVIOUS
<1>1. turns = 0 /\ planFaults = 0 /\ turn = FALSE
  BY DEF Plans!Init
<1>2. turns \in 0..MaxPlanTurns /\ planFaults \in 0..MaxPlanFaults
  BY <1>1, BoundsAssumption
<1>3. QED
  BY <1>1, <1>2 DEF Plans!Init, PlanSets

LEMMA PlanTypesNext ==
  PlanSets /\ PlansTyped /\ [Plans!Next]_planVars => PlanSets'
<1> SUFFICES ASSUME PlanSets, PlansTyped, [Plans!Next]_planVars PROVE PlanSets'
  OBVIOUS
<1>1. Plans!TypeOK /\ MaxPlanTurns \in Nat
  BY PlanTypesSplit, BoundsAssumption
<1>2. ASSUME NEW t \in Plans!Tasks, NEW p \in PlanIds, Plans!Publish(t, p) PROVE PlanSets'
  BY <1>2 DEF PlanSets, Plans!Publish, Plans!Markup, Plans!At, Plans!Decisions
<1>3. ASSUME NEW t \in Plans!Tasks, Plans!Send(t) \/ Plans!Store(t) PROVE PlanSets'
  BY <1>3 DEF PlanSets, PlansTyped, Plans!Send, Plans!Store, Plans!At, Plans!Idle,
     Plans!historyVars
<1>4. ASSUME NEW t \in Plans!Tasks, Plans!SendFails(t) PROVE PlanSets'
  BY <1>1, <1>4, PlanFaultTyped DEF PlanSets, PlansTyped, Plans!SendFails, Plans!Idle,
     Plans!historyVars
<1>5. ASSUME NEW p \in PlanIds, NEW d \in Plans!Decisions, Plans!Press(p, d) PROVE PlanSets'
  BY <1>5 DEF PlanSets, Plans!Press, Plans!historyVars, Plans!taskVars
<1>6. CASE Plans!Begin \/ Plans!AskFeedback \/ Plans!Record \/ Plans!Note
  BY <1>6 DEF PlanSets, PlansTyped, Plans!Begin, Plans!AskFeedback, Plans!Record, Plans!Note,
     Plans!At, Plans!Idle, Plans!Tasks, Plans!historyVars
<1>7. CASE Plans!StoreFails
  BY <1>1, <1>7, PlanFaultTyped DEF PlanSets, PlansTyped, Plans!StoreFails, Plans!Idle,
     Plans!Tasks, Plans!historyVars
<1>8. CASE Plans!Execute \/ Plans!SubmitFeedback
  BY <1>1, <1>8, TurnTyped DEF PlanSets, Plans!Execute, Plans!SubmitFeedback, Plans!At
<1>9. CASE Plans!CallFails
  BY <1>1, <1>9, TurnTyped, PlanFaultTyped DEF PlanSets, PlansTyped, Plans!CallFails, Plans!Idle,
     Plans!Tasks
<1>10. CASE Plans!FeedbackFails
  BY <1>1, <1>10, TurnTyped, PlanFaultTyped DEF PlanSets, Plans!FeedbackFails, Plans!Idle
<1>11. ASSUME NEW p \in PlanIds, Plans!Feedback(p) PROVE PlanSets'
  BY <1>11 DEF PlanSets, Plans!Feedback, Plans!At, Plans!historyVars
<1>12. ASSUME NEW outcome, Plans!TurnEnds(outcome) PROVE PlanSets'
  BY <1>12 DEF PlanSets, Plans!TurnEnds, Plans!taskVars, Plans!historyVars
<1>13. CASE Plans!Prompt
  BY <1>1, <1>13 DEF PlanSets, Plans!Prompt, Plans!taskVars, Plans!historyVars
<1>14. CASE UNCHANGED planVars
  BY <1>14 DEF PlanSets, planVars
<1>15. QED
  BY <1>2, <1>3, <1>4, <1>5, <1>6, <1>7, <1>8, <1>9, <1>10, <1>11, <1>12, <1>13, <1>14
  DEF Plans!Next, Plans!PlanItem, Plans!PlanCommand, Plans!Tasks

LEMMA QuestionTypesHold == ChatSpec => [](Questions!TypeOK)
<1>1. ChatInit => QuestionTypes
  BY QuestionTypesInit DEF ChatInit
<1>2. QuestionTypes /\ QuestionsInv /\ [ChatNext]_allVars => QuestionTypes'
  <2>1. [ChatNext]_allVars => [Questions!Next]_questionVars
    BY DEF ChatNext, allVars
  <2>2. QuestionsInv => QuestionsTyped
    BY DEF QuestionsInv
  <2>3. QED
    BY <2>1, <2>2, QuestionTypesNext
<1>3. QuestionTypes => Questions!TypeOK
  BY DEF QuestionTypes
<1>4. QED
  BY <1>1, <1>2, <1>3, QuestionsInvariant, PTL DEF ChatSpec

LEMMA PlanTypesHold == ChatSpec => [](Plans!TypeOK)
<1>1. ChatInit => PlanSets
  BY PlanTypesInit DEF ChatInit
<1>2. PlanSets /\ PlansInv /\ [ChatNext]_allVars => PlanSets'
  <2>1. [ChatNext]_allVars => [Plans!Next]_planVars
    BY DEF ChatNext, allVars
  <2>2. PlansInv => PlansTyped
    BY DEF PlansInv
  <2>3. QED
    BY <2>1, <2>2, PlanTypesNext
<1>3. PlanSets /\ PlansInv => Plans!TypeOK
  BY PlanTypesSplit DEF PlansInv
<1>4. QED
  BY <1>1, <1>2, <1>3, PlansInvariant, PTL DEF ChatSpec
==============================================================================
