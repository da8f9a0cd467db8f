------------------------ MODULE ServerRequestsProofs ------------------------
(***************************************************************************)
(* For any number of requests, buttons, reconnects, crashes and faults, and *)
(* for queues of any capacity: every variable keeps its type, a recorded   *)
(* decision was written to the app-server, and a queued reply dies with    *)
(* the connection it was queued for.                                       *)
(***************************************************************************)
EXTENDS ServerRequests, FiniteSetTheorems, TLAPS

\* A handler that is not idle works on a request; a press on a button.
JobInv ==
    /\ pc["presenter"] # "idle" => job["presenter"] \in Requests \X Answers
    /\ pc["chat"] # "idle" => job["chat"] \in Requests \X Decisions

\* Replies in the queue are no newer than the connection, and those of the
\* present generation were queued on the present connection.
QueueInv ==
    \A i \in DOMAIN outbound :
      /\ outbound[i].generation <= generation
      /\ active /\ outbound[i].generation = generation =>
           outbound[i].queuedOn = link

\* A queued reply somebody waits for is the one that task has sent.
WaitInv ==
    /\ \A i \in DOMAIN outbound, t \in Tasks : outbound[i].waiter = t =>
         /\ pc[t] = "wait" /\ ack[t] = "none"
         /\ job[t] = <<outbound[i].request, outbound[i].answer>>
    /\ \A i, j \in DOMAIN outbound :
         outbound[i].waiter = outbound[j].waiter /\ outbound[i].waiter \in Tasks
           => i = j

\* An acknowledged reply was written.
Acked(t) ==
    /\ pc[t] \notin {"wait", "decide"} => ack[t] = "none"
    /\ pc[t] = "wait" /\ ack[t] = "ok" => Delivered(job[t][1], job[t][2])
    /\ pc[t] = "decide" => Delivered(job[t][1], job[t][2])

AckInv == \A t \in Tasks : Acked(t)

IInv ==
    /\ TypeOK /\ JobInv /\ QueueInv /\ WaitInv /\ AckInv
    /\ DecisionDelivered /\ ReplyDiesWithItsConnection

------------------------------------------------------------------------------
(* Queues as sequences. *)

LEMMA EmptyQueue == ASSUME NEW S PROVE <<>> \in Seq(S)
OBVIOUS

LEMMA HeadTail ==
  ASSUME NEW S, NEW s \in Seq(S), s # <<>>
  PROVE  /\ Head(s) \in S /\ Tail(s) \in Seq(S)
         /\ Len(Tail(s)) = Len(s) - 1
         /\ Head(s) = s[1] /\ 1 \in DOMAIN s
         /\ \A i \in DOMAIN Tail(s) : i + 1 \in DOMAIN s /\ Tail(s)[i] = s[i + 1]
OBVIOUS

LEMMA Appending ==
  ASSUME NEW S, NEW s \in Seq(S), NEW e \in S
  PROVE  /\ Append(s, e) \in Seq(S)
         /\ Len(Append(s, e)) = Len(s) + 1
         /\ Append(s, e)[Len(s) + 1] = e
         /\ \A i \in DOMAIN s : i \in DOMAIN Append(s, e) /\ Append(s, e)[i] = s[i]
         /\ DOMAIN Append(s, e) = DOMAIN s \cup {Len(s) + 1}
         /\ Len(s) + 1 \notin DOMAIN s
OBVIOUS

------------------------------------------------------------------------------
(* Types. *)

LEMMA TypeInit == Init => TypeOK /\ JobInv
<1> SUFFICES ASSUME Init PROVE TypeOK /\ JobInv
  OBVIOUS
<1>1. /\ wire \in Seq(Requests) /\ outbound \in Seq(Replies)
      /\ inbox \in Seq([request : Requests, generation : Nat])
      /\ written \in Seq(Entries)
  BY DEF Init
<1>2. Len(inbox) <= InboxCapacity /\ Len(outbound) <= OutboundCapacity
  BY CapacityAssumption DEF Init
<1>3. /\ pc \in [Tasks -> Labels] /\ JobInv
      /\ job \in [Tasks -> (Requests \X Answers) \cup {NoJob}]
      /\ ack \in [Tasks -> {"none", "ok", "failed"}]
  BY DEF Init, Idle, JobInv, Labels, Tasks
<1> QED
  BY <1>1, <1>2, <1>3 DEF Init, TypeOK

\* What the connection task does to the types.
LEMMA TypeConnection ==
  ASSUME TypeOK, JobInv,
         \/ Connect \/ ConnectFails \/ Disconnect \/ WriteFails
         \/ Connection \/ \E r \in Requests : Ask(r)
  PROVE  TypeOK' /\ JobInv'
<1>1. CASE Connect \/ ConnectFails \/ Disconnect
  <2>1. /\ generation' \in Nat /\ active' \in BOOLEAN /\ link' \in Nat
        /\ wire' \in Seq(Requests)
    <3>1. generation' \in {generation, generation + 1} /\ link' \in {link, link + 1}
      BY <1>1 DEF Connect, ConnectFails, Disconnect
    <3>2. generation \in Nat /\ link \in Nat
      BY DEF TypeOK
    <3>3. active' \in BOOLEAN
      BY <1>1 DEF Connect, ConnectFails, Disconnect, TypeOK
    <3>4. wire' = wire \/ wire' = <<>>
      BY <1>1 DEF Connect, ConnectFails, Disconnect
    <3>5. generation' \in Nat /\ link' \in Nat
      BY <3>1, <3>2
    <3>6. wire' \in Seq(Requests)
      BY <3>4, EmptyQueue DEF TypeOK
    <3> QED
      BY <3>3, <3>5, <3>6
  <2>2. UNCHANGED <<held, queues, store, tasks, history, outside, budget>>
    BY <1>1 DEF Connect, ConnectFails, Disconnect
  <2> QED
    BY <2>1, <2>2 DEF TypeOK, JobInv, queues, store, tasks, history, outside,
        budget
<1>2. ASSUME NEW r \in Requests, Ask(r) PROVE TypeOK' /\ JobInv'
  BY <1>2, Appending DEF Ask, TypeOK, JobInv, queues, store, tasks, history,
      budget
<1>3. CASE ReadRequest
  <2>1. wire \in Seq(Requests) /\ wire # <<>>
    BY <1>3 DEF ReadRequest, TypeOK
  <2>2. Head(wire) \in Requests /\ Tail(wire) \in Seq(Requests)
    BY <2>1, HeadTail
  <2>3. held' \in SUBSET Requests /\ wire' \in Seq(Requests)
    BY <1>3, <2>2 DEF ReadRequest
  <2> QED
    BY <1>3, <2>3 DEF ReadRequest, TypeOK, JobInv, queues, store, tasks,
        history, outside, budget
<1>4. CASE ForwardRequest
  <2>1. PICK r \in held : inbox' = Append(inbox, [request |-> r, generation |-> generation])
    BY <1>4 DEF ForwardRequest
  <2>2. [request |-> r, generation |-> generation] \in [request : Requests, generation : Nat]
    BY <2>1 DEF TypeOK
  <2>3. inbox' \in Seq([request : Requests, generation : Nat]) /\ Len(inbox') <= InboxCapacity
    BY <1>4, <2>1, <2>2, Appending, CapacityAssumption DEF ForwardRequest, TypeOK
  <2> QED
    BY <1>4, <2>3 DEF ForwardRequest, TypeOK, JobInv, store, tasks, history,
        outside, budget
<1>5. CASE WriteReply \/ RefuseStaleReply \/ WriteFails
  <2> DEFINE m == Head(outbound)
  <2>1. m \in Replies /\ outbound' \in Seq(Replies) /\ Len(outbound') <= OutboundCapacity
    <3>1. outbound \in Seq(Replies) /\ outbound # <<>> /\ outbound' = Tail(outbound)
      BY <1>5 DEF WriteReply, RefuseStaleReply, WriteFails, TypeOK
    <3>2. /\ m \in Replies /\ Tail(outbound) \in Seq(Replies)
          /\ Len(Tail(outbound)) = Len(outbound) - 1 /\ Len(outbound) \in Nat
      BY <3>1, HeadTail
    <3>3. Len(outbound) <= OutboundCapacity
      BY DEF TypeOK
    <3> QED
      BY <3>1, <3>2, <3>3, CapacityAssumption
  <2>2. Entry(m) \in Entries
    BY <2>1 DEF Entry, Replies, Entries, TypeOK
  <2>3. written' \in Seq(Entries)
    <3>1. written' = written \/ written' = Append(written, Entry(m))
      BY <1>5 DEF WriteReply, RefuseStaleReply, WriteFails, history
    <3>2. written \in Seq(Entries)
      BY DEF TypeOK
    <3> QED
      BY <3>1, <3>2, <2>2, Appending
  <2>4. disturbed' \in SUBSET Requests
    BY <1>5, <2>1
    DEF WriteReply, RefuseStaleReply, WriteFails, TypeOK, history, Replies
  <2>5. ack' \in [Tasks -> {"none", "ok", "failed"}]
    <3>1. Acknowledge(m, "ok") \/ Acknowledge(m, "failed")
      BY <1>5 DEF WriteReply, RefuseStaleReply, WriteFails
    <3> QED
      BY <3>1 DEF Acknowledge, TypeOK
  <2>6. wire' \in Seq(Requests) /\ active' \in BOOLEAN
    <3>1. active' \in BOOLEAN
      BY <1>5 DEF WriteReply, RefuseStaleReply, WriteFails, TypeOK, transport
    <3>2. wire' = wire \/ wire' = <<>>
      BY <1>5 DEF WriteReply, RefuseStaleReply, WriteFails, transport
    <3> QED
      BY <3>1, <3>2, EmptyQueue DEF TypeOK
  <2>7. UNCHANGED <<generation, link, held, inbox, store, pc, job, outside, budget>>
    BY <1>5 DEF WriteReply, RefuseStaleReply, WriteFails, transport
  <2> QED
    BY <2>1, <2>3, <2>4, <2>5, <2>6, <2>7
    DEF TypeOK, JobInv, store, outside, budget
<1> QED
  BY <1>1, <1>2, <1>3, <1>4, <1>5 DEF Connection

\* A task that waits for its turn, gives up or goes on.
LEMMA TypeReply ==
  ASSUME TypeOK, JobInv, NEW t \in Tasks, Reply(t)
  PROVE  TypeOK' /\ JobInv'
<1>1. pc[t] # "idle"
  BY DEF Reply, SendReply, ReplyRefused, ReplyFailed, ReplyTimedOut, ReplyWritten
<1>2. job[t] \in Requests \X Answers /\ (t = "chat" => job[t] \in Requests \X Decisions)
  BY <1>1 DEF JobInv, Tasks, Answers
<1>3. CASE SendReply(t)
  <2> DEFINE m == [request |-> job[t][1], answer |-> job[t][2],
                   generation |-> generation, waiter |-> t, queuedOn |-> link]
  <2>1. m \in Replies
    BY <1>2 DEF Replies, TypeOK
  <2>2. outbound' \in Seq(Replies) /\ Len(outbound') <= OutboundCapacity
    BY <1>3, <2>1, Appending, CapacityAssumption DEF SendReply, TypeOK
  <2>3. pc' \in [Tasks -> Labels] /\ JobInv'
    BY <1>1, <1>3 DEF SendReply, Goto, TypeOK, JobInv, Labels, Tasks
  <2> QED
    BY <1>3, <2>2, <2>3 DEF SendReply, Goto, TypeOK, transport, store, history,
        outside, budget
<1>4. ASSUME GiveUp(t)
      PROVE  /\ live' \in SUBSET (Requests \X Decisions) /\ UNCHANGED <<stamp, approval>>
             /\ pc' \in [Tasks -> Labels] /\ JobInv'
             /\ job' \in [Tasks -> (Requests \X Answers) \cup {NoJob}]
             /\ ack' \in [Tasks -> {"none", "ok", "failed"}]
  BY <1>2, <1>4 DEF GiveUp, Finish, TypeOK, JobInv, Labels, Tasks
<1>5. CASE ReplyRefused(t) \/ ReplyFailed(t)
  BY <1>4, <1>5 DEF ReplyRefused, ReplyFailed, TypeOK, transport, queues,
      history, outside, budget
<1>6. CASE ReplyTimedOut(t)
  <2>1. outbound' \in Seq(Replies) /\ Len(outbound') = Len(outbound)
    <3>1. outbound \in Seq(Replies)
      BY DEF TypeOK
    <3> DEFINE f(i) == IF outbound[i].waiter = t
                       THEN [outbound[i] EXCEPT !.waiter = Nobody]
                       ELSE outbound[i]
    <3>2. outbound' = [i \in 1..Len(outbound) |-> f(i)] /\ Len(outbound) \in Nat
      BY <1>6, <3>1 DEF ReplyTimedOut
    <3>3. \A i \in 1..Len(outbound) : outbound[i] \in Replies
      BY <3>1
    <3>4. \A i \in 1..Len(outbound) : f(i) \in Replies
      BY <3>3 DEF Replies
    <3> HIDE DEF f
    <3> QED
      BY <3>2, <3>4
  <2>2. disturbed' \in SUBSET Requests
    BY <1>2, <1>6 DEF ReplyTimedOut, TypeOK
  <2> QED
    BY <1>4, <1>6, <2>1, <2>2 DEF ReplyTimedOut, TypeOK, transport, outside, budget
<1>7. CASE ReplyWritten(t)
  BY <1>1, <1>7 DEF ReplyWritten, Goto, Finish, TypeOK, JobInv, Labels, Tasks,
      transport, queues, store, history, outside, budget
<1> QED
  BY <1>3, <1>5, <1>6, <1>7 DEF Reply

\* The presenter, the chat's worker and what is outside.
LEMMA TypeTasks ==
  ASSUME TypeOK, JobInv,
         \/ RefuseRequest \/ Present \/ PresentFails
         \/ ShowPrompt \/ PromptSent \/ PromptFails \/ Withdraw
         \/ \E b \in Requests \X Decisions : Press(b)
         \/ Validate \/ Decide \/ Restart
  PROVE  TypeOK' /\ JobInv'
<1>1. CASE RefuseRequest \/ Present \/ PresentFails
  <2> DEFINE m == Head(inbox)
             S == [request : Requests, generation : Nat]
  <2>1. inbox \in Seq(S) /\ inbox # <<>> /\ inbox' = Tail(inbox)
    BY <1>1 DEF RefuseRequest, Present, PresentFails, Receive, TypeOK
  <2> HIDE DEF S
  <2>2. /\ m \in S /\ Tail(inbox) \in Seq(S)
        /\ Len(Tail(inbox)) = Len(inbox) - 1 /\ Len(inbox) \in Nat
    BY <2>1, HeadTail
  <2>3. Len(inbox) <= InboxCapacity
    BY DEF TypeOK
  <2>4. inbox' \in Seq(S) /\ Len(inbox') <= InboxCapacity
    BY <2>1, <2>2, <2>3, CapacityAssumption
  <2>5. m.request \in Requests /\ m.generation \in Nat
    BY <2>2 DEF S
  <2>6. /\ live' \in SUBSET (Requests \X Decisions)
        /\ stamp' \in [Requests -> Nat]
        /\ approval' \in [Requests -> Decisions \cup {"none", "pending", "undelivered"}]
    BY <1>1, <2>5
    DEF RefuseRequest, Present, PresentFails, Buttons, store, TypeOK
  <2> DEFINE Typed ==
        /\ pc' \in [Tasks -> Labels] /\ JobInv'
        /\ job' \in [Tasks -> (Requests \X Answers) \cup {NoJob}]
        /\ UNCHANGED ack
  <2>7. Typed
    <3>1. StartOn(m, "respond") \/ StartOn(m, "send") \/ UNCHANGED tasks
      BY <1>1 DEF RefuseRequest, Present, PresentFails
    <3>2. ASSUME NEW l \in Labels, StartOn(m, l) PROVE Typed
      BY <2>5, <3>2 DEF StartOn, TypeOK, JobInv, Tasks, Answers
    <3>3. "respond" \in Labels /\ "send" \in Labels
      BY DEF Labels
    <3>4. CASE UNCHANGED tasks
      BY <3>4 DEF tasks, TypeOK, JobInv
    <3> QED
      BY <3>1, <3>2, <3>3, <3>4
  <2>8. faults' \in Nat
    BY <1>1 DEF RefuseRequest, Present, PresentFails, StoreFails, StoreWorks, TypeOK
  <2>9. UNCHANGED <<transport, outbound, history, outside, presses, crashes>>
    BY <1>1 DEF RefuseRequest, Present, PresentFails, Receive
  <2> QED
    BY <2>4, <2>6, <2>7, <2>8, <2>9 DEF TypeOK, S, transport, history, outside
<1>2. ASSUME pc["presenter"] # "idle" PROVE Prompt \in Requests
  BY <1>2 DEF JobInv, Prompt
<1>3. CASE ShowPrompt \/ PromptSent \/ PromptFails
  <2>1. shown' \in SUBSET Requests /\ disturbed' \in SUBSET Requests
    BY <1>2, <1>3 DEF ShowPrompt, PromptSent, PromptFails, history, outside, TypeOK
  <2>2. /\ pc' \in [Tasks -> Labels] /\ JobInv'
        /\ job' \in [Tasks -> (Requests \X Answers) \cup {NoJob}]
        /\ ack' \in [Tasks -> {"none", "ok", "failed"}]
    BY <1>3 DEF ShowPrompt, PromptSent, PromptFails, Goto, Finish, tasks, TypeOK,
        JobInv, Labels, Tasks
  <2>3. UNCHANGED <<transport, queues, store, written, asked, budget>>
    BY <1>3 DEF ShowPrompt, PromptSent, PromptFails, history, outside
  <2> QED
    BY <2>1, <2>2, <2>3 DEF TypeOK, transport, queues, store, budget
<1>4. CASE Withdraw
  <2>1. /\ live' \in SUBSET (Requests \X Decisions)
        /\ approval' \in [Requests -> Decisions \cup {"none", "pending", "undelivered"}]
        /\ faults' \in Nat
    <3>1. live' = live \ Buttons(Prompt)
      BY <1>4 DEF Withdraw
    <3>2. \/ approval' = approval
          \/ approval' = [approval EXCEPT ![Prompt] = "undelivered"]
      BY <1>4 DEF Withdraw
    <3>3. faults' = faults \/ faults' = faults + 1
      BY <1>4 DEF Withdraw, StoreWorks, StoreFails
    <3>4. approval' \in [Requests -> Decisions \cup {"none", "pending", "undelivered"}]
      BY <3>2 DEF TypeOK
    <3>5. live' \in SUBSET (Requests \X Decisions)
      BY <3>1 DEF TypeOK
    <3>6. faults' \in Nat
      BY <3>3 DEF TypeOK
    <3> QED
      BY <3>4, <3>5, <3>6
  <2>2. /\ pc' \in [Tasks -> Labels] /\ JobInv'
        /\ job' \in [Tasks -> (Requests \X Answers) \cup {NoJob}]
        /\ ack' \in [Tasks -> {"none", "ok", "failed"}]
    BY <1>4 DEF Withdraw, Goto, Finish, TypeOK, JobInv, Labels, Tasks
  <2> QED
    BY <1>4, <2>1, <2>2 DEF Withdraw, TypeOK, transport, queues, history, outside
<1>5. ASSUME NEW b \in Requests \X Decisions, Press(b) PROVE TypeOK' /\ JobInv'
  <2>1. /\ pc' \in [Tasks -> Labels] /\ JobInv'
        /\ job' \in [Tasks -> (Requests \X Answers) \cup {NoJob}]
    BY <1>5 DEF Press, TypeOK, JobInv, Labels, Tasks, Answers
  <2>2. live' \in SUBSET (Requests \X Decisions) /\ presses' \in Nat
    BY <1>5 DEF Press, TypeOK
  <2> QED
    BY <1>5, <2>1, <2>2 DEF Press, TypeOK, transport, queues, history, outside
<1>6. CASE Validate
  <2>1. Goto("chat", "respond") \/ Finish("chat")
    BY <1>6 DEF Validate
  <2>2. pc["chat"] # "idle"
    BY <1>6 DEF Validate
  <2>3. faults' = faults \/ faults' = faults + 1
    BY <1>6 DEF Validate, StoreWorks, StoreFails
  <2>4. /\ pc' \in [Tasks -> Labels] /\ JobInv'
        /\ job' \in [Tasks -> (Requests \X Answers) \cup {NoJob}]
        /\ ack' \in [Tasks -> {"none", "ok", "failed"}]
    BY <2>1, <2>2 DEF Goto, Finish, TypeOK, JobInv, Labels, Tasks
  <2>5. faults' \in Nat
    BY <2>3 DEF TypeOK
  <2>6. UNCHANGED <<transport, queues, store, history, outside, presses, crashes>>
    BY <1>6 DEF Validate
  <2> QED
    BY <2>4, <2>5, <2>6 DEF TypeOK, transport, queues, store, history, outside
<1>7. CASE Decide
  <2>1. job["chat"] \in Requests \X Decisions /\ Pressed \in Requests
    BY <1>7 DEF Decide, JobInv, Pressed
  <2>2. /\ live' \in SUBSET (Requests \X Decisions)
        /\ approval' \in [Requests -> Decisions \cup {"none", "pending", "undelivered"}]
        /\ disturbed' \in SUBSET Requests
        /\ faults' \in Nat
    <3>1. live' = live \/ live' = live \cup {job["chat"]}
      BY <1>7 DEF Decide
    <3>2. \/ approval' = approval
          \/ approval' = [approval EXCEPT ![Pressed] = job["chat"][2]]
      BY <1>7 DEF Decide
    <3>3. disturbed' = disturbed \/ disturbed' = disturbed \cup {Pressed}
      BY <1>7 DEF Decide
    <3>4. faults' = faults \/ faults' = faults + 1
      BY <1>7 DEF Decide, StoreWorks, StoreFails
    <3>5. approval' \in [Requests -> Decisions \cup {"none", "pending", "undelivered"}]
      BY <2>1, <3>2 DEF TypeOK
    <3>6. live' \in SUBSET (Requests \X Decisions) /\ disturbed' \in SUBSET Requests
      BY <2>1, <3>1, <3>3 DEF TypeOK
    <3>7. faults' \in Nat
      BY <3>4 DEF TypeOK
    <3> QED
      BY <3>5, <3>6, <3>7
  <2>3. /\ pc' \in [Tasks -> Labels] /\ JobInv'
        /\ job' \in [Tasks -> (Requests \X Answers) \cup {NoJob}]
        /\ ack' \in [Tasks -> {"none", "ok", "failed"}]
    BY <1>7 DEF Decide, Finish, TypeOK, JobInv, Labels, Tasks
  <2> QED
    BY <1>7, <2>2, <2>3 DEF Decide, TypeOK, transport, queues, outside
<1>8. CASE Restart
  <2>1. /\ generation' \in Nat /\ active' \in BOOLEAN /\ crashes' \in Nat
        /\ held' \in SUBSET Requests /\ disturbed' \in SUBSET Requests
    <3>1. generation' = 0 /\ active' = FALSE /\ held' = {}
      BY <1>8 DEF Restart
    <3>2. crashes' \in Nat
      BY <1>8 DEF Restart, TypeOK
    <3>3. disturbed' \in SUBSET Requests
      BY <1>8 DEF Restart, TypeOK
    <3> QED
      BY <3>1, <3>2, <3>3
  <2>2. /\ wire' \in Seq(Requests) /\ outbound' \in Seq(Replies)
        /\ inbox' \in Seq([request : Requests, generation : Nat])
    BY <1>8, EmptyQueue DEF Restart
  <2>3. Len(inbox') <= InboxCapacity /\ Len(outbound') <= OutboundCapacity
    BY <1>8, CapacityAssumption DEF Restart
  <2>4. /\ pc' \in [Tasks -> Labels] /\ JobInv'
        /\ job' \in [Tasks -> (Requests \X Answers) \cup {NoJob}]
        /\ ack' \in [Tasks -> {"none", "ok", "failed"}]
    BY <1>8 DEF Restart, Idle, JobInv, Labels, Tasks
  <2>5. UNCHANGED <<link, store, written, outside, presses, faults>>
    BY <1>8 DEF Restart
  <2> QED
    BY <2>1, <2>2, <2>3, <2>4, <2>5 DEF TypeOK, store, outside
<1> QED
  BY <1>1, <1>3, <1>4, <1>5, <1>6, <1>7, <1>8

LEMMA TypeStep == TypeOK /\ JobInv /\ [Next]_vars => TypeOK' /\ JobInv'
<1> SUFFICES ASSUME TypeOK, JobInv, [Next]_vars PROVE TypeOK' /\ JobInv'
  OBVIOUS
<1>1. CASE UNCHANGED vars
  BY <1>1 DEF vars, transport, queues, store, tasks, history, outside, budget,
      TypeOK, JobInv
<1>2. "chat" \in Tasks /\ "presenter" \in Tasks
  BY DEF Tasks
<1> QED
  BY <1>1, <1>2, TypeConnection, TypeReply, TypeTasks
  DEF Next, Presenter, Chat

------------------------------------------------------------------------------
(* The queue of replies and what is written. *)

\* The only steps that move the connection, the queue or the wire.
LEMMA QueueSteps ==
  ASSUME [Next]_vars
  PROVE  \/ Connect \/ ConnectFails \/ Disconnect \/ Restart
         \/ WriteReply \/ RefuseStaleReply \/ WriteFails
         \/ \E t \in Tasks : SendReply(t) \/ ReplyTimedOut(t)
         \/ UNCHANGED <<generation, active, link, outbound, written>>
<1> DEFINE Rest == UNCHANGED <<generation, active, link, outbound, written>>
<1>1. CASE UNCHANGED vars
  BY <1>1 DEF vars, transport, queues, history
<1>2. ASSUME NEW r \in Requests, Ask(r) PROVE Rest
  BY <1>2 DEF Ask, queues, history
<1>3. CASE ReadRequest \/ ForwardRequest
  BY <1>3 DEF ReadRequest, ForwardRequest, queues, history
<1>4. ASSUME NEW t \in Tasks, ReplyRefused(t) \/ ReplyFailed(t) \/ ReplyWritten(t)
      PROVE  Rest
  BY <1>4 DEF ReplyRefused, ReplyFailed, ReplyWritten, transport, queues, history
<1>5. CASE RefuseRequest \/ Present \/ PresentFails
  BY <1>5 DEF RefuseRequest, Present, PresentFails, Receive, transport, history
<1>6. CASE ShowPrompt \/ PromptSent \/ PromptFails \/ Withdraw
  BY <1>6 DEF ShowPrompt, PromptSent, PromptFails, Withdraw, transport, queues,
      history
<1>7. ASSUME NEW b \in Requests \X Decisions, Press(b) PROVE Rest
  BY <1>7 DEF Press, transport, queues, history
<1>8. CASE Validate \/ Decide
  BY <1>8 DEF Validate, Decide, transport, queues, history
<1>9. "chat" \in Tasks /\ "presenter" \in Tasks
  BY DEF Tasks
<1> QED
  BY <1>1, <1>2, <1>3, <1>4, <1>5, <1>6, <1>7, <1>8, <1>9
  DEF Next, Connection, Presenter, Chat, Reply

\* What taking the head of the queue does, and what writing it does.
LEMMA Take ==
  ASSUME TypeOK, WriteReply \/ RefuseStaleReply \/ WriteFails
  PROVE  /\ outbound # <<>> /\ outbound' = Tail(outbound)
         /\ Head(outbound) = outbound[1] /\ 1 \in DOMAIN outbound
         /\ \A i \in DOMAIN outbound' :
              i + 1 \in DOMAIN outbound /\ outbound'[i] = outbound[i + 1]
         /\ DOMAIN outbound \subseteq Nat /\ DOMAIN outbound' \subseteq Nat \ {0}
<1>1. outbound \in Seq(Replies) /\ outbound # <<>> /\ outbound' = Tail(outbound)
  BY DEF TypeOK, WriteReply, RefuseStaleReply, WriteFails
<1> QED
  BY <1>1, HeadTail

LEMMA Write ==
  ASSUME TypeOK, written' = Append(written, Entry(outbound[1])),
         1 \in DOMAIN outbound
  PROVE  /\ DOMAIN written' = DOMAIN written \cup {Len(written) + 1}
         /\ Len(written) + 1 \notin DOMAIN written
         /\ \A i \in DOMAIN written : written'[i] = written[i]
         /\ written'[Len(written) + 1] = Entry(outbound[1])
         /\ Entry(outbound[1]) \in Entries
<1>1. written \in Seq(Entries) /\ outbound \in Seq(Replies)
  BY DEF TypeOK
<1>2. outbound[1] \in Replies
  BY <1>1
<1>3. Entry(outbound[1]) \in Entries
  BY <1>2 DEF Entry, Replies, Entries, TypeOK
<1> QED
  BY <1>1, <1>3, Appending

\* Replies of an older generation are never written to a newer connection.
LEMMA QueueStep ==
  ASSUME TypeOK, QueueInv, ReplyDiesWithItsConnection, [Next]_vars
  PROVE  QueueInv' /\ ReplyDiesWithItsConnection'
<1>1. CASE UNCHANGED <<generation, active, link, outbound, written>>
  BY <1>1 DEF QueueInv, ReplyDiesWithItsConnection
<1>2. CASE Connect \/ ConnectFails \/ Disconnect
  <2>1. UNCHANGED <<outbound, written>>
    BY <1>2 DEF Connect, ConnectFails, Disconnect, queues, history
  <2>2. \A i \in DOMAIN outbound : outbound[i].generation \in Nat
    <3>1. outbound \in Seq(Replies)
      BY DEF TypeOK
    <3>2. \A i \in DOMAIN outbound : outbound[i] \in Replies
      BY <3>1
    <3> QED
      BY <3>2 DEF Replies
  <2>3. CASE generation' = generation + 1
    BY <2>1, <2>2, <2>3 DEF TypeOK, QueueInv, ReplyDiesWithItsConnection
  <2>4. CASE generation' = generation /\ active' = FALSE
    BY <2>1, <2>4 DEF QueueInv, ReplyDiesWithItsConnection
  <2> QED
    BY <1>2, <2>3, <2>4 DEF Connect, ConnectFails, Disconnect
<1>3. CASE Restart
  BY <1>3 DEF Restart, QueueInv, ReplyDiesWithItsConnection
<1>4. CASE WriteReply \/ RefuseStaleReply \/ WriteFails
  <2>1. generation' = generation /\ link' = link /\ (active' => active)
    BY <1>4 DEF WriteReply, RefuseStaleReply, WriteFails, transport
  <2>2. QueueInv'
    BY <1>4, <2>1, Take DEF QueueInv
  <2>3. CASE written' = written
    BY <2>2, <2>3 DEF ReplyDiesWithItsConnection
  <2>4. CASE /\ written' = Append(written, Entry(Head(outbound)))
             /\ active /\ Head(outbound).generation = generation
    <3>1. 1 \in DOMAIN outbound /\ Head(outbound) = outbound[1]
      BY <1>4, Take
    <3>2. outbound[1].queuedOn = link
      BY <2>4, <3>1 DEF QueueInv
    <3>3. Entry(outbound[1]).link = Entry(outbound[1]).queuedOn
      BY <3>2 DEF Entry
    <3> QED
      BY <2>2, <2>4, <3>1, <3>3, Write DEF ReplyDiesWithItsConnection
  <2> QED
    BY <1>4, <2>2, <2>3, <2>4 DEF WriteReply, RefuseStaleReply, WriteFails, history
<1>5. ASSUME NEW t \in Tasks, SendReply(t)
      PROVE  QueueInv' /\ ReplyDiesWithItsConnection'
  <2> DEFINE m == [request |-> job[t][1], answer |-> job[t][2],
                   generation |-> generation, waiter |-> t, queuedOn |-> link]
  <2>1. /\ outbound' = Append(outbound, m)
        /\ UNCHANGED <<generation, active, link, written>>
    BY <1>5 DEF SendReply, transport, history
  <2>2. outbound \in Seq(Replies) /\ generation \in Nat
    BY DEF TypeOK
  <2>3. /\ \A i \in DOMAIN outbound : outbound'[i] = outbound[i]
        /\ outbound'[Len(outbound) + 1] = m
        /\ DOMAIN outbound' = DOMAIN outbound \cup {Len(outbound) + 1}
    BY <2>1, <2>2
  <2>4. m.generation = generation /\ m.queuedOn = link
    OBVIOUS
  <2> HIDE DEF m
  <2> QED
    BY <2>1, <2>2, <2>3, <2>4 DEF QueueInv, ReplyDiesWithItsConnection
<1>6. ASSUME NEW t \in Tasks, ReplyTimedOut(t)
      PROVE  QueueInv' /\ ReplyDiesWithItsConnection'
  <2>1. UNCHANGED <<generation, active, link, written>>
    BY <1>6 DEF ReplyTimedOut, transport
  <2>2. /\ DOMAIN outbound' = DOMAIN outbound
        /\ \A i \in DOMAIN outbound :
             /\ outbound'[i].generation = outbound[i].generation
             /\ outbound'[i].queuedOn = outbound[i].queuedOn
    BY <1>6 DEF ReplyTimedOut, TypeOK, Replies
  <2> QED
    BY <2>1, <2>2 DEF QueueInv, ReplyDiesWithItsConnection
<1> QED
  BY <1>1, <1>2, <1>3, <1>4, <1>5, <1>6, QueueSteps

------------------------------------------------------------------------------
(* From the press of a button to the record of its decision. *)

\* The last reply in the queue after t has sent one.
LEMMA Send ==
  ASSUME TypeOK, NEW t \in Tasks, SendReply(t)
  PROVE  /\ DOMAIN outbound' = DOMAIN outbound \cup {Len(outbound) + 1}
         /\ \A i \in DOMAIN outbound : outbound'[i] = outbound[i]
         /\ outbound'[Len(outbound) + 1].waiter = t
         /\ outbound'[Len(outbound) + 1].request = job[t][1]
         /\ outbound'[Len(outbound) + 1].answer = job[t][2]
<1> DEFINE m == [request |-> job[t][1], answer |-> job[t][2],
                 generation |-> generation, waiter |-> t, queuedOn |-> link]
<1>1. outbound' = Append(outbound, m) /\ outbound \in Seq(Replies)
  BY DEF SendReply, TypeOK
<1>2. m.waiter = t /\ m.request = job[t][1] /\ m.answer = job[t][2]
  OBVIOUS
<1> HIDE DEF m
<1> QED
  BY <1>1, <1>2

LEMMA GiveUpQueue ==
  ASSUME TypeOK, NEW t \in Tasks, ReplyTimedOut(t)
  PROVE  /\ DOMAIN outbound' = DOMAIN outbound
         /\ \A i \in DOMAIN outbound :
              /\ outbound'[i].request = outbound[i].request
              /\ outbound'[i].answer = outbound[i].answer
              /\ outbound[i].waiter # t => outbound'[i].waiter = outbound[i].waiter
              /\ outbound'[i].waiter \in Tasks =>
                   outbound'[i].waiter = outbound[i].waiter /\ outbound[i].waiter # t
<1>1. outbound \in Seq(Replies)
  BY DEF TypeOK
<1>2. /\ DOMAIN outbound' = DOMAIN outbound
      /\ \A i \in DOMAIN outbound :
           outbound'[i] = IF outbound[i].waiter = t
                          THEN [outbound[i] EXCEPT !.waiter = Nobody]
                          ELSE outbound[i]
  BY DEF ReplyTimedOut
<1>3. \A i \in DOMAIN outbound : outbound[i] \in Replies
  BY <1>1
<1>4. Nobody \notin Tasks
  BY DEF Nobody, Tasks
<1> QED
  BY <1>2, <1>3, <1>4 DEF Replies

\* What a task does with its locals in a step of its own.
TaskStep(t) ==
    \/ SendReply(t)
    \/ /\ pc[t] = "wait" /\ ack[t] = "ok" /\ pc'[t] = "decide"
       /\ job'[t] = job[t]
    \/ pc'[t] \notin {"wait", "decide"} /\ ack'[t] = "none"

\* A task that does not take a step keeps its locals.
LEMMA TaskSteps ==
  ASSUME TypeOK, AckInv, [Next]_vars
  PROVE  \/ WriteReply \/ RefuseStaleReply \/ WriteFails
         \/ Restart
         \/ \E t \in Tasks :
              /\ TaskStep(t)
              /\ SendReply(t) \/ ReplyTimedOut(t) \/ UNCHANGED outbound
              /\ ReplyTimedOut(t) \/ pc[t] # "wait" \/ ack[t] # "none"
              /\ \A u \in Tasks \ {t} :
                   pc'[u] = pc[u] /\ job'[u] = job[u] /\ ack'[u] = ack[u]
              /\ UNCHANGED written
         \/ UNCHANGED <<pc, job, ack, outbound, written>>
<1> DEFINE Rest == UNCHANGED <<pc, job, ack, outbound, written>>
           Own(t) ==
              /\ TaskStep(t)
              /\ SendReply(t) \/ ReplyTimedOut(t) \/ UNCHANGED outbound
              /\ ReplyTimedOut(t) \/ pc[t] # "wait" \/ ack[t] # "none"
              /\ \A u \in Tasks \ {t} :
                   pc'[u] = pc[u] /\ job'[u] = job[u] /\ ack'[u] = ack[u]
              /\ UNCHANGED written
<1>1. CASE UNCHANGED vars
  BY <1>1 DEF vars, tasks, queues, history
<1>2. ASSUME Connect \/ ConnectFails \/ Disconnect \/ ReadRequest \/ ForwardRequest
             \/ \E r \in Requests : Ask(r)
      PROVE  Rest
  BY <1>2 DEF Connect, ConnectFails, Disconnect, ReadRequest, ForwardRequest, Ask,
      tasks, queues, history
<1>3. ASSUME NEW t \in Tasks, Reply(t) PROVE Own(t)
  <2>1. CASE SendReply(t)
    BY <1>3, <2>1 DEF SendReply, TaskStep, Goto, TypeOK, history
  <2>2. ASSUME GiveUp(t)
        PROVE  /\ TaskStep(t)
               /\ \A u \in Tasks \ {t} :
                    pc'[u] = pc[u] /\ job'[u] = job[u] /\ ack'[u] = ack[u]
    BY <2>2 DEF GiveUp, Finish, TaskStep, TypeOK
  <2>3. CASE ReplyRefused(t) \/ ReplyFailed(t)
    BY <2>2, <2>3 DEF ReplyRefused, ReplyFailed, queues, history
  <2>4. CASE ReplyTimedOut(t)
    BY <2>2, <2>4 DEF ReplyTimedOut
  <2>5. CASE ReplyWritten(t)
    BY <2>5 DEF ReplyWritten, TaskStep, Goto, Finish, TypeOK, queues, history
  <2> QED
    BY <1>3, <2>1, <2>3, <2>4, <2>5 DEF Reply
<1>4. "presenter" \in Tasks /\ "chat" \in Tasks /\ "chat" # "presenter"
  BY DEF Tasks
<1>5. \A t \in Tasks : pc[t] \notin {"wait", "decide"} => ack[t] = "none"
  BY DEF AckInv, Acked
<1>6. ASSUME RefuseRequest \/ Present PROVE Own("presenter")
  <2>1. /\ pc["presenter"] = "idle" /\ UNCHANGED <<outbound, written>>
        /\ \E l \in {"respond", "send"} : StartOn(Head(inbox), l)
    BY <1>6 DEF RefuseRequest, Present, Receive, history
  <2>2. /\ pc'["presenter"] \notin {"wait", "decide"} /\ ack' = ack
        /\ \A u \in Tasks \ {"presenter"} : pc'[u] = pc[u] /\ job'[u] = job[u]
    BY <1>4, <2>1 DEF StartOn, TypeOK
  <2> QED
    BY <1>4, <1>5, <2>1, <2>2 DEF TaskStep
<1>7. CASE PresentFails
  BY <1>7 DEF PresentFails, Receive, tasks, history
<1>8. CASE ShowPrompt
  BY <1>8 DEF ShowPrompt, tasks, queues, history
\* A task that ends or goes on to another of its steps.
<1>9. ASSUME NEW t \in Tasks, pc[t] \notin {"wait", "decide"},
             Finish(t) \/ \E l \in Labels \ {"wait", "decide"} : Goto(t, l)
      PROVE  /\ TaskStep(t)
             /\ \A u \in Tasks \ {t} :
                  pc'[u] = pc[u] /\ job'[u] = job[u] /\ ack'[u] = ack[u]
  BY <1>5, <1>9 DEF Finish, Goto, TaskStep, TypeOK
<1>10. /\ {"respond", "withdraw"} \subseteq Labels \ {"wait", "decide"}
       /\ {"send", "withdraw", "validate"} \cap {"wait", "decide"} = {}
  BY DEF Labels
<1>11. ASSUME PromptSent \/ PromptFails \/ Withdraw PROVE Own("presenter")
  <2>1. /\ pc["presenter"] \in {"send", "withdraw"}
        /\ UNCHANGED <<outbound, written>>
    BY <1>11 DEF PromptSent, PromptFails, Withdraw, queues, history
  <2>2. \/ Finish("presenter")
        \/ Goto("presenter", "withdraw") \/ Goto("presenter", "respond")
    BY <1>11 DEF PromptSent, PromptFails, Withdraw
  <2> QED
    BY <1>4, <1>9, <1>10, <2>1, <2>2
<1>12. ASSUME NEW b \in Requests \X Decisions, Press(b) PROVE Own("chat")
  BY <1>4, <1>5, <1>12 DEF Press, TaskStep, TypeOK, queues, history
<1>13. ASSUME Validate PROVE Own("chat")
  <2>1. pc["chat"] = "validate" /\ UNCHANGED <<outbound, written>>
    BY <1>13 DEF Validate, queues, history
  <2>2. Finish("chat") \/ Goto("chat", "respond")
    BY <1>13 DEF Validate
  <2> QED
    BY <1>4, <1>9, <1>10, <2>1, <2>2
<1>14. ASSUME Decide PROVE Own("chat")
  <2>1. pc["chat"] = "decide" /\ UNCHANGED <<outbound, written>> /\ Finish("chat")
    BY <1>14 DEF Decide, queues
  <2>2. /\ pc'["chat"] = "idle" /\ ack'["chat"] = "none"
        /\ \A u \in Tasks \ {"chat"} :
             pc'[u] = pc[u] /\ job'[u] = job[u] /\ ack'[u] = ack[u]
    BY <1>4, <2>1 DEF Finish, TypeOK
  <2> QED
    BY <2>1, <2>2 DEF TaskStep
<1> QED
  BY <1>1, <1>2, <1>3, <1>4, <1>6, <1>7, <1>8, <1>11, <1>12, <1>13, <1>14
  DEF Next, Connection, Presenter, Chat

\* Whom the step that takes the head of the queue acknowledges.
LEMMA Acknowledged ==
  ASSUME TypeOK, WriteReply \/ RefuseStaleReply \/ WriteFails
  PROVE  /\ UNCHANGED <<pc, job>>
         /\ \E outcome \in {"ok", "failed"} :
              /\ \A t \in Tasks :
                   ack'[t] = IF t = outbound[1].waiter THEN outcome ELSE ack[t]
              /\ outcome = "ok" => written' = Append(written, Entry(outbound[1]))
<1>1. Head(outbound) = outbound[1]
  BY Take
<1>2. UNCHANGED <<pc, job>>
  BY DEF WriteReply, RefuseStaleReply, WriteFails
<1>3. \/ /\ Acknowledge(outbound[1], "ok")
         /\ written' = Append(written, Entry(outbound[1]))
      \/ Acknowledge(outbound[1], "failed")
  BY <1>1 DEF WriteReply, RefuseStaleReply, WriteFails
<1>4. ASSUME NEW outcome, Acknowledge(outbound[1], outcome)
      PROVE  \A t \in Tasks :
               ack'[t] = IF t = outbound[1].waiter THEN outcome ELSE ack[t]
  BY <1>4 DEF Acknowledge
<1> QED
  BY <1>2, <1>3, <1>4

LEMMA WaitStep ==
  ASSUME TypeOK, JobInv, AckInv, WaitInv, [Next]_vars
  PROVE  WaitInv'
<1>1. CASE WriteReply \/ RefuseStaleReply \/ WriteFails
  <2>1. /\ \A i \in DOMAIN outbound' :
             i + 1 \in DOMAIN outbound /\ outbound'[i] = outbound[i + 1]
        /\ DOMAIN outbound' \subseteq Nat \ {0} /\ 1 \in DOMAIN outbound
    BY <1>1, Take
  <2>2. /\ UNCHANGED <<pc, job>>
        /\ \A t \in Tasks : t # outbound[1].waiter => ack'[t] = ack[t]
    BY <1>1, Acknowledged
  <2>3. ASSUME NEW i \in DOMAIN outbound', NEW t \in Tasks, outbound'[i].waiter = t
        PROVE  /\ pc'[t] = "wait" /\ ack'[t] = "none"
               /\ job'[t] = <<outbound'[i].request, outbound'[i].answer>>
    <3>1. outbound[i + 1].waiter = t /\ i + 1 \in DOMAIN outbound /\ i + 1 # 1
      BY <2>1, <2>3
    <3>2. outbound[1].waiter # t
      BY <2>1, <3>1 DEF WaitInv
    <3> QED
      BY <2>1, <2>2, <2>3, <3>1, <3>2 DEF WaitInv
  <2>4. ASSUME NEW i \in DOMAIN outbound', NEW j \in DOMAIN outbound',
               outbound'[i].waiter = outbound'[j].waiter, outbound'[i].waiter \in Tasks
        PROVE  i = j
    <3>1. i + 1 = j + 1
      BY <2>1, <2>4 DEF WaitInv
    <3>2. i \in Nat /\ j \in Nat
      BY <2>1
    <3> QED
      BY <3>1, <3>2
  <2> QED
    BY <2>3, <2>4 DEF WaitInv
<1>2. CASE Restart
  BY <1>2 DEF Restart, WaitInv
<1>3. ASSUME NEW t \in Tasks, SendReply(t),
             \A u \in Tasks \ {t} :
               pc'[u] = pc[u] /\ job'[u] = job[u] /\ ack'[u] = ack[u]
      PROVE  WaitInv'
  <2>1. /\ pc[t] = "respond" /\ pc'[t] = "wait"
        /\ ack'[t] = ack[t] /\ job'[t] = job[t]
    BY <1>3 DEF SendReply, Goto, TypeOK
  <2>2. ack[t] = "none" /\ job[t] = <<job[t][1], job[t][2]>>
    <3>1. job[t] \in Requests \X Answers
      BY <2>1 DEF JobInv, Tasks, Answers
    <3> QED
      BY <2>1, <3>1 DEF AckInv, Acked
  <2>3. \A i \in DOMAIN outbound : outbound[i].waiter # t
    BY <2>1 DEF WaitInv
  <2> DEFINE n == Len(outbound) + 1
  <2>4. /\ DOMAIN outbound' = DOMAIN outbound \cup {n}
        /\ \A i \in DOMAIN outbound : outbound'[i] = outbound[i]
        /\ outbound'[n].waiter = t
        /\ <<outbound'[n].request, outbound'[n].answer>> = job'[t]
    BY <1>3, <2>1, <2>2, Send
  <2> HIDE DEF n
  <2>5. \A i \in DOMAIN outbound, u \in Tasks : outbound'[i].waiter = u =>
          /\ u # t /\ pc'[u] = "wait" /\ ack'[u] = "none"
          /\ job'[u] = <<outbound'[i].request, outbound'[i].answer>>
    BY <1>3, <2>3, <2>4 DEF WaitInv
  <2>6. \A i \in DOMAIN outbound', u \in Tasks : outbound'[i].waiter = u =>
          /\ pc'[u] = "wait" /\ ack'[u] = "none"
          /\ job'[u] = <<outbound'[i].request, outbound'[i].answer>>
    BY <2>1, <2>2, <2>4, <2>5
  <2>7. \A i, j \in DOMAIN outbound' :
          outbound'[i].waiter = outbound'[j].waiter /\ outbound'[i].waiter \in Tasks
            => i = j
    BY <2>3, <2>4 DEF WaitInv
  <2> QED
    BY <2>6, <2>7 DEF WaitInv
<1>4. ASSUME NEW t \in Tasks, ReplyTimedOut(t),
             \A u \in Tasks \ {t} :
               pc'[u] = pc[u] /\ job'[u] = job[u] /\ ack'[u] = ack[u]
      PROVE  WaitInv'
  <2>1. \A i \in DOMAIN outbound', u \in Tasks : outbound'[i].waiter = u =>
          i \in DOMAIN outbound /\ outbound[i].waiter = u /\ u # t
    BY <1>4, GiveUpQueue
  <2>2. \A i \in DOMAIN outbound : /\ outbound'[i].request = outbound[i].request
                                  /\ outbound'[i].answer = outbound[i].answer
    BY <1>4, GiveUpQueue
  <2> QED
    BY <1>4, <2>1, <2>2 DEF WaitInv
<1>5. ASSUME NEW t \in Tasks, UNCHANGED outbound, pc[t] # "wait" \/ ack[t] # "none",
             \A u \in Tasks \ {t} :
               pc'[u] = pc[u] /\ job'[u] = job[u] /\ ack'[u] = ack[u]
      PROVE  WaitInv'
  <2>1. \A i \in DOMAIN outbound : outbound[i].waiter # t
    BY <1>5 DEF WaitInv
  <2> QED
    BY <1>5, <2>1 DEF WaitInv
<1>6. CASE UNCHANGED <<pc, job, ack, outbound, written>>
  BY <1>6 DEF WaitInv
<1>7. ASSUME NEW t \in Tasks, SendReply(t) PROVE pc[t] # "wait"
  BY <1>7 DEF SendReply
<1> QED
  BY <1>1, <1>2, <1>3, <1>4, <1>5, <1>6, <1>7, TaskSteps

\* What was written stays written.
LEMMA WrittenGrows ==
  ASSUME TypeOK, [Next]_vars
  PROVE  \A i \in DOMAIN written : i \in DOMAIN written' /\ written'[i] = written[i]
<1>1. CASE written' = written
  BY <1>1
<1>2. CASE /\ written' = Append(written, Entry(outbound[1]))
           /\ 1 \in DOMAIN outbound
  BY <1>2, Write
<1>3. CASE WriteReply \/ RefuseStaleReply \/ WriteFails
  <2>1. Head(outbound) = outbound[1] /\ 1 \in DOMAIN outbound
    BY <1>3, Take
  <2> QED
    BY <1>1, <1>2, <1>3, <2>1 DEF WriteReply, RefuseStaleReply, WriteFails, history
<1>4. CASE Connect \/ ConnectFails \/ Disconnect \/ Restart
  BY <1>1, <1>4 DEF Connect, ConnectFails, Disconnect, Restart, history
<1>5. ASSUME NEW t \in Tasks, SendReply(t) \/ ReplyTimedOut(t)
      PROVE  written' = written
  BY <1>5 DEF SendReply, ReplyTimedOut, history
<1> QED
  BY <1>1, <1>3, <1>4, <1>5, QueueSteps

LEMMA AckStep ==
  ASSUME TypeOK, WaitInv, AckInv, [Next]_vars
  PROVE  AckInv'
\* A task whose locals do not change.
<1>1. ASSUME NEW u \in Tasks, pc'[u] = pc[u], job'[u] = job[u], ack'[u] = ack[u]
      PROVE  Acked(u)'
  BY <1>1, WrittenGrows DEF AckInv, Acked, Delivered
<1>2. CASE WriteReply \/ RefuseStaleReply \/ WriteFails
  <2>1. UNCHANGED <<pc, job>> /\ 1 \in DOMAIN outbound
    BY <1>2, Acknowledged, Take
  <2>2. PICK outcome \in {"ok", "failed"} :
          /\ \A t \in Tasks :
               ack'[t] = IF t = outbound[1].waiter THEN outcome ELSE ack[t]
          /\ outcome = "ok" => written' = Append(written, Entry(outbound[1]))
    BY <1>2, Acknowledged
  <2>3. ASSUME outcome = "ok"
        PROVE  /\ Len(written) + 1 \in DOMAIN written'
               /\ written'[Len(written) + 1].request = outbound[1].request
               /\ written'[Len(written) + 1].answer = outbound[1].answer
    <3>1. /\ Len(written) + 1 \in DOMAIN written'
          /\ written'[Len(written) + 1] = Entry(outbound[1])
      BY <2>1, <2>2, <2>3, Write
    <3> QED
      BY <3>1 DEF Entry
  <2>4. ASSUME NEW t \in Tasks PROVE Acked(t)'
    <3>1. CASE t # outbound[1].waiter
      BY <1>1, <2>1, <2>2, <3>1
    <3>2. CASE t = outbound[1].waiter
      <4>1. /\ pc[t] = "wait" /\ ack'[t] = outcome
            /\ job[t] = <<outbound[1].request, outbound[1].answer>>
        BY <2>1, <2>2, <3>2 DEF WaitInv
      <4>2. job'[t][1] = outbound[1].request /\ job'[t][2] = outbound[1].answer
        BY <2>1, <4>1
      <4> QED
        BY <2>1, <2>3, <4>1, <4>2 DEF Acked, Delivered
    <3> QED
      BY <3>1, <3>2
  <2> QED
    BY <2>4 DEF AckInv
<1>3. CASE Restart
  BY <1>3 DEF Restart, Idle, AckInv, Acked
<1>4. ASSUME NEW t \in Tasks, TaskStep(t) PROVE Acked(t)'
  <2>1. CASE SendReply(t)
    <3>1. pc[t] = "respond" /\ pc'[t] = "wait" /\ ack'[t] = ack[t]
      BY <2>1 DEF SendReply, Goto, TypeOK
    <3> QED
      BY <3>1 DEF AckInv, Acked
  <2>2. CASE /\ pc[t] = "wait" /\ ack[t] = "ok" /\ pc'[t] = "decide"
             /\ job'[t] = job[t]
    BY <2>2, WrittenGrows DEF AckInv, Acked, Delivered
  <2>3. CASE pc'[t] \notin {"wait", "decide"} /\ ack'[t] = "none"
    BY <2>3 DEF Acked
  <2> QED
    BY <1>4, <2>1, <2>2, <2>3 DEF TaskStep
<1>5. ASSUME NEW t \in Tasks, TaskStep(t),
             \A u \in Tasks \ {t} :
               pc'[u] = pc[u] /\ job'[u] = job[u] /\ ack'[u] = ack[u]
      PROVE  AckInv'
  BY <1>1, <1>4, <1>5 DEF AckInv
<1>6. CASE UNCHANGED <<pc, job, ack, outbound, written>>
  BY <1>1, <1>6 DEF AckInv
<1> QED
  BY <1>2, <1>3, <1>5, <1>6, TaskSteps

\* Only a decision whose reply was acknowledged is recorded.
LEMMA ApprovalSteps ==
  ASSUME TypeOK, JobInv, AckInv, [Next]_vars, NEW r \in Requests
  PROVE  \/ approval'[r] = approval[r]
         \/ approval'[r] \in {"pending", "undelivered"}
         \/ Delivered(r, approval'[r])
<1> DEFINE Goal ==
      \/ approval'[r] = approval[r]
      \/ approval'[r] \in {"pending", "undelivered"}
      \/ Delivered(r, approval'[r])
<1>1. CASE approval' = approval
  BY <1>1
<1>2. ASSUME NEW q, NEW v,
             approval' = approval \/ approval' = [approval EXCEPT ![q] = v],
             v \in {"pending", "undelivered"}
      PROVE  Goal
  BY <1>2 DEF TypeOK
<1>3. CASE Decide
  <2>1. pc["chat"] = "decide" /\ "chat" \in Tasks
    BY <1>3 DEF Decide, Tasks
  <2>2. \/ approval' = approval
        \/ approval' = [approval EXCEPT ![Pressed] = job["chat"][2]]
    BY <1>3 DEF Decide
  <2>3. Delivered(Pressed, job["chat"][2])
    BY <2>1 DEF AckInv, Acked, Pressed
  <2> QED
    BY <2>2, <2>3 DEF TypeOK
<1>4. CASE RefuseRequest \/ Present \/ PresentFails \/ Withdraw
  <2>1. \E q \in {Head(inbox).request, Prompt}, v \in {"pending", "undelivered"} :
          approval' = approval \/ approval' = [approval EXCEPT ![q] = v]
    BY <1>4 DEF RefuseRequest, Present, PresentFails, Withdraw, store
  <2> QED
    BY <1>2, <2>1
<1>5. ASSUME NEW q \in Requests, Ask(q) PROVE approval' = approval
  BY <1>5 DEF Ask, store
<1>6. ASSUME NEW b \in Requests \X Decisions, Press(b) PROVE approval' = approval
  BY <1>6 DEF Press
<1>7. ASSUME NEW t \in Tasks, Reply(t) PROVE approval' = approval
  BY <1>7 DEF Reply, SendReply, ReplyRefused, ReplyFailed, ReplyTimedOut, ReplyWritten,
      GiveUp, store
<1>8. CASE Connect \/ ConnectFails \/ Disconnect \/ WriteFails \/ Connection \/ Restart
  BY <1>1, <1>8 DEF Connect, ConnectFails, Disconnect, WriteFails, Connection,
      ReadRequest, ForwardRequest, WriteReply, RefuseStaleReply, Restart, store
<1>9. CASE ShowPrompt \/ PromptSent \/ PromptFails \/ Validate \/ UNCHANGED vars
  BY <1>1, <1>9 DEF ShowPrompt, PromptSent, PromptFails, Validate, vars, store
<1>10. "chat" \in Tasks /\ "presenter" \in Tasks
  BY DEF Tasks
<1> QED
  BY <1>1, <1>3, <1>4, <1>5, <1>6, <1>7, <1>8, <1>9, <1>10
  DEF Next, Presenter, Chat

LEMMA DecisionStep ==
  ASSUME TypeOK, JobInv, AckInv, DecisionDelivered, [Next]_vars
  PROVE  DecisionDelivered'
<1> SUFFICES ASSUME NEW r \in Requests, approval'[r] \in Decisions
             PROVE  Delivered(r, approval[r])'
  BY DEF DecisionDelivered
<1>1. Delivered(r, approval'[r])
  BY ApprovalSteps, DecisionsAssumption DEF DecisionDelivered
<1> QED
  BY <1>1, WrittenGrows DEF Delivered

------------------------------------------------------------------------------
LEMMA IInvInit == Init => IInv
<1> SUFFICES ASSUME Init PROVE IInv
  OBVIOUS
<1>1. QueueInv /\ WaitInv /\ ReplyDiesWithItsConnection
  BY DEF Init, QueueInv, WaitInv, ReplyDiesWithItsConnection
<1>2. AckInv
  BY DEF Init, Idle, AckInv, Acked
<1>3. DecisionDelivered
  BY DecisionsAssumption DEF Init, DecisionDelivered
<1> QED
  BY <1>1, <1>2, <1>3, TypeInit DEF IInv

LEMMA IInvStep == IInv /\ [Next]_vars => IInv'
  BY TypeStep, QueueStep, WaitStep, AckStep, DecisionStep DEF IInv

\* Every variable keeps its type and both queues stay within the capacities
\* the client was configured with (lib.rs:596-625).
THEOREM TypeCorrect == Spec => []TypeOK
<1>1. Init => TypeOK /\ JobInv
  BY TypeInit
<1>2. TypeOK /\ JobInv /\ [Next]_vars => (TypeOK /\ JobInv)'
  BY TypeStep
<1> QED
  BY <1>1, <1>2, PTL DEF Spec

\* The inductive invariant: queued replies carry the connection they were
\* queued on, the task that waits for one is the task that sent it, and an
\* acknowledgement means that the reply was written.
THEOREM Invariance == Spec => []IInv
  BY IInvInit, IInvStep, PTL DEF Spec

\* handle_callback records and confirms a decision only when that decision was
\* written to the app-server, over reconnects, timeouts, faults and crashes.
THEOREM DecisionsDelivered == Spec => []DecisionDelivered
<1>1. IInv => DecisionDelivered
  BY DEF IInv
<1> QED
  BY <1>1, Invariance, PTL

\* A reply queued while one connection was up never goes out on the next.
THEOREM QueuedRepliesDie == Spec => []ReplyDiesWithItsConnection
<1>1. IInv => ReplyDiesWithItsConnection
  BY DEF IInv
<1> QED
  BY <1>1, Invariance, PTL

------------------------------------------------------------------------------
(* For any number of requests, buttons, reconnects, crashes and faults: a      *)
(* request no fault befell is answered at most once.                           *)
(*                                                                             *)
(* The argument: such a request is on its way to the presenter once, and only  *)
(* once shown can it be pressed.  What the presenter answers by itself was     *)
(* never shown, so that at most one of the two tasks answers it; and the       *)
(* chat's worker answers it again only if the answer before was neither        *)
(* written nor is still queued.                                                *)

\* Replies and inbox entries of a request.
Has(s, r) == \E i \in DOMAIN s : s[i].request = r
Once(s, r) == \A i, j \in DOMAIN s : s[i].request = r /\ s[j].request = r => i = j

OnWire(r) == \E i \in DOMAIN wire : wire[i] = r
OnceOnWire(r) == \A i, j \in DOMAIN wire : wire[i] = r /\ wire[j] = r => i = j

\* On its way to the presenter, at one place.
InPath(r) == OnWire(r) \/ r \in held \/ Has(inbox, r)
PathInv(r) ==
    /\ asked[r] = 0 => ~InPath(r)
    /\ OnceOnWire(r) /\ Once(inbox, r)
    /\ ~(OnWire(r) /\ r \in held) /\ ~(OnWire(r) /\ Has(inbox, r))
    /\ ~(r \in held /\ Has(inbox, r))

Unanswered(r) == ~Has(written, r) /\ ~Has(outbound, r)
Presenting(r) == pc["presenter"] # "idle" /\ Prompt = r
Chatting(r) == pc["chat"] # "idle" /\ Pressed = r

EarlyInv(r) ==
    asked[r] = 0 \/ InPath(r) => r \notin shown /\ Unanswered(r) /\ ~Presenting(r)

SingleInv(r) ==
    /\ Once(written, r) /\ Once(outbound, r) /\ ~(Has(written, r) /\ Has(outbound, r))
    /\ \A i \in DOMAIN outbound : outbound[i].request = r => outbound[i].waiter \in Tasks

PresenterInv(r) ==
    Presenting(r) => /\ pc["presenter"] # "wait" /\ r \notin shown => Unanswered(r)
                     /\ pc["presenter"] # "send" => r \notin shown

ChatInv(r) ==
    /\ r \in shown /\ approval[r] = "pending"
         /\ ~(Chatting(r) /\ pc["chat"] \in {"wait", "decide"}) => Unanswered(r)
    /\ Chatting(r) /\ pc["chat"] = "respond" => Unanswered(r)
    /\ Chatting(r) /\ pc["chat"] = "wait" /\ ack["chat"] = "failed" => Unanswered(r)
    /\ Chatting(r) /\ pc["chat"] = "wait" /\ ack["chat"] = "none" => ~Has(written, r)

AnswerInv(r) == PathInv(r) /\ EarlyInv(r) /\ SingleInv(r) /\ PresenterInv(r) /\ ChatInv(r)

ChatShown == pc["chat"] # "idle" => Pressed \in shown

\* asked[r] = 0 says that r was not asked.
LinkInv == active => link # 0

SingleAnswerInv ==
    /\ ChatShown /\ LinkInv
    /\ \A r \in Requests : r \notin disturbed => AnswerInv(r)

------------------------------------------------------------------------------
(* Queues. *)

LEMMA Shorter ==
  ASSUME NEW S, NEW s \in Seq(S), s # <<>>, NEW r, Once(s, r)
  PROVE  /\ Once(Tail(s), r)
         /\ Has(Tail(s), r) => Has(s, r)
         /\ Head(s).request = r => Has(s, r) /\ ~Has(Tail(s), r)
         /\ Head(s).request # r => (Has(Tail(s), r) <=> Has(s, r))
<1>1. /\ Head(s) = s[1] /\ 1 \in DOMAIN s
      /\ \A i \in DOMAIN Tail(s) : i \in Nat /\ i + 1 \in DOMAIN s /\ Tail(s)[i] = s[i + 1]
      /\ \A i \in DOMAIN s : i = 1 \/ (i - 1 \in DOMAIN Tail(s) /\ Tail(s)[i - 1] = s[i])
      /\ \A i \in DOMAIN Tail(s) : i + 1 # 1
      /\ \A i, j \in DOMAIN Tail(s) : i + 1 = j + 1 => i = j
  OBVIOUS
<1> HIDE DEF Has
<1>2. Once(Tail(s), r)
  BY <1>1 DEF Once
<1>3. Has(Tail(s), r) => Has(s, r)
  BY <1>1 DEF Has
<1>4. Head(s).request = r => Has(s, r) /\ ~Has(Tail(s), r)
  BY <1>1 DEF Has, Once
<1>5. Head(s).request # r => (Has(Tail(s), r) <=> Has(s, r))
  <2>1. ASSUME Head(s).request # r, NEW i \in DOMAIN s, s[i].request = r
        PROVE  Has(Tail(s), r)
    <3>1. i # 1
      BY <1>1, <2>1
    <3>2. i - 1 \in DOMAIN Tail(s) /\ Tail(s)[i - 1] = s[i]
      BY <1>1, <3>1
    <3> QED
      BY <2>1, <3>2 DEF Has
  <2> QED
    BY <1>3, <2>1 DEF Has
<1> QED
  BY <1>2, <1>3, <1>4, <1>5

LEMMA Longer ==
  ASSUME NEW S, NEW s \in Seq(S), NEW e \in S, NEW r
  PROVE  /\ Has(Append(s, e), r) <=> Has(s, r) \/ e.request = r
         /\ Once(s, r) /\ (e.request = r => ~Has(s, r)) => Once(Append(s, e), r)
<1>1. /\ DOMAIN Append(s, e) = DOMAIN s \cup {Len(s) + 1}
      /\ Append(s, e)[Len(s) + 1] = e
      /\ \A i \in DOMAIN s : Append(s, e)[i] = s[i]
  BY Appending
<1> QED
  BY <1>1 DEF Has, Once

------------------------------------------------------------------------------
(* The connection task. *)

LEMMA RestUnchanged ==
  ASSUME NEW r, EarlyInv(r), SingleInv(r), PresenterInv(r), ChatInv(r), PathInv(r)',
         UNCHANGED <<pc, job, ack, outbound, written, shown, approval>>,
         (asked'[r] = 0 \/ InPath(r)') => (asked[r] = 0 \/ InPath(r))
  PROVE  AnswerInv(r)'
<1>1. /\ Unanswered(r)' <=> Unanswered(r)
      /\ Presenting(r)' <=> Presenting(r)
      /\ Chatting(r)' <=> Chatting(r)
  BY DEF Unanswered, Has, Presenting, Chatting, Prompt, Pressed
<1>2. EarlyInv(r)'
  BY <1>1 DEF EarlyInv
<1>3. SingleInv(r)'
  BY DEF SingleInv, Once, Has
<1>4. PresenterInv(r)' /\ ChatInv(r)'
  BY <1>1 DEF PresenterInv, ChatInv, Has
<1> QED
  BY <1>2, <1>3, <1>4 DEF AnswerInv

LEMMA PathAnswer ==
  ASSUME IInv, LinkInv, NEW r \in Requests, AnswerInv(r),
         \/ Connect \/ ConnectFails \/ Disconnect \/ ReadRequest \/ ForwardRequest
         \/ \E q \in Requests : Ask(q)
  PROVE  AnswerInv(r)'
<1> USE DEF transport, queues, store, tasks, history, outside
<1>t. /\ wire \in Seq(Requests) /\ inbox \in Seq([request : Requests, generation : Nat])
      /\ generation \in Nat /\ link \in Nat /\ held \subseteq Requests
      /\ asked \in [Requests -> Nat]
  BY DEF IInv, TypeOK
<1>u. UNCHANGED <<pc, job, ack, outbound, written, shown, approval>>
  BY DEF Connect, ConnectFails, Disconnect, ReadRequest, ForwardRequest, Ask
<1>p. PathInv(r) /\ EarlyInv(r) /\ SingleInv(r) /\ PresenterInv(r) /\ ChatInv(r)
  BY DEF AnswerInv
<1> SUFFICES /\ PathInv(r)'
             /\ (asked'[r] = 0 \/ InPath(r)') => (asked[r] = 0 \/ InPath(r))
  BY <1>u, <1>p, RestUnchanged
<1>1. CASE Connect \/ ConnectFails
  BY <1>1, <1>p DEF Connect, ConnectFails, PathInv, InPath, OnWire, OnceOnWire, Has, Once
<1>2. CASE Disconnect
  BY <1>2, <1>p DEF Disconnect, PathInv, InPath, OnWire, OnceOnWire, Has, Once
<1>3. CASE ReadRequest
  <2>1. /\ held = {} /\ held' = {Head(wire)} /\ wire' = Tail(wire) /\ wire # <<>>
        /\ UNCHANGED <<asked, inbox>>
    BY <1>3 DEF ReadRequest
  <2>2. /\ Head(wire) = wire[1] /\ 1 \in DOMAIN wire
        /\ \A i \in DOMAIN Tail(wire) :
             i \in Nat /\ i + 1 \in DOMAIN wire /\ i + 1 # 1 /\ Tail(wire)[i] = wire[i + 1]
        /\ \A i, j \in DOMAIN Tail(wire) : i + 1 = j + 1 => i = j
    BY <1>t, <2>1
  <2>3. /\ OnceOnWire(r)' /\ (OnWire(r)' => OnWire(r)) /\ (r \in held' => OnWire(r))
        /\ ~(OnWire(r)' /\ r \in held')
    BY <1>p, <2>1, <2>2 DEF PathInv, OnceOnWire, OnWire
  <2> QED
    BY <1>p, <2>1, <2>3 DEF PathInv, InPath, Has, Once
<1>4. CASE ForwardRequest
  <2>1. PICK q \in held : inbox' = Append(inbox, [request |-> q, generation |-> generation])
    BY <1>4 DEF ForwardRequest
  <2>2. held' = {} /\ UNCHANGED <<asked, wire>>
    BY <1>4 DEF ForwardRequest
  <2> DEFINE e == [request |-> q, generation |-> generation]
             longer == Append(inbox, e)
             Places == [request : Requests, generation : Nat]
  <2>3. e \in Places /\ inbox \in Seq(Places) /\ e.request = q
    BY <1>t
  <2>5. inbox' = longer
    BY <2>1
  <2> HIDE DEF e, Places
  <2>4. /\ Has(longer, r) <=> Has(inbox, r) \/ e.request = r
        /\ Once(inbox, r) /\ (e.request = r => ~Has(inbox, r)) => Once(longer, r)
    BY <2>3, Longer
  <2> HIDE DEF longer
  <2>6. (Has(inbox, r)' <=> Has(longer, r)) /\ (Once(inbox, r)' <=> Once(longer, r))
    BY <2>5 DEF Has, Once
  <2>7. OnWire(r)' = OnWire(r) /\ OnceOnWire(r)' = OnceOnWire(r)
    BY <2>2 DEF OnWire, OnceOnWire
  <2> QED
    BY <1>p, <2>2, <2>3, <2>4, <2>6, <2>7 DEF PathInv, InPath
<1>5. ASSUME NEW q \in Requests, Ask(q)
      PROVE  /\ PathInv(r)'
             /\ (asked'[r] = 0 \/ InPath(r)') => (asked[r] = 0 \/ InPath(r))
  <2>1. /\ asked[q] = 0 /\ asked' = [asked EXCEPT ![q] = link] /\ wire' = Append(wire, q)
        /\ UNCHANGED <<held, inbox>>
    BY <1>5 DEF Ask
  <2>2. /\ DOMAIN wire' = DOMAIN wire \cup {Len(wire) + 1} /\ Len(wire) + 1 \notin DOMAIN wire
        /\ wire'[Len(wire) + 1] = q
        /\ \A i \in DOMAIN wire : wire'[i] = wire[i]
    BY <1>t, <2>1, Appending
  <2>3. CASE q = r
    <3>1. ~InPath(r)
      BY <1>p, <2>1, <2>3 DEF PathInv
    <3>2. link # 0
      BY <1>5 DEF Ask, LinkInv
    <3> QED
      BY <1>p, <1>t, <2>1, <2>2, <2>3, <3>1, <3>2 DEF PathInv, InPath, OnWire, OnceOnWire, Has, Once
  <2>4. CASE q # r
    <3>1. OnWire(r)' <=> OnWire(r)
      BY <2>2, <2>4 DEF OnWire
    <3>2. OnceOnWire(r)'
      BY <1>p, <2>2, <2>4 DEF OnceOnWire, PathInv
    <3>3. asked'[r] = asked[r]
      BY <1>t, <2>1, <2>4
    <3> QED
      BY <1>p, <2>1, <3>1, <3>2, <3>3 DEF PathInv, InPath, Has, Once
  <2> QED
    BY <2>3, <2>4
<1> QED
  BY <1>1, <1>2, <1>3, <1>4, <1>5

\* The oldest reply leaves the queue, to be written or refused.
LEMMA HeadAnswer ==
  ASSUME IInv, ChatShown, NEW r \in Requests, AnswerInv(r),
         NEW outcome \in {"ok", "failed"},
         outbound # <<>>, outbound' = Tail(outbound), Acknowledge(Head(outbound), outcome),
         UNCHANGED <<pc, job, shown, approval, asked, held, inbox>>,
         wire' = wire \/ wire' = <<>>,
         \/ written' = written /\ outcome = "failed"
         \/ /\ written' = Append(written, Entry(Head(outbound)))
            /\ outcome = "ok" \/ Head(outbound).request # r
  PROVE  AnswerInv(r)'
<1> DEFINE m == Head(outbound)
           e == Entry(m)
           longer == Append(written, e)
           rest == Tail(outbound)
<1>p. PathInv(r) /\ EarlyInv(r) /\ SingleInv(r) /\ PresenterInv(r) /\ ChatInv(r)
  BY DEF AnswerInv
<1>t. /\ outbound \in Seq(Replies) /\ written \in Seq(Entries) /\ link \in Nat
      /\ ack \in [Tasks -> {"none", "ok", "failed"}]
  BY DEF IInv, TypeOK
<1>m. /\ m \in Replies /\ 1 \in DOMAIN outbound /\ m = outbound[1]
      /\ \A i \in DOMAIN rest : i + 1 \in DOMAIN outbound /\ rest[i] = outbound[i + 1]
  BY <1>t, HeadTail
<1>e. e \in Entries /\ e.request = m.request
  BY <1>m, <1>t DEF Entry, Entries, Replies
<1>w. m.waiter \in Tasks =>
        pc[m.waiter] = "wait" /\ ack[m.waiter] = "none" /\ job[m.waiter][1] = m.request
  <2> HIDE DEF m
  <2>1. ASSUME m.waiter \in Tasks
        PROVE  /\ pc[m.waiter] = "wait" /\ ack[m.waiter] = "none"
               /\ job[m.waiter] = <<m.request, m.answer>>
    BY <1>m, <2>1 DEF IInv, WaitInv
  <2> QED
    BY <2>1
<1>a. /\ m.waiter # "chat" => ack'["chat"] = ack["chat"]
      /\ m.waiter = "chat" => ack'["chat"] = outcome
  BY <1>t DEF Acknowledge, Tasks
<1>s. /\ Once(rest, r)
      /\ m.request = r => Has(outbound, r) /\ ~Has(rest, r)
      /\ m.request # r => (Has(rest, r) <=> Has(outbound, r))
  BY <1>p, <1>t, Shorter DEF SingleInv
<1>l. /\ Has(longer, r) <=> Has(written, r) \/ m.request = r
      /\ m.request = r /\ ~Has(written, r) => Once(longer, r)
      /\ m.request # r => Once(longer, r)
  <2> HIDE DEF e, m
  <2> QED
    BY <1>p, <1>t, <1>e, Longer DEF SingleInv
<1>v. \A i \in DOMAIN rest : rest[i].request = r => rest[i].waiter \in Tasks
  BY <1>p, <1>m DEF SingleInv
<1>o. \/ written' = written /\ outcome = "failed"
      \/ written' = longer /\ (outcome = "ok" \/ m.request # r)
  OBVIOUS
<1> HIDE DEF longer, rest, e, m
<1>n. /\ outbound' = rest
      /\ \/ written' = written /\ outcome = "failed"
         \/ written' = longer /\ (outcome = "ok" \/ m.request # r)
  BY <1>o DEF rest
<1>1. /\ Has(outbound, r)' <=> Has(rest, r)
      /\ Once(outbound, r)' <=> Once(rest, r)
      /\ written' = written => (Has(written, r)' <=> Has(written, r))
      /\ written' = written => (Once(written, r)' <=> Once(written, r))
      /\ written' = longer => (Has(written, r)' <=> Has(longer, r))
      /\ written' = longer => (Once(written, r)' <=> Once(longer, r))
  BY <1>n DEF Has, Once
<1>2. /\ Presenting(r)' <=> Presenting(r)
      /\ Chatting(r)' <=> Chatting(r)
  BY DEF Presenting, Chatting, Prompt, Pressed
<1>3. PathInv(r)' /\ (InPath(r)' => InPath(r))
  BY <1>p DEF PathInv, InPath, OnWire, OnceOnWire, Has, Once
<1>4. SingleInv(r)'
  <2>1. \A i \in DOMAIN outbound' : outbound'[i].request = r => outbound'[i].waiter \in Tasks
    BY <1>v, <1>n
  <2>2. Once(written, r)' /\ Once(outbound, r)' /\ ~(Has(written, r)' /\ Has(outbound, r)')
    BY <1>p, <1>s, <1>l, <1>n, <1>1 DEF SingleInv
  <2> QED
    BY <2>1, <2>2 DEF SingleInv
<1>5. Unanswered(r) => Unanswered(r)'
  BY <1>s, <1>l, <1>n, <1>1 DEF Unanswered
<1>6. EarlyInv(r)' /\ PresenterInv(r)'
  BY <1>p, <1>2, <1>3, <1>5 DEF EarlyInv, PresenterInv
<1>7. ChatInv(r)'
  <2>1. CASE m.request # r
    <3>1. Has(written, r)' <=> Has(written, r)
      BY <1>l, <1>n, <1>1, <2>1
    <3>2. Chatting(r) /\ pc["chat"] = "wait" => ack'["chat"] = ack["chat"]
      BY <1>w, <1>a, <2>1 DEF Chatting, Pressed, Tasks
    <3> QED
      BY <1>p, <1>2, <1>5, <3>1, <3>2 DEF ChatInv
  <2>2. CASE m.request = r /\ written' = written
    <3>1. Unanswered(r)' /\ ~Has(written, r)'
      BY <1>p, <1>s, <1>1, <2>2 DEF Unanswered, SingleInv
    <3> QED
      BY <3>1 DEF ChatInv
  <2>3. CASE m.request = r /\ written' = longer /\ outcome = "ok"
    <3>1. m.waiter \in Tasks
      BY <1>p, <1>m, <2>3 DEF SingleInv
    <3>2. CASE m.waiter = "chat"
      BY <1>p, <1>2, <1>5, <1>a, <2>3, <3>2 DEF ChatInv
    <3>3. CASE m.waiter = "presenter"
      <4>1. Presenting(r) /\ r \notin shown
        BY <1>p, <1>w, <2>3, <3>1, <3>3 DEF Presenting, Prompt, PresenterInv
      <4>2. ~Chatting(r)
        BY <4>1 DEF Chatting, ChatShown
      <4> QED
        BY <1>2, <4>1, <4>2 DEF ChatInv
    <3> QED
      BY <3>1, <3>2, <3>3 DEF Tasks
  <2> QED
    BY <1>n, <2>1, <2>2, <2>3
<1> QED
  BY <1>3, <1>4, <1>6, <1>7 DEF AnswerInv

LEMMA WriteAnswer ==
  ASSUME IInv, ChatShown, NEW r \in Requests, AnswerInv(r), r \notin disturbed',
         WriteReply \/ RefuseStaleReply \/ WriteFails
  PROVE  AnswerInv(r)'
<1> USE DEF transport, queues, store, tasks, history, outside
<1>1. CASE WriteReply
  BY <1>1, HeadAnswer DEF WriteReply
<1>2. CASE RefuseStaleReply
  BY <1>2, HeadAnswer DEF RefuseStaleReply
<1>3. CASE WriteFails
  BY <1>3, HeadAnswer DEF WriteFails
<1> QED
  BY <1>1, <1>2, <1>3


------------------------------------------------------------------------------
(* A task sends a reply and waits for it. *)

LEMMA ReplyAnswer ==
  ASSUME IInv, ChatShown, NEW r \in Requests, AnswerInv(r), r \notin disturbed',
         NEW t \in Tasks, Reply(t)
  PROVE  AnswerInv(r)'
<1> USE DEF transport, queues, store, tasks, history, outside
<1>p. PathInv(r) /\ EarlyInv(r) /\ SingleInv(r) /\ PresenterInv(r) /\ ChatInv(r)
  BY DEF AnswerInv
<1>t. /\ outbound \in Seq(Replies) /\ pc \in [Tasks -> Labels]
      /\ ack \in [Tasks -> {"none", "ok", "failed"}] /\ generation \in Nat /\ link \in Nat
      /\ job \in [Tasks -> (Requests \X Answers) \cup {NoJob}]
      /\ t = "chat" \/ t = "presenter"
      /\ "chat" \in Tasks /\ "presenter" \in Tasks
  BY DEF IInv, TypeOK, Tasks
<1>u. UNCHANGED <<wire, held, inbox, asked, shown, written, approval>>
  BY DEF Reply, SendReply, ReplyRefused, ReplyFailed, ReplyTimedOut, ReplyWritten, GiveUp
<1>3. PathInv(r)' /\ (InPath(r)' <=> InPath(r))
  BY <1>p, <1>u DEF PathInv, InPath, OnWire, OnceOnWire, Has, Once
<1>w. (Has(written, r)' <=> Has(written, r)) /\ (Once(written, r)' <=> Once(written, r))
  BY <1>u DEF Has, Once
<1>c. ~(Chatting(r) /\ r \notin shown)
  BY DEF Chatting, ChatShown
<1>1. CASE SendReply(t)
  <2> DEFINE e == [request |-> job[t][1], answer |-> job[t][2],
                   generation |-> generation, waiter |-> t, queuedOn |-> link]
             longer == Append(outbound, e)
  <2>1. /\ outbound' = longer /\ pc[t] = "respond" /\ pc' = [pc EXCEPT ![t] = "wait"]
        /\ UNCHANGED <<job, ack>>
    BY <1>1 DEF SendReply, Goto
  <2>2. job[t] \in Requests \X Answers
    BY <1>t, <2>1 DEF IInv, JobInv, Answers, Tasks
  <2>3. e \in Replies /\ e.request = job[t][1] /\ e.waiter = t
    BY <1>t, <2>2 DEF Replies
  <2>4. ack[t] = "none"
    BY <2>1 DEF IInv, AckInv, Acked
  <2>5. /\ DOMAIN longer = DOMAIN outbound \cup {Len(outbound) + 1}
        /\ longer[Len(outbound) + 1] = e
        /\ \A i \in DOMAIN outbound : longer[i] = outbound[i]
    <3> HIDE DEF e
    <3> QED
      BY <1>t, <2>3, Appending
  <2> HIDE DEF e
  <2>6. /\ Has(longer, r) <=> Has(outbound, r) \/ e.request = r
        /\ e.request = r /\ ~Has(outbound, r) => Once(longer, r)
        /\ e.request # r => Once(longer, r)
    BY <1>p, <1>t, <2>3, Longer DEF SingleInv
  <2>7. \A i \in DOMAIN longer : longer[i].request = r => longer[i].waiter \in Tasks
    BY <1>p, <2>3, <2>5 DEF SingleInv
  <2> HIDE DEF longer
  <2>8. (Has(outbound, r)' <=> Has(longer, r)) /\ (Once(outbound, r)' <=> Once(longer, r))
    BY <2>1 DEF Has, Once
  <2>9. /\ Presenting(r)' <=> Presenting(r)
        /\ Chatting(r)' <=> Chatting(r)
    BY <1>t, <2>1 DEF Presenting, Chatting, Prompt, Pressed
  <2>10. CASE job[t][1] = r
    <3>1. /\ t = "chat" => Chatting(r)
          /\ t = "presenter" => Presenting(r) /\ r \notin shown
      BY <1>p, <2>1, <2>10 DEF Chatting, Pressed, Presenting, Prompt, PresenterInv
    <3>2. Unanswered(r)
      BY <1>p, <1>t, <2>1, <3>1 DEF ChatInv, PresenterInv
    <3>3. SingleInv(r)'
      BY <1>w, <1>p, <2>1, <2>3, <2>6, <2>7, <2>8, <2>10, <3>2 DEF SingleInv, Unanswered
    <3>4. EarlyInv(r)'
      BY <1>p, <1>t, <1>u, <1>3, <1>c, <3>1 DEF EarlyInv
    <3>5. PresenterInv(r)'
      BY <1>p, <1>t, <1>u, <1>c, <2>1, <2>9, <3>1 DEF PresenterInv
    <3>6. ChatInv(r)'
      BY <1>p, <1>t, <1>u, <1>c, <1>w, <2>1, <2>4, <2>9, <3>1, <3>2 DEF ChatInv, Unanswered
    <3> QED
      BY <1>3, <3>3, <3>4, <3>5, <3>6 DEF AnswerInv
  <2>11. CASE job[t][1] # r
    <3>1. /\ Has(outbound, r)' <=> Has(outbound, r)
          /\ Once(outbound, r)'
      BY <2>3, <2>6, <2>8, <2>11
    <3>2. Unanswered(r)' <=> Unanswered(r)
      BY <1>w, <3>1 DEF Unanswered
    <3>3. /\ t = "chat" => ~Chatting(r)
          /\ t = "presenter" => ~Presenting(r)
      BY <2>11 DEF Chatting, Pressed, Presenting, Prompt
    <3>4. SingleInv(r)'
      BY <1>w, <1>p, <2>1, <2>7, <3>1 DEF SingleInv
    <3>5. EarlyInv(r)' /\ PresenterInv(r)'
      BY <1>p, <1>t, <1>u, <1>3, <2>1, <2>9, <3>2, <3>3 DEF EarlyInv, PresenterInv
    <3>6. ChatInv(r)'
      BY <1>p, <1>t, <1>u, <1>w, <2>1, <2>9, <3>2, <3>3 DEF ChatInv
    <3> QED
      BY <1>3, <3>4, <3>5, <3>6 DEF AnswerInv
  <2> QED
    BY <2>10, <2>11
<1>2. CASE ReplyRefused(t) \/ ReplyFailed(t) \/ ReplyTimedOut(t)
  <2>1. /\ pc' = [pc EXCEPT ![t] = "idle"] /\ job' = [job EXCEPT ![t] = NoJob]
        /\ ack' = [ack EXCEPT ![t] = "none"]
    BY <1>2 DEF ReplyRefused, ReplyFailed, ReplyTimedOut, GiveUp, Finish
  <2>2. /\ Presenting(r)' <=> Presenting(r) /\ t # "presenter"
        /\ Chatting(r)' <=> Chatting(r) /\ t # "chat"
    BY <1>t, <2>1 DEF Presenting, Chatting, Prompt, Pressed
  <2>3. /\ t # "chat" => pc'["chat"] = pc["chat"] /\ ack'["chat"] = ack["chat"]
        /\ t # "presenter" => pc'["presenter"] = pc["presenter"]
    BY <1>t, <2>1
  <2>4. /\ DOMAIN outbound' = DOMAIN outbound
        /\ \A i \in DOMAIN outbound : outbound'[i].request = outbound[i].request
        /\ \A i \in DOMAIN outbound :
             outbound[i].request = r => outbound'[i].waiter = outbound[i].waiter
    <3>1. CASE ReplyTimedOut(t)
      <4>1. job[t][1] # r
        BY <3>1 DEF ReplyTimedOut
      <4>2. \A i \in DOMAIN outbound : outbound[i].waiter = t => outbound[i].request # r
        BY <4>1 DEF IInv, WaitInv
      <4>3. outbound' = [i \in DOMAIN outbound |->
                          IF outbound[i].waiter = t
                          THEN [outbound[i] EXCEPT !.waiter = Nobody]
                          ELSE outbound[i]]
        BY <3>1 DEF ReplyTimedOut
      <4>4. \A i \in DOMAIN outbound : outbound[i] \in Replies
        BY <1>t
      <4>5. \A i \in DOMAIN outbound : outbound'[i].request = outbound[i].request
        BY <4>3, <4>4 DEF Replies
      <4> QED
        BY <4>2, <4>3, <4>5
    <3> QED
      BY <1>2, <3>1 DEF ReplyRefused, ReplyFailed
  <2>5. (Has(outbound, r)' <=> Has(outbound, r)) /\ (Once(outbound, r)' <=> Once(outbound, r))
    BY <2>4 DEF Has, Once
  <2>6. Unanswered(r)' <=> Unanswered(r)
    BY <1>w, <2>5 DEF Unanswered
  <2>7. SingleInv(r)'
    BY <1>w, <1>p, <2>4, <2>5 DEF SingleInv
  <2>8. EarlyInv(r)' /\ PresenterInv(r)'
    BY <1>p, <1>u, <1>3, <2>2, <2>3, <2>6 DEF EarlyInv, PresenterInv
  <2>9. Chatting(r) /\ t = "chat" => Unanswered(r)
    <3>1. CASE ReplyRefused(t)
      BY <1>p, <3>1 DEF ReplyRefused, ChatInv
    <3>2. CASE ReplyFailed(t)
      BY <1>p, <3>2 DEF ReplyFailed, ChatInv
    <3>3. CASE ReplyTimedOut(t)
      BY <3>3 DEF ReplyTimedOut, Chatting, Pressed
    <3> QED
      BY <1>2, <3>1, <3>2, <3>3
  <2>10. ChatInv(r)'
    BY <1>p, <1>u, <1>w, <2>1, <2>2, <2>3, <2>6, <2>9 DEF ChatInv
  <2> QED
    BY <1>3, <2>7, <2>8, <2>10 DEF AnswerInv
<1>4. CASE ReplyWritten(t)
  <2>1. /\ UNCHANGED outbound /\ pc[t] = "wait" /\ ack[t] = "ok"
        /\ \/ /\ t = "chat" /\ pc' = [pc EXCEPT ![t] = "decide"]
              /\ UNCHANGED <<job, ack>>
           \/ /\ t = "presenter" /\ pc' = [pc EXCEPT ![t] = "idle"]
              /\ job' = [job EXCEPT ![t] = NoJob] /\ ack' = [ack EXCEPT ![t] = "none"]
    BY <1>4, <1>t DEF ReplyWritten, Goto, Finish
  <2>2. /\ Presenting(r)' <=> Presenting(r) /\ t # "presenter"
        /\ Chatting(r)' <=> Chatting(r)
    BY <1>t, <2>1 DEF Presenting, Chatting, Prompt, Pressed
  <2>3. /\ t # "chat" => pc'["chat"] = pc["chat"] /\ ack'["chat"] = ack["chat"]
        /\ t # "presenter" => pc'["presenter"] = pc["presenter"]
        /\ t = "chat" => pc["chat"] = "wait" /\ pc'["chat"] = "decide"
    BY <1>t, <2>1
  <2>4. (Has(outbound, r)' <=> Has(outbound, r)) /\ (Once(outbound, r)' <=> Once(outbound, r))
    BY <2>1 DEF Has, Once
  <2>5. Unanswered(r)' <=> Unanswered(r)
    BY <1>w, <2>4 DEF Unanswered
  <2>6. SingleInv(r)'
    BY <1>w, <1>p, <2>1, <2>4 DEF SingleInv
  <2>7. EarlyInv(r)' /\ PresenterInv(r)'
    BY <1>p, <1>u, <1>3, <2>2, <2>3, <2>5 DEF EarlyInv, PresenterInv
  <2>8. ChatInv(r)'
    BY <1>p, <1>u, <1>w, <2>2, <2>3, <2>5 DEF ChatInv
  <2> QED
    BY <1>3, <2>6, <2>7, <2>8 DEF AnswerInv
<1> QED
  BY <1>1, <1>2, <1>4 DEF Reply


------------------------------------------------------------------------------
(* The tasks' other steps, which neither queue nor write a reply. *)

LEMMA PresenterAnswer ==
  ASSUME IInv, ChatShown, NEW r \in Requests, AnswerInv(r), r \notin disturbed',
         RefuseRequest \/ Present \/ PresentFails
  PROVE  AnswerInv(r)'
<1> USE DEF transport, queues, store, tasks, history, outside
<1> DEFINE h == Head(inbox).request
           Places == [request : Requests, generation : Nat]
<1>p. PathInv(r) /\ EarlyInv(r) /\ SingleInv(r) /\ PresenterInv(r) /\ ChatInv(r)
  BY DEF AnswerInv
<1>t. /\ pc \in [Tasks -> Labels] /\ job \in [Tasks -> (Requests \X Answers) \cup {NoJob}]
      /\ approval \in [Requests -> Decisions \cup {"none", "pending", "undelivered"}]
      /\ inbox \in Seq(Places)
      /\ "chat" \in Tasks /\ "presenter" \in Tasks
  BY DEF IInv, TypeOK, Tasks
<1>r. /\ inbox # <<>> /\ inbox' = Tail(inbox) /\ pc["presenter"] = "idle"
      /\ UNCHANGED <<wire, held, asked, shown, written, outbound, ack>>
  BY DEF RefuseRequest, Present, PresentFails, Receive, StartOn
<1>s. /\ Once(Tail(inbox), r)
      /\ h = r => Has(inbox, r) /\ ~Has(Tail(inbox), r)
      /\ h # r => (Has(Tail(inbox), r) <=> Has(inbox, r))
  <2> HIDE DEF Places
  <2> QED
    BY <1>p, <1>t, <1>r, Shorter DEF PathInv
<1>k. \/ UNCHANGED <<pc, job>>
      \/ \E l \in {"respond", "send"} :
           /\ pc' = [pc EXCEPT !["presenter"] = l]
           /\ job' = [job EXCEPT !["presenter"] = <<h, "error">>]
  BY DEF RefuseRequest, Present, PresentFails, StartOn
<1>a. approval' = approval \/ approval' = [approval EXCEPT ![h] = "pending"]
  BY DEF RefuseRequest, Present, PresentFails
<1> HIDE DEF h
<1>1. (Has(inbox, r)' <=> Has(Tail(inbox), r)) /\ (Once(inbox, r)' <=> Once(Tail(inbox), r))
  BY <1>r DEF Has, Once
<1>2. PathInv(r)' /\ (InPath(r)' => InPath(r)) /\ (h = r => InPath(r) /\ ~InPath(r)')
  BY <1>p, <1>r, <1>s, <1>1 DEF PathInv, InPath, OnWire, OnceOnWire
<1>3. Unanswered(r)' <=> Unanswered(r)
  BY <1>r DEF Unanswered, Has
<1>4. h = r => asked[r] # 0 /\ r \notin shown /\ Unanswered(r)
  BY <1>p, <1>2 DEF PathInv, EarlyInv
<1>5. ~Presenting(r) /\ (Presenting(r)' => h = r /\ pc'["presenter"] \in {"respond", "send"})
  BY <1>t, <1>k, <1>r DEF Presenting, Prompt
<1>6. /\ pc'["chat"] = pc["chat"] /\ (Chatting(r)' <=> Chatting(r))
      /\ r \in shown => approval'[r] = approval[r]
  BY <1>t, <1>k, <1>a, <1>4 DEF Chatting, Pressed
<1>7. EarlyInv(r)'
  BY <1>p, <1>r, <1>2, <1>3, <1>4, <1>5 DEF EarlyInv
<1>8. PresenterInv(r)'
  BY <1>r, <1>3, <1>4, <1>5 DEF PresenterInv
<1>9. ChatInv(r)'
  BY <1>p, <1>r, <1>3, <1>6 DEF ChatInv, Has
<1>10. SingleInv(r)'
  BY <1>p, <1>r DEF SingleInv, Once, Has
<1> QED
  BY <1>2, <1>7, <1>8, <1>9, <1>10 DEF AnswerInv

\* A step that leaves every queue and the path to the presenter alone.
Quiet == UNCHANGED <<wire, held, inbox, asked, written, outbound>>

LEMMA QuietAnswer ==
  ASSUME NEW r, AnswerInv(r), Quiet,
         Presenting(r)' => Presenting(r),
         r \in shown' => r \in shown \/ Presenting(r),
         PresenterInv(r)', ChatInv(r)'
  PROVE  AnswerInv(r)'
<1>1. /\ PathInv(r)' <=> PathInv(r)
      /\ InPath(r)' <=> InPath(r)
      /\ Unanswered(r)' <=> Unanswered(r)
      /\ SingleInv(r)' <=> SingleInv(r)
  BY DEF Quiet, PathInv, InPath, OnWire, OnceOnWire, Unanswered, SingleInv, Has, Once
<1> QED
  BY <1>1 DEF AnswerInv, EarlyInv, Quiet

LEMMA PromptAnswer ==
  ASSUME IInv, ChatShown, NEW r \in Requests, AnswerInv(r), r \notin disturbed',
         ShowPrompt \/ PromptSent \/ PromptFails \/ Withdraw
  PROVE  AnswerInv(r)'
<1> USE DEF transport, queues, store, tasks, history, outside
<1>p. PresenterInv(r) /\ ChatInv(r)
  BY DEF AnswerInv
<1>t. /\ pc \in [Tasks -> Labels] /\ job \in [Tasks -> (Requests \X Answers) \cup {NoJob}]
      /\ ack \in [Tasks -> {"none", "ok", "failed"}]
      /\ approval \in [Requests -> Decisions \cup {"none", "pending", "undelivered"}]
      /\ "chat" \in Tasks /\ "presenter" \in Tasks
  BY DEF IInv, TypeOK, Tasks
<1>q. Quiet
  BY DEF Quiet, ShowPrompt, PromptSent, PromptFails, Withdraw
<1>u. /\ Unanswered(r)' <=> Unanswered(r)
      /\ Has(written, r)' <=> Has(written, r)
  BY <1>q DEF Quiet, Unanswered, Has
<1>k. \/ UNCHANGED <<pc, job, ack>>
      \/ /\ pc' = [pc EXCEPT !["presenter"] = "idle"]
         /\ job' = [job EXCEPT !["presenter"] = NoJob]
         /\ ack' = [ack EXCEPT !["presenter"] = "none"]
      \/ \E l \in {"withdraw", "respond"} :
           pc' = [pc EXCEPT !["presenter"] = l] /\ UNCHANGED <<job, ack>>
  BY DEF ShowPrompt, PromptSent, PromptFails, Withdraw, Finish, Goto
<1>c. /\ pc'["chat"] = pc["chat"] /\ ack'["chat"] = ack["chat"]
      /\ Chatting(r)' <=> Chatting(r)
  BY <1>t, <1>k DEF Chatting, Pressed
<1>r. /\ Presenting(r)' => Presenting(r)
      /\ pc["presenter"] \in {"send", "withdraw"}
  BY <1>t, <1>k DEF Presenting, Prompt, ShowPrompt, PromptSent, PromptFails, Withdraw
<1>1. CASE ShowPrompt
  <2>1. /\ shown' = shown \cup {Prompt} /\ UNCHANGED <<pc, job, approval>>
        /\ pc["presenter"] = "send"
    BY <1>1 DEF ShowPrompt
  <2>2. Prompt = r => Presenting(r) /\ (r \notin shown => Unanswered(r))
    BY <1>p, <2>1 DEF Presenting, PresenterInv
  <2>3. PresenterInv(r)'
    BY <1>p, <1>u, <1>r, <2>1, <2>2 DEF PresenterInv
  <2>4. ChatInv(r)'
    BY <1>p, <1>u, <1>c, <2>1, <2>2 DEF ChatInv
  <2> QED
    BY <1>q, <1>r, <2>1, <2>2, <2>3, <2>4, QuietAnswer
<1>2. CASE PromptSent \/ PromptFails \/ Withdraw
  <2>1. shown' = shown /\ (approval'[r] = "pending" => approval[r] = "pending")
    <3>1. approval' = approval \/ approval' = [approval EXCEPT ![Prompt] = "undelivered"]
      BY <1>2 DEF PromptSent, PromptFails, Withdraw
    <3> QED
      BY <1>2, <1>t, <3>1 DEF PromptSent, PromptFails, Withdraw
  <2>2. Presenting(r)' => /\ r \notin shown
                          /\ pc'["presenter"] # "wait"
    <3>1. CASE PromptSent
      BY <1>t, <3>1 DEF PromptSent, Finish, Presenting
    <3>2. CASE PromptFails
      <4>1. Prompt \in shown => Prompt # r
        BY <3>2 DEF PromptFails
      <4>2. job' = job /\ pc' = [pc EXCEPT !["presenter"] = "withdraw"]
        BY <3>2 DEF PromptFails, Goto
      <4> QED
        BY <1>t, <4>1, <4>2 DEF Presenting, Prompt
    <3>3. CASE Withdraw
      <4>1. Presenting(r) => r \notin shown
        BY <1>p, <3>3 DEF Withdraw, PresenterInv
      <4>2. pc'["presenter"] # "wait"
        BY <1>t, <3>3 DEF Withdraw, Finish, Goto
      <4> QED
        BY <1>r, <4>1, <4>2
    <3> QED
      BY <1>2, <3>1, <3>2, <3>3
  <2>3. PresenterInv(r)'
    BY <1>p, <1>u, <1>r, <2>1, <2>2 DEF PresenterInv
  <2>4. ChatInv(r)'
    BY <1>p, <1>u, <1>c, <2>1 DEF ChatInv
  <2> QED
    BY <1>q, <1>r, <2>1, <2>3, <2>4, QuietAnswer
<1> QED
  BY <1>1, <1>2

LEMMA ChatAnswer ==
  ASSUME IInv, ChatShown, NEW r \in Requests, AnswerInv(r), r \notin disturbed',
         Validate \/ Decide \/ \E b \in Requests \X Decisions : Press(b)
  PROVE  AnswerInv(r)'
<1> USE DEF transport, queues, store, tasks, history, outside
<1>p. PresenterInv(r) /\ ChatInv(r)
  BY DEF AnswerInv
<1>t. /\ pc \in [Tasks -> Labels] /\ job \in [Tasks -> (Requests \X Answers) \cup {NoJob}]
      /\ ack \in [Tasks -> {"none", "ok", "failed"}]
      /\ approval \in [Requests -> Decisions \cup {"none", "pending", "undelivered"}]
      /\ "chat" \in Tasks /\ "presenter" \in Tasks
  BY DEF IInv, TypeOK, Tasks
<1>q. Quiet /\ shown' = shown
  BY DEF Quiet, Validate, Decide, Press
<1>u. /\ Unanswered(r)' <=> Unanswered(r)
      /\ Has(written, r)' <=> Has(written, r)
  BY <1>q DEF Quiet, Unanswered, Has
<1>k. \/ /\ \E l \in {"idle", "respond"} : pc' = [pc EXCEPT !["chat"] = l]
         /\ job' = job \/ job' = [job EXCEPT !["chat"] = NoJob]
      \/ \E b \in Requests \X Decisions :
           pc' = [pc EXCEPT !["chat"] = "validate"] /\ job' = [job EXCEPT !["chat"] = b]
  BY DEF Validate, Decide, Press, Finish, Goto
<1>r. pc'["presenter"] = pc["presenter"] /\ (Presenting(r)' <=> Presenting(r))
  BY <1>t, <1>k DEF Presenting, Prompt
<1>s. PresenterInv(r)'
  BY <1>p, <1>q, <1>r, <1>u DEF PresenterInv
<1> SUFFICES ChatInv(r)'
  BY <1>q, <1>r, <1>s, QuietAnswer
<1>1. ASSUME NEW b \in Requests \X Decisions, Press(b)
      PROVE  ChatInv(r)'
  <2>1. pc["chat"] = "idle" /\ pc'["chat"] = "validate" /\ UNCHANGED approval
    BY <1>t, <1>1 DEF Press
  <2> QED
    BY <1>p, <1>q, <1>u, <2>1 DEF ChatInv, Chatting
<1>2. CASE Validate
  <2>1. pc["chat"] = "validate" /\ UNCHANGED approval
    BY <1>2 DEF Validate
  <2>2. CASE Finish("chat")
    <3>1. pc'["chat"] = "idle"
      BY <1>t, <2>2 DEF Finish
    <3> QED
      BY <1>p, <1>q, <1>u, <2>1, <3>1 DEF ChatInv, Chatting
  <2>3. CASE StillOpen /\ Goto("chat", "respond")
    <3>1. pc'["chat"] = "respond" /\ job' = job
      BY <1>t, <2>3 DEF Goto
    <3>2. Chatting(r)' => Unanswered(r)
      BY <1>p, <2>1, <2>3, <3>1 DEF Chatting, Pressed, StillOpen, ChatShown, ChatInv
    <3> QED
      BY <1>p, <1>q, <1>u, <2>1, <3>1, <3>2 DEF ChatInv
  <2> QED
    BY <1>2, <2>2, <2>3 DEF Validate
<1>3. CASE Decide
  <2>1. pc["chat"] = "decide" /\ pc'["chat"] = "idle"
    BY <1>3, <1>t DEF Decide, Finish
  <2>2. job["chat"][2] \in Decisions /\ Pressed \in Requests
    BY <2>1 DEF IInv, JobInv, Pressed
  <2>3. approval'[r] = "pending" => approval[r] = "pending" /\ ~Chatting(r)
    <3>1. CASE approval' = [approval EXCEPT ![Pressed] = job["chat"][2]]
      BY <1>t, <2>2, <3>1, DecisionsAssumption DEF Chatting
    <3>2. CASE approval' = approval /\ disturbed' = disturbed \cup {Pressed}
      BY <3>2 DEF Chatting
    <3> QED
      BY <1>3, <3>1, <3>2 DEF Decide
  <2> QED
    BY <1>p, <1>q, <1>u, <2>1, <2>3 DEF ChatInv, Chatting
<1> QED
  BY <1>1, <1>2, <1>3

\* Only a request that was not asked yet comes through a restart undisturbed.
LEMMA RestartAnswer ==
  ASSUME NEW r \in Requests, AnswerInv(r), r \notin disturbed', Restart
  PROVE  AnswerInv(r)'
<1> USE DEF store, Idle
<1>1. asked[r] = 0 /\ r \notin shown /\ Unanswered(r)
  BY DEF Restart, AnswerInv, EarlyInv
<1>2. /\ UNCHANGED <<asked, shown, written>>
      /\ wire' = <<>> /\ held' = {} /\ inbox' = <<>> /\ outbound' = <<>>
      /\ pc'["presenter"] = "idle" /\ pc'["chat"] = "idle"
  BY DEF Restart, outside, Tasks
<1>3. PathInv(r)' /\ SingleInv(r)' /\ Unanswered(r)'
  BY <1>1, <1>2 DEF PathInv, InPath, OnWire, OnceOnWire, SingleInv, Unanswered, Once, Has
<1> QED
  BY <1>1, <1>2, <1>3 DEF AnswerInv, EarlyInv, PresenterInv, ChatInv, Presenting, Chatting

LEMMA ShownStep == IInv /\ ChatShown /\ LinkInv /\ [Next]_vars => ChatShown' /\ LinkInv'
<1> USE DEF transport, queues, store, tasks, history, outside
<1> SUFFICES ASSUME IInv, ChatShown, LinkInv, [Next]_vars PROVE ChatShown' /\ LinkInv'
  OBVIOUS
<1>t. /\ pc \in [Tasks -> Labels] /\ job \in [Tasks -> (Requests \X Answers) \cup {NoJob}]
      /\ link \in Nat /\ "chat" \in Tasks /\ "presenter" \in Tasks
  BY DEF IInv, TypeOK, Tasks
<1> DEFINE Same == /\ shown \subseteq shown'
                   /\ pc'["chat"] # "idle" => pc["chat"] # "idle" /\ Pressed' = Pressed
<1>s. Same => ChatShown'
  BY DEF ChatShown
<1>1. CASE Connect
  BY <1>1, <1>t DEF Connect, LinkInv, ChatShown, Pressed
<1>2. ASSUME NEW b \in Requests \X Decisions, Press(b) PROVE ChatShown' /\ LinkInv'
  BY <1>2, <1>t DEF Press, LinkInv, ChatShown, Pressed
<1>3. CASE \/ ConnectFails \/ Disconnect \/ Connection \/ WriteFails \/ UNCHANGED vars
           \/ ShowPrompt \/ Restart \/ \E r \in Requests : Ask(r)
  <2>1. /\ shown \subseteq shown' /\ (active' => active /\ link' = link)
        /\ UNCHANGED <<pc, job>> \/ pc'["chat"] = "idle"
    BY <1>3, <1>t DEF ConnectFails, Disconnect, Connection, WriteFails, ReadRequest,
       ForwardRequest, WriteReply, RefuseStaleReply, ShowPrompt, Restart, Ask, vars, Idle
  <2> QED
    BY <1>s, <2>1 DEF LinkInv, Pressed
<1>4. CASE RefuseRequest \/ Present \/ PresentFails \/ PromptSent \/ PromptFails \/ Withdraw
  <2>1. /\ shown = shown' /\ active' = active /\ link' = link
        /\ \/ UNCHANGED <<pc, job>>
           \/ \E l \in Labels, j \in {job["presenter"], NoJob, <<Head(inbox).request, "error">>} :
                /\ pc' = [pc EXCEPT !["presenter"] = l]
                /\ job' = job \/ job' = [job EXCEPT !["presenter"] = j]
    BY <1>4 DEF RefuseRequest, Present, PresentFails, PromptSent, PromptFails, Withdraw,
       Receive, StartOn, Finish, Goto, Labels
  <2> QED
    BY <1>s, <1>t, <2>1 DEF LinkInv, Pressed
<1>5. CASE Validate \/ Decide
  <2>1. /\ shown = shown' /\ active' = active /\ link' = link
        /\ pc'["chat"] = "idle" \/ (pc["chat"] = "validate" /\ job' = job)
    BY <1>5, <1>t DEF Validate, Decide, Finish, Goto
  <2> QED
    BY <1>s, <2>1 DEF LinkInv, Pressed
<1>6. ASSUME NEW t \in Tasks, Reply(t) PROVE ChatShown' /\ LinkInv'
  <2>1. /\ shown = shown' /\ active' = active /\ link' = link
        /\ \/ /\ pc[t] # "idle" /\ job' = job
              /\ \E l \in Labels : pc' = [pc EXCEPT ![t] = l]
           \/ pc' = [pc EXCEPT ![t] = "idle"] /\ job' = [job EXCEPT ![t] = NoJob]
    BY <1>6 DEF Reply, SendReply, ReplyRefused, ReplyFailed, ReplyTimedOut, ReplyWritten,
       GiveUp, Finish, Goto, Labels
  <2> QED
    BY <1>s, <1>t, <2>1 DEF LinkInv, Pressed
<1> QED
  BY <1>t, <1>1, <1>2, <1>3, <1>4, <1>5, <1>6 DEF Next, Presenter, Chat

------------------------------------------------------------------------------
LEMMA AnswerInit == Init => SingleAnswerInv
<1> SUFFICES ASSUME Init PROVE SingleAnswerInv
  OBVIOUS
<1>1. pc["chat"] = "idle" /\ pc["presenter"] = "idle" /\ ~active
  BY DEF Init, Idle, Tasks
<1>2. \A r : PathInv(r) /\ SingleInv(r) /\ Unanswered(r) /\ r \notin shown
  BY DEF Init, PathInv, InPath, OnWire, OnceOnWire, SingleInv, Unanswered, Once, Has
<1> QED
  BY <1>1, <1>2 DEF SingleAnswerInv, ChatShown, LinkInv, AnswerInv, EarlyInv, PresenterInv,
     ChatInv, Presenting, Chatting

LEMMA AnswerStep == IInv /\ SingleAnswerInv /\ [Next]_vars => SingleAnswerInv'
<1> SUFFICES ASSUME IInv, SingleAnswerInv, [Next]_vars,
                    NEW r \in Requests, r \notin disturbed'
             PROVE  AnswerInv(r)'
  BY ShownStep DEF SingleAnswerInv
<1>1. disturbed \subseteq disturbed'
  BY DEF Next, Presenter, Chat, Connection, Reply, Connect, ConnectFails, Disconnect,
     WriteFails, Ask, ReadRequest, ForwardRequest, WriteReply, RefuseStaleReply, SendReply,
     ReplyRefused, ReplyFailed, ReplyTimedOut, ReplyWritten, RefuseRequest, Present,
     PresentFails, Receive, PromptSent, PromptFails, Withdraw, Validate, Decide, ShowPrompt,
     Press, Restart, vars, history
<1>2. AnswerInv(r) /\ ChatShown /\ LinkInv
  BY <1>1 DEF SingleAnswerInv
<1>3. CASE UNCHANGED vars
  BY <1>2, <1>3 DEF vars, transport, queues, store, tasks, history, outside, AnswerInv,
     PathInv, InPath, OnWire, OnceOnWire, EarlyInv, SingleInv, PresenterInv, ChatInv,
     Unanswered, Presenting, Chatting, Prompt, Pressed, Once, Has
<1>4. CASE Next
  BY <1>2, <1>4, PathAnswer, WriteAnswer, ReplyAnswer, PresenterAnswer, PromptAnswer,
     ChatAnswer, RestartAnswer DEF Next, Connection, Presenter, Chat, Tasks
<1> QED
  BY <1>3, <1>4

\* The inductive invariant: an undisturbed request is on its way to the
\* presenter at one place, is answered by one of the two tasks only, and by it
\* again only when the answer before was refused unwritten.
THEOREM AnswersInvariance == Spec => [](IInv /\ SingleAnswerInv)
<1>1. Init => IInv /\ SingleAnswerInv
  BY IInvInit, AnswerInit
<1>2. IInv /\ SingleAnswerInv /\ [Next]_vars => (IInv /\ SingleAnswerInv)'
  BY IInvStep, AnswerStep
<1> QED
  BY <1>1, <1>2, PTL DEF Spec

\* handle_callback and the presenter answer a request at most once, unless a
\* fault befell it (daemon.rs:8851-8906, 11768-11967).
THEOREM OneAnswer == Spec => []SingleAnswer
<1>1. IInv /\ SingleAnswerInv => SingleAnswer
  <2> SUFFICES ASSUME IInv, SingleAnswerInv, NEW r \in Requests, r \notin disturbed
               PROVE  ~(Cardinality({i \in DOMAIN written : written[i].request = r}) > 1)
    BY DEF SingleAnswer
  <2> DEFINE R == {i \in DOMAIN written : written[i].request = r}
  <2>1. \A i, j \in R : i = j
    BY DEF SingleAnswerInv, AnswerInv, SingleInv, Once
  <2>2. R = {} \/ \E i : R = {i}
    BY <2>1
  <2> HIDE DEF R
  <2>3. Cardinality(R) = 0 \/ Cardinality(R) = 1
    BY <2>2, FS_EmptySet, FS_Singleton
  <2> QED
    BY <2>3 DEF R
<1> QED
  BY <1>1, AnswersInvariance, PTL
==============================================================================
