------------------------ MODULE AppServerClientProofs ------------------------
(* For any number of requests, permits, connections and events, and for queues *)
(* of any capacity: no permit is lost or made up, and the client implements    *)
(* the abstract RemoteCall.                                                    *)
(*                                                                             *)
(* The argument: the message of a request is at one place at a time, on its    *)
(* way to the queue, in the queue, or written and pending, and it carries the  *)
(* permit.  A request that may still be tried has run less often than it was   *)
(* attempted, and it gets its outcome only when its message is gone or it gave *)
(* up waiting.                                                                 *)
EXTENDS AppServerClient, FiniteSetTheorems, TLAPS

Queued(r) == \E i \in DOMAIN outbound : outbound[i].request = r
Gone(r) == ~Queued(r) /\ r \notin pending
Preparing == {"connecting", "permit"}

CallInv(r) ==
    /\ phase[r] = "idle" => attempt[r] = 0 /\ runs[r] = 0
    /\ phase[r] # "idle" => attempt[r] \in {1, 2}
    /\ runs[r] <= attempt[r]
    /\ phase[r] \in Preparing \/ Queued(r) => runs[r] < attempt[r]
    /\ phase[r] \in {"idle"} \cup Preparing => Gone(r)
    /\ phase[r] = "waiting" /\ reply[r] # "none" => Gone(r)
    /\ outcome[r] = "none" <=> phase[r] # "done"
    /\ outcome[r] \notin {"none", "timeout"} => Gone(r)
    /\ r \in pending => runs[r] > 0
    /\ reply[r] \in {"ok", "error"} => runs[r] > 0

QueueInv ==
    /\ \A i, j \in DOMAIN outbound : outbound[i].request = outbound[j].request => i = j
    /\ \A i \in DOMAIN outbound : outbound[i].request \notin pending

IInv ==
    /\ TypeOK /\ QueueInv /\ PermitsConserved
    /\ \A r \in Requests : CallInv(r)

------------------------------------------------------------------------------
(* The queue. *)

LEMMA Appended ==
  ASSUME outbound \in Seq(Entry), NEW e \in Entry, outbound' = Append(outbound, e)
  PROVE  /\ outbound' \in Seq(Entry) /\ Len(outbound') = Len(outbound) + 1
         /\ DOMAIN outbound' = DOMAIN outbound \cup {Len(outbound) + 1}
         /\ Len(outbound) + 1 \notin DOMAIN outbound
         /\ outbound'[Len(outbound) + 1] = e
         /\ \A i \in DOMAIN outbound : outbound'[i] = outbound[i]
         /\ \A r \in Requests : Queued(r)' <=> (Queued(r) \/ r = e.request)
<1>1. /\ outbound' \in Seq(Entry) /\ Len(outbound') = Len(outbound) + 1
      /\ DOMAIN outbound' = DOMAIN outbound \cup {Len(outbound) + 1}
      /\ Len(outbound) + 1 \notin DOMAIN outbound
      /\ outbound'[Len(outbound) + 1] = e
      /\ \A i \in DOMAIN outbound : outbound'[i] = outbound[i]
  OBVIOUS
<1>2. \A r \in Requests : Queued(r)' <=> (Queued(r) \/ r = e.request)
  BY <1>1 DEF Queued
<1> QED
  BY <1>1, <1>2

LEMMA Taken ==
  ASSUME outbound \in Seq(Entry), outbound # <<>>, QueueInv, outbound' = Tail(outbound)
  PROVE  /\ outbound' \in Seq(Entry) /\ Len(outbound') = Len(outbound) - 1 /\ Len(outbound) > 0
         /\ Head(outbound) \in Entry /\ Head(outbound) = outbound[1] /\ 1 \in DOMAIN outbound
         /\ \A i \in DOMAIN outbound' : i + 1 \in DOMAIN outbound /\ outbound'[i] = outbound[i + 1]
         /\ \A r \in Requests : Queued(r)' <=> (Queued(r) /\ r # Head(outbound).request)
         /\ Queued(Head(outbound).request)
<1>1. /\ outbound' \in Seq(Entry) /\ Len(outbound') = Len(outbound) - 1 /\ Len(outbound) > 0
      /\ Head(outbound) \in Entry /\ Head(outbound) = outbound[1] /\ 1 \in DOMAIN outbound
      /\ \A i \in DOMAIN outbound' : i + 1 \in DOMAIN outbound /\ outbound'[i] = outbound[i + 1]
      /\ DOMAIN outbound = 1..Len(outbound) /\ DOMAIN outbound' = 1..Len(outbound')
      /\ Len(outbound) \in Nat
  OBVIOUS
<1>2. ASSUME NEW r \in Requests
      PROVE  Queued(r)' <=> (Queued(r) /\ r # Head(outbound).request)
  <2>1. ASSUME Queued(r)'
        PROVE  Queued(r) /\ r # Head(outbound).request
    <3>1. PICK i \in DOMAIN outbound' : outbound'[i].request = r
      BY <2>1 DEF Queued
    <3>2. i + 1 \in DOMAIN outbound /\ outbound[i + 1].request = r /\ i + 1 # 1
      BY <1>1, <3>1
    <3> QED
      BY <1>1, <3>2 DEF Queued, QueueInv
  <2>2. ASSUME Queued(r), r # Head(outbound).request
        PROVE  Queued(r)'
    <3>1. PICK i \in DOMAIN outbound : outbound[i].request = r
      BY <2>2 DEF Queued
    <3>2. i # 1
      BY <1>1, <2>2, <3>1
    <3>3. i - 1 \in DOMAIN outbound' /\ (i - 1) + 1 = i
      BY <1>1, <3>1, <3>2
    <3>4. outbound'[i - 1].request = r
      BY <1>1, <3>1, <3>3
    <3> QED
      BY <3>3, <3>4 DEF Queued
  <2> QED
    BY <2>1, <2>2
<1>3. Queued(Head(outbound).request)
  BY <1>1 DEF Queued
<1> QED
  BY <1>1, <1>2, <1>3

------------------------------------------------------------------------------
LEMMA IInvInit == Init => IInv
<1> SUFFICES ASSUME Init PROVE IInv
  OBVIOUS
<1> USE DEF Init
<1>1. TypeOK
  <2>1. outbound \in Seq(Entry) /\ seen \in [Requests -> [1..2 -> 0..MaxGenerations]]
    BY ConstantsAssumption
  <2>2. /\ generation \in 0..MaxGenerations /\ permits \in 0..Permits
        /\ events \in 0..EventCapacity /\ told \in 0..MaxEvents
    BY ConstantsAssumption
  <2>3. /\ pending \subseteq Requests
        /\ phase \in [Requests -> {"idle", "connecting", "permit", "waiting", "done"}]
        /\ attempt \in [Requests -> 0..2] /\ runs \in [Requests -> 0..2]
        /\ reply \in [Requests -> {"none", "disconnected", "shutdown", "ok", "error"}]
        /\ outcome \in [Requests -> Ended \cup {"none"}]
    OBVIOUS
  <2> QED
    BY <2>1, <2>2, <2>3 DEF TypeOK
<1>2. QueueInv
  BY DEF QueueInv
<1>3. PermitsConserved
  <2>1. Cardinality(pending) = 0 /\ Len(outbound) = 0
    BY FS_EmptySet
  <2> QED
    BY <2>1, ConstantsAssumption DEF PermitsConserved
<1>4. \A r \in Requests : CallInv(r)
  BY DEF CallInv, Gone, Queued, Preparing
<1> QED
  BY <1>1, <1>2, <1>3, <1>4 DEF IInv

------------------------------------------------------------------------------
(* Steps. *)

\* A step that leaves the queue, the pending map and the permits alone.
LEMMA StillQueued ==
  ASSUME IInv, UNCHANGED <<outbound, pending, permits>>
  PROVE  /\ QueueInv' /\ PermitsConserved'
         /\ \A q \in Requests : Queued(q)' = Queued(q) /\ Gone(q)' = Gone(q)
BY DEF IInv, QueueInv, PermitsConserved, Queued, Gone

\* The steps of a caller outside the queue.
LEMMA CallerStep ==
  ASSUME IInv, NEW r \in Requests,
         \/ Request(r) \/ SeeConnected(r) \/ Refused(r) \/ Receive(r) \/ Retry(r) \/ TimeOut(r)
  PROVE  IInv'
<1>1. /\ UNCHANGED <<outbound, pending, permits, reply, runs>>
      /\ UNCHANGED <<linkVars, eventVars, blocked>>
  BY DEF Request, SeeConnected, Refused, Receive, Retry, TimeOut
<1>2. CallInv(r) /\ TypeOK
  BY DEF IInv
<1> DEFINE Others == /\ \A q \in Requests \ {r} : /\ phase'[q] = phase[q]
                                                   /\ attempt'[q] = attempt[q]
                                                   /\ outcome'[q] = outcome[q]
                     /\ phase' \in [Requests -> {"idle", "connecting", "permit", "waiting", "done"}]
                     /\ attempt' \in [Requests -> 0..2]
                     /\ seen' \in [Requests -> [1..2 -> 0..MaxGenerations]]
                     /\ outcome' \in [Requests -> Ended \cup {"none"}]
<1>3. /\ Queued(r)' = Queued(r) /\ Gone(r)' = Gone(r)
      /\ reply'[r] = reply[r] /\ runs'[r] = runs[r] /\ pending' = pending
      /\ reply[r] \in {"none", "disconnected", "shutdown", "ok", "error"}
      /\ runs[r] \in 0..2 /\ attempt[r] \in 0..2
  BY <1>1, <1>2, StillQueued DEF TypeOK
<1>4. Others /\ CallInv(r)'
  <2> USE DEF TypeOK, CallInv, Preparing
  <2>1. CASE Request(r)
    <3>1. phase[r] = "idle" /\ phase'[r] = "connecting" /\ attempt'[r] = 1 /\ outcome'[r] = outcome[r]
      BY <1>2, <2>1 DEF Request, Start
    <3>2. CallInv(r)'
      BY <1>2, <1>3, <3>1
    <3>3. Others
      BY <1>2, <2>1 DEF Request, Start
    <3> QED
      BY <3>2, <3>3
  <2>2. CASE SeeConnected(r)
    <3>1. phase[r] = "connecting" /\ phase'[r] = "permit" /\ attempt' = attempt /\ outcome' = outcome
      BY <1>2, <2>2 DEF SeeConnected
    <3>2. CallInv(r)'
      BY <1>2, <1>3, <3>1
    <3>3. Others
      BY <1>2, <2>2 DEF SeeConnected
    <3> QED
      BY <3>2, <3>3
  <2>3. ASSUME NEW o \in Ended, Return(r, o), o = "timeout" \/ Gone(r), phase[r] # "idle"
        PROVE  Others /\ CallInv(r)'
    <3>1. phase'[r] = "done" /\ attempt' = attempt /\ outcome'[r] = o /\ o # "none"
      BY <1>2, <2>3 DEF Return, Ended
    <3>2. CallInv(r)'
      BY <1>2, <1>3, <2>3, <3>1
    <3>3. Others
      BY <1>2, <2>3 DEF Return
    <3> QED
      BY <3>2, <3>3
  <2>4. CASE Refused(r)
    <3>1. phase[r] = "permit" /\ (Return(r, "shutdown") \/ Return(r, "queueFull"))
      BY <2>4 DEF Refused
    <3>2. Gone(r)
      BY <1>2, <3>1
    <3> QED
      BY <2>3, <3>1, <3>2 DEF Ended
  <2>5. CASE Receive(r)
    <3>1. phase[r] = "waiting" /\ reply[r] # "none" /\ Return(r, reply[r])
      BY <2>5 DEF Receive
    <3>2. Gone(r) /\ reply[r] \in Ended
      BY <1>2, <1>3, <3>1 DEF Ended
    <3> QED
      BY <2>3, <3>1, <3>2
  <2>6. CASE Retry(r)
    <3>1. /\ phase[r] = "waiting" /\ phase'[r] = "connecting" /\ reply[r] = "disconnected"
          /\ attempt[r] = 1 /\ attempt'[r] = 2 /\ outcome' = outcome
      BY <1>2, <2>6 DEF Retry
    <3>2. CallInv(r)'
      BY <1>2, <1>3, <3>1
    <3>3. Others
      BY <1>2, <2>6 DEF Retry
    <3> QED
      BY <3>2, <3>3
  <2>7. CASE TimeOut(r)
    <3>1. phase[r] # "idle" /\ Return(r, "timeout")
      BY <2>7 DEF TimeOut
    <3> QED
      BY <2>3, <3>1 DEF Ended
  <2> QED
    BY <2>1, <2>2, <2>4, <2>5, <2>6, <2>7
<1>5. ASSUME NEW q \in Requests, q # r
      PROVE  CallInv(q)'
  <2>1. /\ Queued(q)' = Queued(q) /\ Gone(q)' = Gone(q) /\ CallInv(q)
        /\ reply'[q] = reply[q] /\ runs'[q] = runs[q] /\ pending' = pending
    BY <1>1, StillQueued DEF IInv
  <2>2. phase'[q] = phase[q] /\ attempt'[q] = attempt[q] /\ outcome'[q] = outcome[q]
    BY <1>4, <1>5
  <2> QED
    BY <2>1, <2>2 DEF CallInv
<1>6. TypeOK'
  BY <1>1, <1>2, <1>4 DEF TypeOK, linkVars, eventVars
<1> QED
  BY <1>1, <1>4, <1>5, <1>6, StillQueued DEF IInv

LEMMA PendingFinite ==
  ASSUME TypeOK
  PROVE  IsFiniteSet(pending) /\ Cardinality(pending) \in Nat
BY ConstantsAssumption, FS_Subset, FS_CardinalityType DEF TypeOK

LEMMA EnqueueStep ==
  ASSUME IInv, NEW r \in Requests, Enqueue(r)
  PROVE  IInv'
<1> DEFINE e == [request |-> r, generation |-> seen[r][attempt[r]]]
<1>1. /\ phase[r] = "permit" /\ permits > 0 /\ outbound' = Append(outbound, e)
      /\ permits' = permits - 1 /\ reply' = [reply EXCEPT ![r] = "none"]
      /\ phase' = [phase EXCEPT ![r] = "waiting"] /\ Len(outbound) < OutboundCapacity
      /\ UNCHANGED <<linkVars, pending, attempt, seen, outcome, runs, eventVars, blocked>>
  BY DEF Enqueue
<1>2. TypeOK /\ QueueInv /\ PermitsConserved /\ CallInv(r)
  BY DEF IInv
<1>3. e \in Entry /\ outbound \in Seq(Entry)
  <2>1. attempt[r] \in 1..2
    BY <1>1, <1>2 DEF CallInv
  <2>2. seen[r][attempt[r]] \in 0..MaxGenerations
    BY <1>2, <2>1 DEF TypeOK
  <2> QED
    BY <1>2, <2>2 DEF Entry, TypeOK
<1>4. /\ Gone(r) /\ attempt[r] \in {1, 2} /\ runs[r] < attempt[r] /\ outcome[r] = "none"
      /\ runs[r] \in 0..2
  BY <1>1, <1>2 DEF CallInv, Preparing, TypeOK
<1> HIDE DEF e
<1>5. /\ outbound' \in Seq(Entry) /\ Len(outbound') = Len(outbound) + 1
      /\ DOMAIN outbound' = DOMAIN outbound \cup {Len(outbound) + 1}
      /\ Len(outbound) + 1 \notin DOMAIN outbound
      /\ outbound'[Len(outbound) + 1] = e
      /\ \A i \in DOMAIN outbound : outbound'[i] = outbound[i]
      /\ \A q \in Requests : Queued(q)' <=> (Queued(q) \/ q = e.request)
  BY <1>1, <1>3, Appended
<1>6. e.request = r
  BY DEF e
<1>7. TypeOK'
  <2>1. permits' \in 0..Permits
    BY <1>1, <1>2, ConstantsAssumption DEF TypeOK
  <2> QED
    BY <1>1, <1>2, <1>5, <2>1 DEF TypeOK, linkVars, eventVars
<1>8. QueueInv'
  <2>1. \A i \in DOMAIN outbound : outbound[i].request # r
    BY <1>4 DEF Gone, Queued
  <2> QED
    BY <1>1, <1>2, <1>4, <1>5, <1>6, <2>1 DEF QueueInv, Gone
<1>9. PermitsConserved'
  BY <1>1, <1>2, <1>3, <1>5, PendingFinite, ConstantsAssumption DEF PermitsConserved, TypeOK
<1>10. ASSUME NEW q \in Requests
       PROVE  CallInv(q)'
  <2>1. CallInv(q) /\ runs' = runs /\ attempt' = attempt /\ outcome' = outcome /\ pending' = pending
    BY <1>1 DEF IInv
  <2>2. CASE q = r
    <3>1. phase'[r] = "waiting" /\ reply'[r] = "none"
      BY <1>1, <1>2 DEF TypeOK
    <3>2. /\ r \notin pending' /\ outcome'[r] = "none" /\ runs'[r] = runs[r]
          /\ attempt'[r] = attempt[r]
      BY <1>4, <2>1 DEF Gone
    <3>3. CallInv(r)'
      BY <1>4, <3>1, <3>2 DEF CallInv, Preparing
    <3> QED
      BY <2>2, <3>3
  <2>3. CASE q # r
    <3>1. phase'[q] = phase[q] /\ reply'[q] = reply[q]
      BY <1>1, <1>2, <2>3 DEF TypeOK
    <3>2. Queued(q)' <=> Queued(q)
      BY <1>5, <1>6, <2>3
    <3>3. Gone(q)' <=> Gone(q)
      BY <2>1, <3>2 DEF Gone
    <3> QED
      BY <2>1, <3>1, <3>2, <3>3 DEF CallInv
  <2> QED
    BY <2>2, <2>3
<1> QED
  BY <1>7, <1>8, <1>9, <1>10 DEF IInv

\* Steps that change neither requests nor their messages.
LEMMA OtherStep ==
  ASSUME IInv,
         \/ Connect \/ Initialized \/ Closed \/ ShutDown \/ Notify \/ Unblock \/ EventHandled
         \/ UNCHANGED vars
  PROVE  IInv'
<1>1. UNCHANGED <<outbound, pending, permits, callVars, reply, runs>>
  BY DEF Connect, Initialized, Closed, ShutDown, Notify, Unblock, EventHandled, vars
<1>2. TypeOK'
  <2> USE ConstantsAssumption DEF IInv, TypeOK, linkVars, callVars, eventVars
  <2>1. CASE Connect
    BY <2>1 DEF Connect
  <2>2. CASE Initialized \/ Closed \/ ShutDown
    BY <2>2 DEF Initialized, Closed, ShutDown
  <2>3. CASE Notify
    <3>1. told' \in 0..MaxEvents /\ events' \in 0..EventCapacity
      BY <2>3 DEF Notify
    <3>2. blocked' \in BOOLEAN
      BY <2>3 DEF Notify
    <3>3. UNCHANGED <<linkVars, outbound, pending, permits, callVars, reply, runs, handling>>
      BY <2>3 DEF Notify
    <3> QED
      BY <3>1, <3>2, <3>3
  <2>4. CASE Unblock
    <3>1. events' \in 0..EventCapacity /\ blocked' = FALSE
      BY <2>4 DEF Unblock
    <3>2. UNCHANGED <<linkVars, outbound, pending, permits, callVars, reply, runs, told, handling>>
      BY <2>4 DEF Unblock
    <3> QED
      BY <3>1, <3>2
  <2>5. CASE EventHandled
    BY <2>5 DEF EventHandled
  <2>6. CASE UNCHANGED vars
    BY <2>6 DEF vars
  <2> QED
    BY <2>1, <2>2, <2>3, <2>4, <2>5, <2>6
<1> QED
  BY <1>1, <1>2, StillQueued DEF IInv, CallInv, callVars

LEMMA HandleEventStep ==
  ASSUME IInv, HandleEvent
  PROVE  IInv'
<1>1. UNCHANGED <<linkVars, outbound, pending, permits, reply, runs, told, blocked>>
  BY DEF HandleEvent
<1>2. events' \in 0..EventCapacity
  BY ConstantsAssumption DEF HandleEvent, IInv, TypeOK
<1>3. CASE handling' = None /\ UNCHANGED callVars
  <2>1. TypeOK'
    BY <1>1, <1>2, <1>3 DEF IInv, TypeOK, linkVars, callVars
  <2> QED
    BY <1>1, <1>3, <2>1, StillQueued DEF IInv, CallInv, callVars
<1>4. ASSUME NEW r \in EventRequests, Start(r), handling' = r
      PROVE  IInv'
  <2>1. r \in Requests /\ TypeOK /\ CallInv(r)
    BY ConstantsAssumption DEF IInv
  <2>2. /\ phase[r] = "idle" /\ phase' = [phase EXCEPT ![r] = "connecting"]
        /\ attempt' = [attempt EXCEPT ![r] = 1] /\ UNCHANGED <<seen, outcome>>
    BY <1>4 DEF Start
  <2>3. TypeOK'
    BY <1>1, <1>2, <1>4, <2>1, <2>2 DEF TypeOK, linkVars
  <2>4. ASSUME NEW q \in Requests
        PROVE  CallInv(q)'
    <3>1. /\ CallInv(q) /\ reply' = reply /\ runs' = runs /\ outcome' = outcome /\ pending' = pending
          /\ Queued(q)' = Queued(q) /\ Gone(q)' = Gone(q)
      BY <1>1, <2>2, StillQueued DEF IInv
    <3>2. CASE q = r
      <4>1. phase'[r] = "connecting" /\ attempt'[r] = 1
        BY <2>1, <2>2 DEF TypeOK
      <4> QED
        BY <2>1, <2>2, <3>1, <3>2, <4>1 DEF CallInv, Preparing
    <3>3. CASE q # r
      <4>1. phase'[q] = phase[q] /\ attempt'[q] = attempt[q]
        BY <2>1, <2>2, <3>3 DEF TypeOK
      <4> QED
        BY <3>1, <4>1 DEF CallInv
    <3> QED
      BY <3>2, <3>3
  <2> QED
    BY <1>1, <2>3, <2>4, StillQueued DEF IInv
<1> QED
  BY <1>3, <1>4 DEF HandleEvent

------------------------------------------------------------------------------
(* Steps of the connection task that move messages. *)

Replied == {"none", "disconnected", "shutdown", "ok", "error"}

\* What such a step owes to a request.
Moved(q) ==
    /\ Queued(q)' => Queued(q)
    /\ Gone(q) => Gone(q)'
    /\ q \in pending' => q \in pending \/ runs'[q] > 0
    /\ reply'[q] \in Replied
    /\ reply'[q] # reply[q] => Gone(q)' /\ (reply'[q] \in {"ok", "error"} => runs[q] > 0)
    /\ \/ runs'[q] = runs[q]
       \/ runs'[q] = runs[q] + 1 /\ Queued(q) /\ ~Queued(q)'

LEMMA MovedKeeps ==
  ASSUME IInv, UNCHANGED callVars, NEW q \in Requests, Moved(q)
  PROVE  CallInv(q)' /\ runs'[q] \in 0..2
<1>1. /\ phase' = phase /\ attempt' = attempt /\ outcome' = outcome /\ CallInv(q)
      /\ runs[q] \in 0..2 /\ attempt[q] \in 0..2
  BY DEF callVars, IInv, TypeOK
<1>2. runs'[q] \in 0..2 /\ runs'[q] >= runs[q] /\ runs'[q] <= attempt[q]
  BY <1>1 DEF Moved, CallInv
<1>3. phase[q] \in Preparing \/ Queued(q)' => runs'[q] < attempt[q]
  BY <1>1, <1>2 DEF Moved, CallInv, Gone
<1>4. q \in pending' => runs'[q] > 0
  BY <1>1, <1>2 DEF Moved, CallInv
<1>5. /\ phase[q] \in {"idle"} \cup Preparing => Gone(q)'
      /\ outcome[q] \notin {"none", "timeout"} => Gone(q)'
      /\ phase[q] = "waiting" /\ reply'[q] # "none" => Gone(q)'
  BY <1>1 DEF Moved, CallInv
<1>6. reply'[q] \in {"ok", "error"} => runs'[q] > 0
  BY <1>1, <1>2 DEF Moved, CallInv
<1>7. phase[q] = "idle" => runs'[q] = 0
  BY <1>1, <1>2 DEF CallInv
<1> QED
  BY <1>1, <1>2, <1>3, <1>4, <1>5, <1>6, <1>7 DEF CallInv

LEMMA SendType ==
  ASSUME IInv, NEW S, NEW result \in Replied
  PROVE  /\ Send(S, result) \in [Requests -> Replied]
         /\ \A q \in Requests : Send(S, result)[q] # reply[q] =>
               q \in S /\ Send(S, result)[q] = result
BY DEF IInv, TypeOK, Send, Replied

LEMMA Bounded ==
  ASSUME PermitsConserved', IsFiniteSet(pending'), outbound' \in Seq(Entry), permits' \in Nat
  PROVE  permits' \in 0..Permits
<1>1. Cardinality(pending') \in Nat /\ Len(outbound') \in Nat
  BY FS_CardinalityType
<1> QED
  BY <1>1, ConstantsAssumption DEF PermitsConserved

LEMMA WriteStep ==
  ASSUME IInv, Write
  PROVE  IInv'
<1> DEFINE w == Head(outbound).request
<1>1. /\ outbound # <<>> /\ pending' = pending \cup {w} /\ outbound' = Tail(outbound)
      /\ runs' = [runs EXCEPT ![w] = @ + 1]
      /\ UNCHANGED <<linkVars, permits, callVars, reply, eventVars, blocked>>
  BY DEF Write
<1>2. TypeOK /\ QueueInv /\ PermitsConserved /\ outbound \in Seq(Entry)
  BY DEF IInv, TypeOK
<1>3. /\ outbound' \in Seq(Entry) /\ Len(outbound') = Len(outbound) - 1 /\ Len(outbound) > 0
      /\ Head(outbound) \in Entry /\ Head(outbound) = outbound[1] /\ 1 \in DOMAIN outbound
      /\ \A i \in DOMAIN outbound' : i + 1 \in DOMAIN outbound /\ outbound'[i] = outbound[i + 1]
      /\ \A q \in Requests : Queued(q)' <=> (Queued(q) /\ q # w)
      /\ Queued(w)
  BY <1>1, <1>2, Taken
<1>4. w \in Requests /\ w \notin pending
  BY <1>2, <1>3 DEF Entry, QueueInv
<1> HIDE DEF w
<1>5. runs' \in [Requests -> 0..2] /\ \A q \in Requests : Moved(q)
  <2>1. runs[w] \in 0..2 /\ runs'[w] = runs[w] + 1 /\ runs[w] < attempt[w] /\ attempt[w] \in 0..2
    BY <1>1, <1>2, <1>3, <1>4 DEF TypeOK, IInv, CallInv
  <2>2. ASSUME NEW q \in Requests
        PROVE  Moved(q)
    <3>1. reply'[q] = reply[q] /\ reply'[q] \in Replied
      BY <1>1, <1>2 DEF TypeOK, Replied
    <3>2. CASE q = w
      BY <1>3, <1>4, <2>1, <3>1, <3>2 DEF Moved, Gone
    <3>3. CASE q # w
      <4>1. runs'[q] = runs[q]
        BY <1>1, <1>2, <3>3 DEF TypeOK
      <4> QED
        BY <1>1, <1>3, <3>1, <3>3, <4>1 DEF Moved, Gone
    <3> QED
      BY <3>2, <3>3
  <2> QED
    BY <1>1, <1>2, <2>1, <2>2 DEF TypeOK
<1>6. PermitsConserved'
  <2>1. Cardinality(pending') = Cardinality(pending) + 1
    BY <1>1, <1>2, <1>4, PendingFinite, FS_AddElement
  <2>2. Cardinality(pending) \in Nat /\ permits' = permits /\ permits \in Nat /\ Len(outbound) \in Nat
    BY <1>1, <1>2, PendingFinite, ConstantsAssumption DEF TypeOK
  <2> QED
    BY <1>2, <1>3, <2>1, <2>2 DEF PermitsConserved
<1>7. QueueInv'
  <2>1. ASSUME NEW i \in DOMAIN outbound', NEW j \in DOMAIN outbound',
               outbound'[i].request = outbound'[j].request
        PROVE  i = j
    BY <1>2, <1>3, <2>1 DEF QueueInv
  <2>2. ASSUME NEW i \in DOMAIN outbound'
        PROVE  outbound'[i].request \notin pending'
    <3>1. outbound'[i].request \notin pending
      BY <1>2, <1>3 DEF QueueInv
    <3>2. i + 1 # 1 /\ outbound'[i].request # outbound[1].request
      BY <1>2, <1>3 DEF QueueInv
    <3> QED
      BY <1>1, <1>3, <3>1, <3>2 DEF w
  <2> QED
    BY <2>1, <2>2 DEF QueueInv
<1>8. TypeOK'
  BY <1>1, <1>2, <1>3, <1>4, <1>5 DEF TypeOK, linkVars, callVars, eventVars
<1> QED
  BY <1>1, <1>5, <1>6, <1>7, <1>8, MovedKeeps DEF IInv

LEMMA StillDistinct ==
  ASSUME IInv, pending' \subseteq pending, outbound # <<>>, outbound' = Tail(outbound)
  PROVE  QueueInv'
<1>1. QueueInv /\ outbound \in Seq(Entry)
  BY DEF IInv, TypeOK
<1>2. \A i \in DOMAIN outbound' : i + 1 \in DOMAIN outbound /\ outbound'[i] = outbound[i + 1]
  BY <1>1, Taken
<1>3. \A i, j \in DOMAIN outbound' : outbound'[i].request = outbound'[j].request => i = j
  BY <1>1, <1>2 DEF QueueInv
<1>4. \A i \in DOMAIN outbound' : outbound'[i].request \notin pending'
  BY <1>1, <1>2 DEF QueueInv
<1> QED
  BY <1>3, <1>4 DEF QueueInv

\* A step that sends `result` to requests whose messages are gone with it.
LEMMA Released ==
  ASSUME IInv, UNCHANGED callVars, pending' \subseteq pending,
         NEW S, NEW result \in Replied, reply' = Send(S, result),
         \A q \in Requests : Queued(q)' => Queued(q),
         \A q \in Requests : q \in S => Gone(q)',
         \A q \in Requests : q \in S /\ result \in {"ok", "error"} => runs[q] > 0,
         \A q \in Requests : \/ runs'[q] = runs[q]
                             \/ runs'[q] = runs[q] + 1 /\ Queued(q) /\ ~Queued(q)'
  PROVE  \A q \in Requests : CallInv(q)' /\ runs'[q] \in 0..2 /\ reply'[q] \in Replied
<1> SUFFICES ASSUME NEW q \in Requests
             PROVE  CallInv(q)' /\ runs'[q] \in 0..2 /\ reply'[q] \in Replied
  OBVIOUS
<1>1. /\ reply'[q] \in Replied
      /\ reply'[q] # reply[q] => q \in S /\ reply'[q] = result
  BY SendType
<1>2. Gone(q) => Gone(q)'
  BY DEF Gone
<1>3. Moved(q)
  BY <1>1, <1>2 DEF Moved
<1> QED
  BY <1>1, <1>3, MovedKeeps

LEMMA RefuseStep ==
  ASSUME IInv, RefuseStale
  PROVE  IInv'
<1> DEFINE w == Head(outbound).request
<1>1. /\ outbound # <<>> /\ reply' = Send({w}, "disconnected") /\ permits' = permits + 1
      /\ outbound' = Tail(outbound)
      /\ UNCHANGED <<linkVars, pending, callVars, runs, eventVars, blocked>>
  BY DEF RefuseStale
<1>2. TypeOK /\ QueueInv /\ PermitsConserved /\ outbound \in Seq(Entry)
  BY DEF IInv, TypeOK
<1>3. /\ outbound' \in Seq(Entry) /\ Len(outbound') = Len(outbound) - 1 /\ Len(outbound) > 0
      /\ Head(outbound) \in Entry /\ Head(outbound) = outbound[1] /\ 1 \in DOMAIN outbound
      /\ \A q \in Requests : Queued(q)' <=> (Queued(q) /\ q # w)
  BY <1>1, <1>2, Taken
<1>4. w \notin pending
  BY <1>2, <1>3 DEF QueueInv
<1> HIDE DEF w
<1>5. QueueInv'
  BY <1>1, StillDistinct
<1>6. \A q \in Requests : CallInv(q)'
  BY <1>1, <1>3, <1>4, Released DEF Gone, Replied
<1>7. PermitsConserved' /\ permits' \in Nat
  <2>1. /\ Cardinality(pending) \in Nat /\ permits \in Nat /\ Len(outbound) \in Nat
        /\ pending' = pending
    BY <1>1, <1>2, PendingFinite, ConstantsAssumption DEF TypeOK
  <2> QED
    BY <1>1, <1>2, <1>3, <2>1 DEF PermitsConserved
<1>8. reply' \in [Requests -> Replied] /\ permits' \in 0..Permits
  BY <1>1, <1>2, <1>3, <1>7, SendType, Bounded, PendingFinite DEF Replied
<1>9. TypeOK'
  BY <1>1, <1>2, <1>3, <1>8 DEF TypeOK, linkVars, callVars, eventVars, Replied
<1> QED
  BY <1>5, <1>6, <1>7, <1>9 DEF IInv

LEMMA AnswerStep ==
  ASSUME IInv, NEW r \in Requests, NEW result \in {"ok", "error"}, Answer(r, result)
  PROVE  IInv'
<1>1. /\ r \in pending /\ pending' = pending \ {r} /\ permits' = permits + 1
      /\ reply' = Send({r}, result)
      /\ UNCHANGED <<linkVars, outbound, callVars, runs, eventVars, blocked>>
  BY DEF Answer
<1>2. TypeOK /\ QueueInv /\ PermitsConserved /\ CallInv(r)
  BY DEF IInv
<1>3. \A q \in Requests : Queued(q)' <=> Queued(q)
  BY <1>1 DEF Queued
<1>4. ~Queued(r) /\ runs[r] > 0
  BY <1>1, <1>2 DEF QueueInv, Queued, CallInv
<1>5. QueueInv'
  BY <1>1, <1>2 DEF QueueInv
<1>6. \A q \in Requests : CallInv(q)'
  <2>1. Gone(r)'
    BY <1>1, <1>3, <1>4 DEF Gone
  <2> QED
    BY <1>1, <1>3, <1>4, <2>1, Released DEF Replied
<1>7. PermitsConserved' /\ permits' \in Nat /\ IsFiniteSet(pending')
  <2>1. Cardinality(pending') = Cardinality(pending) - 1 /\ IsFiniteSet(pending')
    BY <1>1, <1>2, PendingFinite, FS_RemoveElement
  <2>2. Cardinality(pending) \in Nat /\ permits \in Nat /\ Len(outbound) \in Nat /\ outbound' = outbound
    BY <1>1, <1>2, PendingFinite, ConstantsAssumption DEF TypeOK
  <2> QED
    BY <1>1, <1>2, <2>1, <2>2 DEF PermitsConserved
<1>8. reply' \in [Requests -> Replied] /\ permits' \in 0..Permits
  BY <1>1, <1>2, <1>7, SendType, Bounded DEF Replied, TypeOK
<1>9. TypeOK'
  BY <1>1, <1>2, <1>8 DEF TypeOK, linkVars, callVars, eventVars, Replied
<1> QED
  BY <1>5, <1>6, <1>7, <1>9 DEF IInv

LEMMA WriteFailsStep ==
  ASSUME IInv, WriteFails
  PROVE  IInv'
<1> DEFINE w == Head(outbound).request
<1>1. /\ outbound # <<>> /\ runs' \in {runs, [runs EXCEPT ![w] = @ + 1]}
      /\ reply' = Send(pending \cup {w}, "disconnected")
      /\ permits' = permits + Cardinality(pending) + Cardinality({w})
      /\ pending' = {} /\ link' = "closing" /\ outbound' = Tail(outbound)
      /\ UNCHANGED <<generation, connected, stopping, callVars, eventVars, blocked>>
  BY DEF WriteFails, DropPending
<1>2. TypeOK /\ QueueInv /\ PermitsConserved /\ outbound \in Seq(Entry)
  BY DEF IInv, TypeOK
<1>3. /\ outbound' \in Seq(Entry) /\ Len(outbound') = Len(outbound) - 1 /\ Len(outbound) > 0
      /\ Head(outbound) \in Entry /\ Head(outbound) = outbound[1] /\ 1 \in DOMAIN outbound
      /\ \A q \in Requests : Queued(q)' <=> (Queued(q) /\ q # w)
      /\ Queued(w)
  BY <1>1, <1>2, Taken
<1>4. w \in Requests
  BY <1>3 DEF Entry
<1> HIDE DEF w
<1>5. QueueInv'
  BY <1>1, StillDistinct
<1>6. \A q \in pending : ~Queued(q)
  BY <1>2 DEF QueueInv, Queued
<1>7. \A q \in Requests : CallInv(q)' /\ runs'[q] \in 0..2
  <2>1. \A q \in Requests : q \in pending \cup {w} => Gone(q)'
    BY <1>1, <1>3, <1>6 DEF Gone
  <2>2. ASSUME NEW q \in Requests
        PROVE  \/ runs'[q] = runs[q]
               \/ runs'[q] = runs[q] + 1 /\ Queued(q) /\ ~Queued(q)'
    BY <1>1, <1>2, <1>3, <1>4 DEF TypeOK
  <2>3. "disconnected" \in Replied /\ pending' \subseteq pending
    BY <1>1 DEF Replied
  <2> QED
    BY <1>1, <1>3, <2>1, <2>2, <2>3, Released
<1>8. PermitsConserved' /\ permits' \in Nat /\ IsFiniteSet(pending')
  <2>1. Cardinality({w}) = 1 /\ Cardinality(pending') = 0 /\ IsFiniteSet(pending')
    BY <1>1, FS_Singleton, FS_EmptySet
  <2>2. Cardinality(pending) \in Nat /\ permits \in Nat /\ Len(outbound) \in Nat
    BY <1>2, PendingFinite, ConstantsAssumption DEF TypeOK
  <2> QED
    BY <1>1, <1>2, <1>3, <2>1, <2>2 DEF PermitsConserved
<1>9. /\ reply' \in [Requests -> Replied] /\ permits' \in 0..Permits
      /\ runs' \in [Requests -> 0..2]
  <2>1. reply' \in [Requests -> Replied] /\ permits' \in 0..Permits
    BY <1>1, <1>3, <1>8, SendType, Bounded DEF Replied
  <2> QED
    BY <1>1, <1>2, <1>7, <2>1 DEF TypeOK
<1>10. TypeOK'
  BY <1>1, <1>2, <1>3, <1>9 DEF TypeOK, callVars, eventVars, Replied
<1> QED
  BY <1>5, <1>7, <1>8, <1>10 DEF IInv

LEMMA LoseStep ==
  ASSUME IInv, Lose
  PROVE  IInv'
<1>1. /\ reply' = Send(pending \cup {}, "disconnected") /\ pending' = {} /\ link' = "closing"
      /\ permits' = permits + Cardinality(pending) + Cardinality({})
      /\ UNCHANGED <<generation, connected, stopping, outbound, callVars, runs, eventVars, blocked>>
  BY DEF Lose, DropPending
<1>2. TypeOK /\ QueueInv /\ PermitsConserved
  BY DEF IInv
<1>3. \A q \in Requests : Queued(q)' <=> Queued(q)
  BY <1>1 DEF Queued
<1>4. QueueInv'
  BY <1>1, <1>2 DEF QueueInv
<1>5. \A q \in Requests : CallInv(q)'
  <2>1. \A q \in Requests : q \in pending \cup {} => Gone(q)'
    BY <1>1, <1>2, <1>3 DEF Gone, QueueInv, Queued
  <2> QED
    BY <1>1, <1>3, <2>1, Released DEF Replied
<1>6. PermitsConserved' /\ permits' \in Nat /\ IsFiniteSet(pending')
  <2>1. Cardinality({}) = 0 /\ IsFiniteSet(pending')
    BY <1>1, FS_EmptySet
  <2>2. Cardinality(pending) \in Nat /\ permits \in Nat /\ Len(outbound) \in Nat
    BY <1>2, PendingFinite, ConstantsAssumption DEF TypeOK
  <2> QED
    BY <1>1, <1>2, <2>1, <2>2 DEF PermitsConserved
<1>7. reply' \in [Requests -> Replied] /\ permits' \in 0..Permits
  BY <1>1, <1>2, <1>6, SendType, Bounded DEF Replied, TypeOK
<1>8. TypeOK'
  BY <1>1, <1>2, <1>7 DEF TypeOK, callVars, eventVars, Replied
<1> QED
  BY <1>4, <1>5, <1>6, <1>8 DEF IInv

LEMMA StopStep ==
  ASSUME IInv, Stop
  PROVE  IInv'
<1> DEFINE drained == {outbound[i].request : i \in DOMAIN outbound}
<1>1. /\ reply' = Send(drained, "shutdown") /\ permits' = permits + Len(outbound)
      /\ outbound' = <<>> /\ stopping' = "done"
      /\ UNCHANGED <<generation, link, connected, pending, callVars, runs, eventVars, blocked>>
  BY DEF Stop
<1>2. TypeOK /\ QueueInv /\ PermitsConserved
  BY DEF IInv
<1>3. \A q \in Requests : ~Queued(q)'
  BY <1>1 DEF Queued
<1>4. \A q \in drained : q \notin pending
  BY <1>2 DEF QueueInv
<1> HIDE DEF drained
<1>5. QueueInv' /\ outbound' \in Seq(Entry)
  <2>1. DOMAIN outbound' = {} /\ outbound' \in Seq(Entry)
    BY <1>1
  <2> QED
    BY <2>1 DEF QueueInv
<1>6. \A q \in Requests : CallInv(q)'
  BY <1>1, <1>3, <1>4, Released DEF Replied, Gone
<1>7. PermitsConserved' /\ permits' \in Nat
  <2>1. Cardinality(pending) \in Nat /\ permits \in Nat /\ Len(outbound) \in Nat /\ Len(outbound') = 0
    BY <1>1, <1>2, PendingFinite, ConstantsAssumption DEF TypeOK
  <2> QED
    BY <1>1, <1>2, <2>1 DEF PermitsConserved
<1>8. reply' \in [Requests -> Replied] /\ permits' \in 0..Permits
  BY <1>1, <1>2, <1>5, <1>7, PendingFinite, SendType, Bounded DEF Replied
<1>9. TypeOK'
  BY <1>1, <1>2, <1>5, <1>8 DEF TypeOK, callVars, eventVars, Replied
<1> QED
  BY <1>5, <1>6, <1>7, <1>9 DEF IInv

LEMMA IInvStep == IInv /\ [Next]_vars => IInv'
<1> SUFFICES ASSUME IInv, [Next]_vars
             PROVE  IInv'
  OBVIOUS
<1>1. ASSUME NEW r \in Requests, Request(r) \/ Caller(r)
      PROVE  IInv'
  BY <1>1, CallerStep, EnqueueStep DEF Caller
<1>2. ASSUME NEW r \in Requests, NEW result \in {"ok", "error"}, Answer(r, result)
      PROVE  IInv'
  BY <1>2, AnswerStep
<1>3. CASE ConnectionTask
  BY <1>3, OtherStep, WriteStep, RefuseStep, StopStep DEF ConnectionTask
<1>4. CASE WriteFails \/ Lose \/ ShutDown \/ Notify
  BY <1>4, WriteFailsStep, LoseStep, OtherStep
<1>5. CASE EventTask
  BY <1>5, HandleEventStep, OtherStep DEF EventTask
<1>6. CASE UNCHANGED vars
  BY <1>6, OtherStep
<1> QED
  BY <1>1, <1>2, <1>3, <1>4, <1>5, <1>6 DEF Next

------------------------------------------------------------------------------
\* Messages stay at one place at a time, with their permits, and the counts of
\* attempts and runs agree with the place.
THEOREM Invariance == Spec => []IInv
<1>1. Init => IInv
  BY IInvInit
<1>2. IInv /\ [Next]_vars => IInv'
  BY IInvStep
<1> QED
  BY <1>1, <1>2, PTL DEF Spec

\* Every variable keeps its type.
THEOREM TypeCorrect == Spec => []TypeOK
<1>1. IInv => TypeOK
  BY DEF IInv
<1> QED
  BY <1>1, Invariance, PTL

\* No permit of the semaphore is lost or made up, whatever becomes of callers
\* and connections (app-server/src/lib.rs, request_once and its Drop's).
THEOREM PermitsKept == Spec => []PermitsConserved
<1>1. IInv => PermitsConserved
  BY DEF IInv
<1> QED
  BY <1>1, Invariance, PTL

------------------------------------------------------------------------------
(* The refinement: each step is a step of the abstract call or a stutter. *)

LEMMA CallInit == Init => Call!Init
BY DEF Init, Call!Init

LEMMA ReturnEnds ==
  ASSUME IInv, NEW r \in Requests, NEW o \in Ended, Return(r, o), phase[r] # "done",
         UNCHANGED runs, o \in {"ok", "error"} => runs[r] > 0
  PROVE  Call!Next
<1>1. outcome[r] = "none" /\ outcome' = [outcome EXCEPT ![r] = o]
  BY DEF IInv, CallInv, Return
<1>2. o \in Call!Outcomes \ {"none"} /\ (o \in Call!Replies => runs[r] > 0)
  BY DEF Ended, Call!Outcomes, Call!Replies
<1>3. Call!End(r, o)
  BY <1>1, <1>2 DEF Call!End
<1> QED
  BY <1>2, <1>3 DEF Call!Next

LEMMA WrittenRuns ==
  ASSUME IInv, outbound # <<>>, UNCHANGED outcome,
         runs' = [runs EXCEPT ![Head(outbound).request] = @ + 1]
  PROVE  Call!Next
<1> DEFINE w == Head(outbound).request
<1>1. w \in Requests /\ Queued(w)
  <2>1. 1 \in DOMAIN outbound /\ Head(outbound) = outbound[1] /\ Head(outbound) \in Entry
    BY DEF IInv, TypeOK
  <2> QED
    BY <2>1 DEF Queued, Entry
<1>2. runs[w] < 2 /\ outcome[w] \in {"none", "timeout"}
  <2>1. CallInv(w) /\ runs[w] \in 0..2 /\ attempt[w] \in 0..2
    BY <1>1 DEF IInv, TypeOK
  <2> QED
    BY <1>1, <2>1 DEF CallInv, Gone
<1>3. Call!Run(w)
  BY <1>2 DEF Call!Run
<1> QED
  BY <1>1, <1>3 DEF Call!Next

LEMMA CallStep == IInv /\ [Next]_vars => [Call!Next]_(Call!vars)
<1> SUFFICES ASSUME IInv, [Next]_vars
             PROVE  Call!Next \/ UNCHANGED <<outcome, runs>>
  BY DEF Call!vars
<1>1. ASSUME NEW r \in Requests, Request(r) \/ Caller(r)
      PROVE  Call!Next \/ UNCHANGED <<outcome, runs>>
  <2>1. CASE Request(r) \/ SeeConnected(r) \/ Enqueue(r) \/ Retry(r)
    BY <2>1 DEF Request, Start, SeeConnected, Enqueue, Retry
  <2>2. CASE Refused(r)
    BY <2>2, ReturnEnds DEF Refused, Ended
  <2>3. CASE TimeOut(r)
    BY <2>3, ReturnEnds DEF TimeOut, Ended
  <2>4. CASE Receive(r)
    <3>1. Return(r, reply[r]) /\ UNCHANGED runs /\ phase[r] # "done"
      BY <2>4 DEF Receive
    <3>2. reply[r] \in Ended /\ (reply[r] \in {"ok", "error"} => runs[r] > 0)
      BY <2>4 DEF Receive, IInv, TypeOK, CallInv, Ended
    <3> QED
      BY <3>1, <3>2, ReturnEnds
  <2> QED
    BY <1>1, <2>1, <2>2, <2>3, <2>4 DEF Caller
<1>2. ASSUME NEW r \in Requests, NEW result \in {"ok", "error"}, Answer(r, result)
      PROVE  UNCHANGED <<outcome, runs>>
  BY <1>2 DEF Answer, callVars
<1>3. CASE Write
  BY <1>3, WrittenRuns DEF Write, callVars
<1>4. CASE WriteFails
  <2>1. outbound # <<>> /\ UNCHANGED outcome
    BY <1>4 DEF WriteFails, callVars
  <2>2. runs' = runs \/ runs' = [runs EXCEPT ![Head(outbound).request] = @ + 1]
    BY <1>4 DEF WriteFails
  <2> QED
    BY <2>1, <2>2, WrittenRuns
<1>5. CASE \/ Connect \/ Initialized \/ RefuseStale \/ Closed \/ Stop \/ Unblock
           \/ Lose \/ ShutDown \/ Notify
  BY <1>5 DEF Connect, Initialized, RefuseStale, Closed, Stop, Unblock, Lose, ShutDown, Notify,
              callVars
<1>6. CASE HandleEvent \/ EventHandled
  BY <1>6 DEF HandleEvent, Start, EventHandled, callVars
<1>7. CASE UNCHANGED vars
  BY <1>7 DEF vars, callVars
<1> QED
  BY <1>1, <1>2, <1>3, <1>4, <1>5, <1>6, <1>7 DEF Next, ConnectionTask, EventTask

\* Requests implement the abstract call: one outcome each, a reply only to a
\* request the app-server ran, at most two runs, and none after the outcome
\* unless the caller gave up waiting (AppServerClient::request).
THEOREM Implementation == Spec => ImplementsRemoteCall
<1>1. Init => Call!Init
  BY CallInit
<1>2. IInv /\ [Next]_vars => [Call!Next]_(Call!vars)
  BY CallStep
<1> QED
  BY <1>1, <1>2, Invariance, PTL DEF Spec, ImplementsRemoteCall, Call!Spec
==============================================================================
