------------------------- MODULE UpdatePollingProofs -------------------------
(***************************************************************************)
(* Proofs about UpdatePolling for every number of updates, chats, backlog, *)
(* crashes and store failures.                                             *)
(*                                                                         *)
(* The argument: the poller's map, together with the rest of the batch, is *)
(* a gap-free window of the arrived updates that starts at Base, the lower *)
(* end of what Telegram still delivers.  So the least key of the map is    *)
(* the least unrecorded update, and recording it keeps the records equal   *)
(* to the prefix below the stored offset.                                  *)
(***************************************************************************)
EXTENDS UpdatePolling, FiniteSetTheorems, SequenceTheorems, TLAPS

\* The first update Telegram would still deliver on the next getUpdates.
Base == Larger(acked, offset)

\* No arrived update between Base and a member of S is missing from T.
GapFree(S, T) == \A p \in S, x \in arrived : Base <= x /\ x < p => x \in T

Window ==
    /\ pending \cup batch \subseteq {x \in arrived : Base <= x}
    /\ GapFree(pending, pending)
    /\ GapFree(batch, pending \cup batch)

Records ==
    /\ processed = {id \in arrived : id < storedOffset}
    /\ processed \subseteq done
    /\ storedOffset = 0 \/ storedOffset - 1 \in arrived
    /\ acked <= storedOffset /\ offset <= storedOffset

Handled ==
    /\ confirmed \subseteq pending
    /\ confirmed \subseteq done
    /\ completions \subseteq done

\* Everything between the channel and a handler is an update that arrived.
Delivered ==
    /\ channel \in Seq(arrived)
    /\ workerQueue \in [Chats -> Seq(arrived)]
    /\ running \in [Chats -> arrived \cup {NoUpdate}]
    /\ started \in Seq(arrived)
    /\ done \subseteq arrived

Control ==
    /\ pc # "send" => batch = {}
    /\ pc = "down" => pending = {} /\ offset = 0

PollerInv == Window /\ Records /\ Handled /\ Control

IInv == TypeOK /\ PollerInv /\ Delivered

------------------------------------------------------------------------------
\* The updates of a batch have no gap: what precedes one of them is in it too.
LEMMA FirstOfPrefix ==
    ASSUME NEW S \in SUBSET Ids
    PROVE  /\ FirstOf(S) \subseteq S
           /\ \A x \in FirstOf(S), y \in S : y < x => y \in FirstOf(S)
<1>1. FirstOf(S) \subseteq S
  BY DEF FirstOf
<1>2. ASSUME NEW x \in FirstOf(S), NEW y \in S, y < x
      PROVE  y \in FirstOf(S)
  <2> DEFINE Below(z) == {w \in S : w < z}
  <2>1. x \in S /\ Cardinality(Below(x)) < MaxBacklog
    BY <1>2 DEF FirstOf
  <2>2. Below(y) \subseteq Below(x)
    <3>1. \A w \in S : w \in Nat
      BY MaxIdAssumption DEF Ids
    <3>2. \A w \in S : w < y => w < x
      BY <1>2, <2>1, <3>1
    <3> QED BY <3>2
  <2>3. IsFiniteSet(Ids)
    BY MaxIdAssumption, FS_Interval DEF Ids
  <2>4. IsFiniteSet(Below(x))
    BY <2>3, FS_Subset
  <2>5. Cardinality(Below(y)) <= Cardinality(Below(x))
    BY <2>2, <2>4, FS_Subset
  <2>6. Cardinality(Below(y)) \in Nat /\ Cardinality(Below(x)) \in Nat
    BY <2>2, <2>4, FS_Subset, FS_CardinalityType
  <2>7. Cardinality(Below(y)) < MaxBacklog
    BY <2>1, <2>5, <2>6, MaxBacklogAssumption
  <2> QED BY <2>7 DEF FirstOf
<1> QED BY <1>1, <1>2


\* The queues between the poller and the handlers hold update ids.
LEMMA TypeStep == TypeOK /\ [Next]_vars => TypeOK'
<1> SUFFICES ASSUME TypeOK, [Next]_vars PROVE TypeOK'
  OBVIOUS
<1> USE MaxIdAssumption, BudgetAssumption, ChatOfAssumption
        DEF TypeOK, telegram, durable, poller, workers, history, budget,
            Ids, NoUpdate
<1>1. ASSUME NEW id \in Ids, Arrive(id) PROVE TypeOK'
  BY <1>1 DEF Arrive
<1>2. CASE Poll
  BY <1>2 DEF Poll, Larger, FirstOf
<1>3. CASE SkipPending
  BY <1>3 DEF SkipPending, Lowest
<1>4. CASE SkipProcessed
  BY <1>4 DEF SkipProcessed, Lowest
<1>5. ASSUME NEW id \in Ids, SendToDispatcher(id), faults' \in 0..MaxFaults
      PROVE  TypeOK'
  BY <1>5 DEF SendToDispatcher
<1>6. CASE Dispatch
  BY <1>5, <1>6 DEF Dispatch, Lowest
<1>7. CASE DispatchUnchecked
  <2>1. faults' \in 0..MaxFaults
    BY <1>7 DEF DispatchUnchecked
  <2> QED BY <1>5, <1>7, <2>1 DEF DispatchUnchecked, Lowest
<1>8. CASE EndOfBatch
  BY <1>8 DEF EndOfBatch
<1>9. CASE Route
  <2>1. Head(channel) \in Ids /\ Tail(channel) \in Seq(Ids)
    BY <1>9, HeadTailProperties DEF Route
  <2>2. ChatOf[Head(channel)] \in Chats
    BY <2>1
  <2>3. workerQueue' \in [Chats -> Seq(Ids)]
    BY <1>9, <2>1, <2>2 DEF Route
  <2> QED BY <1>9, <2>1, <2>3 DEF Route
<1>10. ASSUME NEW c \in Chats, StartHandler(c) PROVE TypeOK'
  <2>1. Head(workerQueue[c]) \in Ids /\ Tail(workerQueue[c]) \in Seq(Ids)
    BY <1>10, HeadTailProperties DEF StartHandler
  <2>2. workerQueue' \in [Chats -> Seq(Ids)] /\ started' \in Seq(Ids)
    BY <1>10, <2>1 DEF StartHandler
  <2>3. running' \in [Chats -> Ids \cup {NoUpdate}]
    BY <1>10, <2>1 DEF StartHandler
  <2> QED BY <1>10, <2>2, <2>3 DEF StartHandler
<1>11. ASSUME NEW c \in Chats, FinishHandler(c) PROVE TypeOK'
  <2>1. running[c] \in Ids
    BY <1>11 DEF FinishHandler
  <2>2. running' \in [Chats -> Ids \cup {NoUpdate}]
    BY <1>11 DEF FinishHandler
  <2> QED BY <1>11, <2>1, <2>2 DEF FinishHandler
<1>12. ASSUME NEW id \in completions, Drain(id) PROVE TypeOK'
  BY <1>12 DEF Drain
<1>13. CASE EndOfDrain
  BY <1>13 DEF EndOfDrain
<1>14. CASE Record
  BY <1>14 DEF Record, NextConfirmed, Lowest, Larger
<1>15. CASE RecordFails
  BY <1>15 DEF RecordFails
<1>16. CASE EndOfPrefix
  BY <1>16 DEF EndOfPrefix
<1>17. CASE Crash
  BY <1>17 DEF Crash
<1>18. CASE Restart
  BY <1>18 DEF Restart
<1>19. CASE RestartBlind
  BY <1>19 DEF RestartBlind
<1>20. CASE UNCHANGED vars
  BY <1>20 DEF vars
<1> QED
  BY <1>1, <1>2, <1>3, <1>4, <1>6, <1>7, <1>8, <1>9, <1>10, <1>11, <1>12,
     <1>13, <1>14, <1>15, <1>16, <1>17, <1>18, <1>19, <1>20
     DEF Next, PollerStep, Environment

\* Type correctness, for every value of the constants.
THEOREM TypeCorrect == Spec => []TypeOK
<1>1. Init => TypeOK
  BY BudgetAssumption DEF Init, TypeOK, NoUpdate
<1> QED BY <1>1, TypeStep, PTL DEF Spec

------------------------------------------------------------------------------
\* Only Arrive, Poll, Record and the restarts move the window; every other step
\* at most shifts an update from the batch into the map.
LEMMA WindowStep == TypeOK /\ PollerInv /\ Delivered /\ [Next]_vars => PollerInv'
<1> SUFFICES ASSUME TypeOK, PollerInv, Delivered, [Next]_vars PROVE PollerInv'
  OBVIOUS
<1> USE MaxIdAssumption
        DEF telegram, durable, poller, workers, history, budget, Ids, NoUpdate,
            PollerInv, Window, Records, Handled, Control, GapFree, Base
<1>n. /\ arrived \subseteq Nat /\ batch \subseteq Nat /\ pending \subseteq Nat
      /\ acked \in Nat /\ offset \in Nat /\ storedOffset \in Nat
      /\ processed \subseteq Nat
      /\ Base \in Nat /\ acked <= Base /\ offset <= Base
  BY DEF TypeOK, Larger
<1>1. ASSUME NEW id \in Ids, Arrive(id) PROVE PollerInv'
  <2>1. \A x \in arrived : x < id
    BY <1>1 DEF Arrive
  <2>2. storedOffset <= id
    BY <2>1, <1>n
  <2>3. Base' = Base
    BY <1>1 DEF Arrive
  <2>4. Base <= storedOffset
    BY DEF Larger
  <2>5. Window'
    BY <1>1, <1>n, <2>1, <2>3 DEF Arrive
  <2> QED BY <1>1, <1>n, <2>2, <2>5 DEF Arrive
<1>2. CASE Poll
  <2> DEFINE Offered == {x \in arrived : x >= acked'}
  <2>1. acked' = Base /\ Base' = Base
    BY <1>2, <1>n DEF Poll, Larger
  <2>2. Offered \in SUBSET Ids
    BY DEF TypeOK
  <2>3. batch' = FirstOf(Offered)
    BY <1>2 DEF Poll
  <2>4. /\ batch' \subseteq Offered
        /\ \A x \in batch', y \in Offered : y < x => y \in batch'
    BY <2>2, <2>3, FirstOfPrefix
  <2>5. Window'
    BY <1>2, <1>n, <2>1, <2>4 DEF Poll
  <2> QED BY <1>2, <1>n, <2>1, <2>5 DEF Poll, Larger
<1>3. CASE SkipPending
  BY <1>3, <1>n DEF SkipPending
<1>4. CASE SkipProcessed
  <2>1. PICK id \in batch : /\ \A y \in batch : id <= y
                            /\ id \in processed /\ batch' = batch \ {id}
                            /\ pending' = pending \cup {id}
                            /\ confirmed' = confirmed \cup {id}
    BY <1>4 DEF SkipProcessed, Lowest
  <2>2. Base' = Base /\ arrived' = arrived
    BY <1>4 DEF SkipProcessed
  <2>3. Window'
    BY <1>n, <2>1, <2>2
  <2> QED BY <1>4, <2>1, <2>3 DEF SkipProcessed
<1>5. ASSUME NEW id \in Lowest(batch), SendToDispatcher(id), pc = "send"
      PROVE  PollerInv'
  <2>1. /\ id \in batch /\ \A y \in batch : id <= y
        /\ batch' = batch \ {id} /\ pending' = pending \cup {id}
    BY <1>5 DEF SendToDispatcher, Lowest
  <2>2. Base' = Base
    BY <1>5 DEF SendToDispatcher
  <2>3. Window'
    BY <1>5, <1>n, <2>1, <2>2 DEF SendToDispatcher
  <2> QED BY <1>5, <2>1, <2>3 DEF SendToDispatcher
<1>6. CASE Dispatch
  BY <1>5, <1>6 DEF Dispatch
<1>7. CASE DispatchUnchecked
  BY <1>5, <1>7 DEF DispatchUnchecked
<1>8. CASE EndOfBatch
  BY <1>8 DEF EndOfBatch
<1>9. CASE Route
  BY <1>9 DEF Route
<1>10. ASSUME NEW c \in Chats, StartHandler(c) PROVE PollerInv'
  BY <1>10 DEF StartHandler
<1>11. ASSUME NEW c \in Chats, FinishHandler(c) PROVE PollerInv'
  BY <1>11 DEF FinishHandler
<1>12. ASSUME NEW id \in completions, Drain(id) PROVE PollerInv'
  BY <1>12 DEF Drain
<1>13. CASE EndOfDrain
  BY <1>13 DEF EndOfDrain
<1>14. CASE Record
  <2>1. PICK id \in pending \cap confirmed :
          /\ \A x \in pending : id <= x
          /\ processed' = processed \cup {id}
          /\ storedOffset' = IF id \in processed THEN storedOffset
                             ELSE Larger(storedOffset, id + 1)
          /\ pending' = pending \ {id}
          /\ confirmed' = confirmed \ {id}
          /\ offset' = id + 1
    BY <1>14 DEF Record, NextConfirmed, Lowest
  <2>2. id \in arrived /\ id \in Nat /\ Base <= id
    BY <2>1, <1>n
  <2>3. \A x \in arrived : x < id => x < storedOffset
    \* An arrived update in the window would be a smaller key of the map.
    <3>1. ASSUME NEW x \in arrived, x < id, x >= storedOffset PROVE FALSE
      <4>1. Base <= x
        BY <3>1, <1>n DEF Larger
      <4>2. x \in pending
        BY <2>1, <3>1, <4>1
      <4> QED BY <2>1, <3>1, <4>2, <1>n, <2>2
    <3> QED BY <3>1, <1>n
  <2>4. storedOffset' = Larger(storedOffset, id + 1)
    BY <2>1, <2>2, <1>n DEF Larger
  <2>5. Records'
    <3>1. processed' = {x \in arrived : x < storedOffset'}
      <4>1. CASE id \in processed
        <5>1. id + 1 <= storedOffset
          BY <4>1, <2>2, <1>n
        <5>2. storedOffset' = storedOffset /\ processed' = processed
          BY <4>1, <2>1
        <5> QED BY <5>2
      <4>2. CASE id \notin processed
        <5>1. storedOffset <= id
          BY <4>2, <2>2, <1>n
        <5>2. storedOffset' = id + 1
          BY <4>2, <5>1, <2>1, <2>2, <1>n DEF Larger
        <5>3. \A x \in arrived : x < id + 1 <=> x < storedOffset \/ x = id
          BY <5>1, <2>2, <2>3, <1>n
        <5> QED BY <5>2, <5>3, <2>1, <2>2
      <4> QED BY <4>1, <4>2
    <3>2. processed' \subseteq done
      BY <2>1
    <3>3. storedOffset' = 0 \/ storedOffset' - 1 \in arrived
      BY <2>2, <2>4, <1>n DEF Larger
    <3>4. acked <= storedOffset' /\ offset' <= storedOffset'
      BY <2>1, <2>2, <2>4, <1>n DEF Larger
    <3> QED BY <1>14, <3>1, <3>2, <3>3, <3>4 DEF Record
  <2>6. Window'
    <3>1. batch' = {} /\ arrived' = arrived /\ acked' = acked
      BY <1>14 DEF Record
    <3>2. Base' = Larger(acked, id + 1)
      BY <2>1, <3>1
    <3>3. /\ Base' \in Nat /\ Base <= Base' /\ id + 1 <= Base'
          /\ \A x \in pending' : Base' <= x
      <4>1. \A x \in pending' : x \in Nat /\ Base <= x /\ id + 1 <= x
        BY <1>n, <2>1, <2>2
      <4>2. Base' \in Nat /\ (Base' = id + 1 \/ (Base' = acked /\ id + 1 <= acked))
        BY <1>n, <2>2, <3>2 DEF Larger
      <4>3. Base <= Base'
        BY <1>n, <2>2, <4>2
      <4>4. \A x \in pending' : Base' <= x
        BY <1>n, <4>1, <4>2
      <4> QED BY <1>n, <2>2, <4>2, <4>3, <4>4
    <3>4. pending' \subseteq {x \in arrived : Base' <= x}
      BY <2>1, <3>3, <1>n
    <3>5. ASSUME NEW p \in pending', NEW x \in arrived, Base' <= x, x < p
          PROVE  x \in pending'
      <4>1. x \in Nat /\ Base <= x /\ x # id
        BY ONLY <3>5, <3>3, <1>n, <2>2
      <4>2. x \in pending
        BY <4>1, <3>5, <2>1
      <4> QED BY <4>1, <4>2, <2>1
    <3> QED BY <3>1, <3>4, <3>5
  <2> QED BY <1>14, <2>1, <2>5, <2>6 DEF Record
<1>15. CASE RecordFails
  BY <1>15 DEF RecordFails
<1>16. CASE EndOfPrefix
  BY <1>16 DEF EndOfPrefix
<1>17. CASE Crash
  BY <1>17, <1>n DEF Crash, Larger
<1>18. CASE Restart
  BY <1>18, <1>n DEF Restart, Larger
<1>19. CASE RestartBlind
  BY <1>19 DEF RestartBlind
<1>20. CASE UNCHANGED vars
  BY <1>20 DEF vars
<1> QED
  BY <1>1, <1>2, <1>3, <1>4, <1>6, <1>7, <1>8, <1>9, <1>10, <1>11, <1>12,
     <1>13, <1>14, <1>15, <1>16, <1>17, <1>18, <1>19, <1>20
     DEF Next, PollerStep, Environment

------------------------------------------------------------------------------
\* Queues, workers and history hold arrived updates only, and arrived updates
\* are never forgotten.
LEMMA DeliveredStep ==
    TypeOK /\ PollerInv /\ Delivered /\ [Next]_vars => Delivered'
<1> SUFFICES ASSUME TypeOK, PollerInv, Delivered, [Next]_vars PROVE Delivered'
  OBVIOUS
<1> USE DEF Delivered, telegram, durable, poller, workers, history, budget
<1>1. ASSUME NEW id \in Ids, Arrive(id) PROVE Delivered'
  <2>1. arrived \subseteq arrived'
    BY <1>1 DEF Arrive
  <2>2. \A q \in Seq(arrived) : q \in Seq(arrived')
    BY <2>1, SeqMonotonic
  <2>3. UNCHANGED <<channel, workerQueue, running, started, done>>
    BY <1>1 DEF Arrive
  <2>4. workerQueue \in [Chats -> Seq(arrived')]
    BY <2>2
  <2> QED BY <2>1, <2>2, <2>3, <2>4
<1>2. ASSUME NEW id \in Lowest(batch), SendToDispatcher(id) PROVE Delivered'
  <2>1. id \in arrived
    BY <1>2 DEF Lowest, PollerInv, Window
  <2>2. channel' \in Seq(arrived)
    BY <1>2, <2>1 DEF SendToDispatcher
  <2> QED BY <1>2, <2>2 DEF SendToDispatcher
<1>3. CASE Dispatch
  BY <1>2, <1>3 DEF Dispatch
<1>4. CASE DispatchUnchecked
  BY <1>2, <1>4 DEF DispatchUnchecked
<1>5. CASE Route
  <2>1. Head(channel) \in arrived /\ Tail(channel) \in Seq(arrived)
    BY <1>5, HeadTailProperties DEF Route
  <2>2. ChatOf[Head(channel)] \in Chats
    BY <2>1, ChatOfAssumption DEF TypeOK
  <2>3. workerQueue' \in [Chats -> Seq(arrived)]
    BY <1>5, <2>1, <2>2 DEF Route
  <2> QED BY <1>5, <2>1, <2>3 DEF Route
<1>6. ASSUME NEW c \in Chats, StartHandler(c) PROVE Delivered'
  <2>1. Head(workerQueue[c]) \in arrived /\ Tail(workerQueue[c]) \in Seq(arrived)
    BY <1>6, HeadTailProperties DEF StartHandler
  <2>2. workerQueue' \in [Chats -> Seq(arrived)] /\ started' \in Seq(arrived)
    BY <1>6, <2>1 DEF StartHandler
  <2> QED BY <1>6, <2>1, <2>2 DEF StartHandler
<1>7. ASSUME NEW c \in Chats, FinishHandler(c) PROVE Delivered'
  <2>1. running[c] \in arrived
    BY <1>7 DEF FinishHandler
  <2> QED BY <1>7, <2>1 DEF FinishHandler
<1>8. CASE Crash
  BY <1>8 DEF Crash
<1>9. ASSUME UNCHANGED <<arrived, channel, workerQueue, running, started, done>>
      PROVE  Delivered'
  BY <1>9
<1>10. CASE \E id \in completions : Drain(id)
  BY <1>9, <1>10 DEF Drain
<1>11. CASE Poll \/ SkipPending \/ SkipProcessed \/ EndOfBatch
  BY <1>9, <1>11 DEF Poll, SkipPending, SkipProcessed, EndOfBatch
<1>12. CASE EndOfDrain \/ Record \/ EndOfPrefix \/ RecordFails
  BY <1>9, <1>12 DEF EndOfDrain, Record, EndOfPrefix, RecordFails
<1>13. CASE Restart \/ RestartBlind \/ UNCHANGED vars
  BY <1>9, <1>13 DEF Restart, RestartBlind, vars
<1> QED
  BY <1>1, <1>3, <1>4, <1>5, <1>6, <1>7, <1>8, <1>10, <1>11, <1>12, <1>13
     DEF Next, PollerStep, Environment

LEMMA Initially == Init => IInv
<1> SUFFICES ASSUME Init PROVE IInv
  OBVIOUS
<1>1. TypeOK
  BY BudgetAssumption DEF Init, TypeOK, NoUpdate
<1>2. PollerInv
  BY DEF Init, PollerInv, Window, GapFree, Base, Larger, Records, Handled,
         Control
<1>3. Delivered
  BY DEF Init, Delivered, NoUpdate
<1> QED BY <1>1, <1>2, <1>3 DEF IInv

THEOREM Invariance == Spec => []IInv
<1>1. IInv /\ [Next]_vars => IInv'
  BY TypeStep, WindowStep, DeliveredStep DEF IInv
<1> QED BY Initially, <1>1, PTL DEF Spec

\* The durable offset agrees with the records and with the handlers that ended.
THEOREM OffsetCorrect == Spec => []OffsetMatchesRecords
<1>1. IInv => OffsetMatchesRecords
  BY DEF IInv, PollerInv, Records, OffsetMatchesRecords
<1> QED BY Invariance, <1>1, PTL

\* No update is lost: Telegram is told to forget an update only after a handler
\* ran to its end for it, whatever the backlog, the crashes and the failures.
THEOREM NothingLost == Spec => []NoUpdateLost
<1>1. IInv => NoUpdateLost
  BY MaxIdAssumption
     DEF IInv, TypeOK, PollerInv, Records, NoUpdateLost, Ids
<1> QED BY Invariance, <1>1, PTL

------------------------------------------------------------------------------
\* Each step of the machinery is one step of the promised stream, or none.
LEMMA StreamStep == IInv /\ [Next]_vars => [Stream!Next]_(Stream!vars)
<1> SUFFICES ASSUME IInv, [Next]_vars PROVE [Stream!Next]_(Stream!vars)
  OBVIOUS
<1> USE DEF telegram, durable, poller, workers, history, budget
<1>1. ASSUME NEW id \in Ids, Arrive(id) PROVE Stream!Next
  <2>1. Stream!Arrive(id)
    BY <1>1 DEF Arrive, Stream!Arrive
  <2> QED BY <2>1 DEF Stream!Next, Ids
<1>2. ASSUME NEW c \in Chats, FinishHandler(c) PROVE Stream!Next
  <2>1. running[c] \in arrived /\ running[c] \in Ids
    BY <1>2 DEF FinishHandler, IInv, Delivered, TypeOK
  <2>2. Stream!Handle(running[c])
    BY <1>2, <2>1 DEF FinishHandler, Stream!Handle
  <2> QED BY <2>1, <2>2 DEF Stream!Next, Ids
<1>3. CASE Record
  <2>1. PICK id \in pending \cap confirmed :
          /\ \A x \in pending : id <= x
          /\ processed' = processed \cup {id}
    BY <1>3 DEF Record, NextConfirmed, Lowest
  <2>2. id \in Ids /\ id \in done /\ id \in arrived
    BY <2>1 DEF IInv, TypeOK, PollerInv, Handled, Window
  <2>3. UNCHANGED <<arrived, done>>
    BY <1>3 DEF Record
  <2>4. CASE id \in processed
    BY <2>1, <2>3, <2>4 DEF Stream!vars
  <2>5. CASE id \notin processed
    <3>1. IInv'
      BY TypeStep, WindowStep, DeliveredStep DEF IInv
    <3>2. processed' = {x \in arrived : x < storedOffset'}
      BY <2>3, <3>1 DEF IInv, PollerInv, Records
    <3>3. arrived \subseteq Nat /\ storedOffset' \in Nat
      BY <3>1, MaxIdAssumption DEF IInv, TypeOK, Ids
    <3>4. \A x \in arrived : x < id => x \in processed
      <4>1. id < storedOffset'
        BY <2>1, <2>2, <3>2
      <4>2. \A x \in arrived : x < id => x \in processed'
        BY <2>2, <3>2, <3>3, <4>1
      <4> QED BY <2>1, <2>2, <3>3, <4>2
    <3>5. Stream!Confirm(id)
      BY <2>1, <2>2, <2>3, <2>5, <3>4 DEF Stream!Confirm
    <3> QED BY <2>2, <3>5 DEF Stream!Next, Ids
  <2> QED BY <2>4, <2>5
<1>4. ASSUME UNCHANGED <<arrived, done, processed>> PROVE UNCHANGED Stream!vars
  BY <1>4 DEF Stream!vars
<1>5. CASE Poll \/ SkipPending \/ SkipProcessed \/ EndOfBatch \/ Restart
  BY <1>4, <1>5 DEF Poll, SkipPending, SkipProcessed, EndOfBatch, Restart
<1>6. CASE Dispatch \/ DispatchUnchecked
  BY <1>4, <1>6 DEF Dispatch, DispatchUnchecked, SendToDispatcher
<1>7. CASE Route \/ \E c \in Chats : StartHandler(c)
  BY <1>4, <1>7 DEF Route, StartHandler
<1>8. CASE (\E id \in completions : Drain(id)) \/ EndOfDrain
  BY <1>4, <1>8 DEF Drain, EndOfDrain
<1>9. CASE RecordFails \/ EndOfPrefix \/ Crash \/ RestartBlind
  BY <1>4, <1>9 DEF RecordFails, EndOfPrefix, Crash, RestartBlind
<1>10. CASE UNCHANGED vars
  BY <1>4, <1>10 DEF vars
<1> QED
  BY <1>1, <1>2, <1>3, <1>5, <1>6, <1>7, <1>8, <1>9, <1>10
     DEF Next, PollerStep, Environment

\* The poller, the dispatcher, the workers and the store together implement an
\* at-least-once stream that is confirmed in order and never ahead of a handler.
THEOREM Implementation == Spec => ImplementsStream
<1>1. Init => Stream!Init
  BY DEF Init, Stream!Init
<1> QED BY Invariance, <1>1, StreamStep, PTL DEF Spec, Stream!Spec, ImplementsStream

------------------------------------------------------------------------------
(* For any number of updates, chats, crashes and store failures: the updates  *)
(* of a chat are started in order, and none is dispatched twice.               *)
(*                                                                             *)
(* The argument: the poller sends updates in increasing order, also over       *)
(* several batches, because what it sent is in its map or below its offset and *)
(* the map has no gap (Window).  The channel and the queues of the workers     *)
(* keep that order, so that an update is at one place at a time.               *)

Increasing(s) == \A i, j \in 1..Len(s) : i < j => s[i] < s[j]
Members(s) == {s[i] : i \in 1..Len(s)}

Ordered ==
    /\ PerChatOrder
    /\ Increasing(channel)
    /\ \A c \in Chats : Increasing(workerQueue[c])
    /\ \A c \in Chats : \A x \in Members(workerQueue[c]) : ChatOf[x] = c
    /\ \A c \in Chats : \A x \in Members(workerQueue[c]), y \in Members(channel) : x < y
    /\ \A x \in Members(started), y \in Members(channel) : x < y
    /\ \A c \in Chats : \A x \in Members(started), y \in Members(workerQueue[c]) :
          ChatOf[x] = c => x < y

\* What this incarnation of the poller has sent.
WasSent(x) ==
    \/ x \in Members(channel) \/ x \in Members(started)
    \/ \E c \in Chats : x \in Members(workerQueue[c])

SentInOrder ==
    /\ \A x \in Ids : WasSent(x) => x \in pending \/ x < offset
    /\ \A x \in Ids, y \in batch \ pending : WasSent(x) => x < y

OrderInv == Ordered /\ SentInOrder

------------------------------------------------------------------------------
LEMMA Extended ==
  ASSUME NEW s \in Seq(Ids), NEW x \in Ids, Increasing(s), \A y \in Members(s) : y < x
  PROVE  /\ Append(s, x) \in Seq(Ids) /\ Increasing(Append(s, x))
         /\ Members(Append(s, x)) = Members(s) \cup {x}
<1> DEFINE t == Append(s, x)
<1>1. /\ t \in Seq(Ids) /\ Len(t) = Len(s) + 1 /\ t[Len(s) + 1] = x
      /\ \A i \in 1..Len(s) : t[i] = s[i]
      /\ Len(s) \in Nat
  OBVIOUS
<1> HIDE DEF t
<1>2. Members(t) = Members(s) \cup {x}
  BY <1>1 DEF Members
<1>3. Increasing(t)
  <2>1. ASSUME NEW i \in 1..Len(t), NEW j \in 1..Len(t), i < j
        PROVE  t[i] < t[j]
    <3>1. i \in 1..Len(s) /\ t[i] = s[i]
      BY <1>1, <2>1
    <3>2. CASE j = Len(s) + 1
      BY <1>1, <3>1, <3>2 DEF Members
    <3>3. CASE j # Len(s) + 1
      BY <1>1, <2>1, <3>1, <3>3 DEF Increasing
    <3> QED
      BY <3>2, <3>3
  <2> QED
    BY <2>1 DEF Increasing
<1> QED
  BY <1>1, <1>2, <1>3 DEF t

LEMMA Shortened ==
  ASSUME NEW s \in Seq(Ids), s # <<>>, Increasing(s)
  PROVE  /\ Head(s) \in Ids /\ Tail(s) \in Seq(Ids) /\ Increasing(Tail(s))
         /\ Members(s) = Members(Tail(s)) \cup {Head(s)}
         /\ \A y \in Members(Tail(s)) : Head(s) < y
<1> DEFINE t == Tail(s)
<1>1. /\ t \in Seq(Ids) /\ Len(s) \in Nat \ {0} /\ Len(t) = Len(s) - 1 /\ Head(s) = s[1]
      /\ \A i \in 1..Len(t) : t[i] = s[i + 1] /\ i + 1 \in 1..Len(s)
      /\ Head(s) \in Ids
  OBVIOUS
<1> HIDE DEF t
<1>2. Increasing(t)
  BY <1>1 DEF Increasing
<1>3. \A y \in Members(t) : Head(s) < y
  BY <1>1 DEF Increasing, Members
<1>4. Members(s) = Members(t) \cup {Head(s)}
  <2>1. ASSUME NEW i \in 1..Len(s), i # 1
        PROVE  s[i] \in Members(t)
    <3>1. i - 1 \in 1..Len(t) /\ t[i - 1] = s[i]
      BY <1>1, <2>1
    <3> QED
      BY <3>1 DEF Members
  <2>2. s[1] = Head(s) /\ 1 \in 1..Len(s)
    BY <1>1
  <2>3. Members(t) \subseteq Members(s)
    BY <1>1 DEF Members
  <2>4. Members(s) \subseteq Members(t) \cup {Head(s)}
    BY <2>1, <2>2 DEF Members
  <2> QED
    BY <2>2, <2>3, <2>4 DEF Members
<1> QED
  BY <1>1, <1>2, <1>3, <1>4 DEF t

LEMMA Typed ==
  ASSUME TypeOK
  PROVE  /\ Ids \subseteq Nat /\ channel \in Seq(Ids) /\ started \in Seq(Ids)
         /\ \A c \in Chats : workerQueue[c] \in Seq(Ids)
         /\ \A x : WasSent(x) => x \in Ids
<1>1. Ids \subseteq Nat
  BY MaxIdAssumption DEF Ids
<1>2. \A s \in Seq(Ids) : Members(s) \subseteq Ids
  BY DEF Members
<1> QED
  BY <1>1, <1>2 DEF TypeOK, WasSent

------------------------------------------------------------------------------
\* A step that leaves the order of what was sent alone.
LEMMA NothingSent ==
  ASSUME TypeOK, OrderInv, UNCHANGED <<channel, workerQueue, started>>,
         \A x \in Ids : WasSent(x) => x \in pending' \/ x < offset',
         \A x \in Ids, y \in batch' \ pending' : WasSent(x) => x < y
  PROVE  OrderInv'
<1>1. Ordered'
  BY DEF OrderInv, Ordered, PerChatOrder
<1>2. \A x \in Ids : WasSent(x)' <=> WasSent(x)
  BY DEF WasSent
<1> QED
  BY <1>1, <1>2 DEF OrderInv, SentInOrder

LEMMA SendOrder ==
  ASSUME IInv, OrderInv, NEW id \in Lowest(batch) \ pending, SendToDispatcher(id)
  PROVE  OrderInv'
<1>1. /\ channel' = Append(channel, id) /\ batch' = batch \ {id}
      /\ pending' = pending \cup {id} /\ UNCHANGED <<offset, workerQueue, started>>
  BY DEF SendToDispatcher, history
<1>2. id \in Ids /\ id \in batch \ pending /\ \A y \in batch : id <= y
  BY DEF IInv, TypeOK, Lowest
<1>3. \A x \in Ids : WasSent(x) => x < id
  BY <1>2 DEF OrderInv, SentInOrder
<1>4. TypeOK /\ batch \subseteq Ids
  BY DEF IInv, TypeOK
<1>5. /\ Increasing(channel') /\ Members(channel') = Members(channel) \cup {id}
  <2>1. \A y \in Members(channel) : y < id
    BY <1>3, <1>4, Typed DEF WasSent
  <2> QED
    BY <1>1, <1>2, <1>4, <2>1, Extended, Typed DEF OrderInv, Ordered
<1>6. \A x : WasSent(x)' <=> WasSent(x) \/ x = id
  BY <1>1, <1>5 DEF WasSent
<1>7. Ordered'
  <2>1. /\ \A x \in Members(started) : x < id
        /\ \A c \in Chats : \A x \in Members(workerQueue[c]) : x < id
    BY <1>3, <1>4, Typed DEF WasSent
  <2> QED
    BY <1>1, <1>5, <2>1 DEF OrderInv, Ordered, PerChatOrder
<1>8. SentInOrder'
  <2>1. \A x \in Ids : WasSent(x)' => x \in pending' \/ x < offset'
    BY <1>1, <1>6 DEF OrderInv, SentInOrder
  <2>2. ASSUME NEW x \in Ids, NEW y \in batch' \ pending', WasSent(x)'
        PROVE  x < y
    <3>1. y \in batch \ pending /\ y # id /\ id <= y /\ y \in Nat /\ id \in Nat
      BY <1>1, <1>2, <1>4, Typed
    <3> QED
      BY <1>6, <2>2, <3>1 DEF OrderInv, SentInOrder
  <2> QED
    BY <2>1, <2>2 DEF SentInOrder
<1> QED
  BY <1>7, <1>8 DEF OrderInv

LEMMA RouteOrder ==
  ASSUME IInv, OrderInv, Route
  PROVE  OrderInv'
<1> DEFINE h == Head(channel)  c == ChatOf[h]
<1>1. /\ channel # <<>> /\ channel' = Tail(channel)
      /\ workerQueue' = [workerQueue EXCEPT ![c] = Append(@, h)]
      /\ UNCHANGED <<offset, pending, batch, started>>
  BY DEF Route, poller, history
<1>2. TypeOK /\ Ordered /\ SentInOrder /\ workerQueue \in [Chats -> Seq(Ids)]
  BY DEF IInv, OrderInv, TypeOK
<1>3. /\ h \in Ids /\ Increasing(channel') /\ Members(channel) = Members(channel') \cup {h}
      /\ \A y \in Members(channel') : h < y
  BY <1>1, <1>2, Shortened, Typed DEF Ordered
<1>4. c \in Chats
  BY <1>3, ChatOfAssumption
<1>5. /\ workerQueue'[c] = Append(workerQueue[c], h)
      /\ \A d \in Chats \ {c} : workerQueue'[d] = workerQueue[d]
  BY <1>1, <1>2, <1>4
<1>6. Increasing(workerQueue'[c]) /\ Members(workerQueue'[c]) = Members(workerQueue[c]) \cup {h}
  <2>1. \A y \in Members(workerQueue[c]) : y < h
    BY <1>2, <1>3, <1>4 DEF Ordered
  <2>2. workerQueue[c] \in Seq(Ids) /\ Increasing(workerQueue[c])
    BY <1>2, <1>4 DEF Ordered
  <2> QED
    BY <1>3, <1>5, <2>1, <2>2, Extended
<1>7. \A x : WasSent(x)' <=> WasSent(x)
  BY <1>1, <1>3, <1>4, <1>5, <1>6 DEF WasSent
<1>8. ChatOf[h] = c
  OBVIOUS
<1> HIDE DEF h, c
<1>9. \A d \in Chats : \A x \in Members(workerQueue'[d]) :
         x \in Members(workerQueue[d]) \/ (x = h /\ d = c)
  BY <1>4, <1>5, <1>6
<1>10. Ordered'
  <2>1. PerChatOrder'
    BY <1>1, <1>2 DEF Ordered, PerChatOrder
  <2>2. \A d \in Chats : Increasing(workerQueue'[d])
    BY <1>2, <1>5, <1>6 DEF Ordered
  <2>3. \A d \in Chats : \A x \in Members(workerQueue'[d]) : ChatOf[x] = d
    BY <1>2, <1>8, <1>9 DEF Ordered
  <2>4. \A d \in Chats : \A x \in Members(workerQueue'[d]), y \in Members(channel') : x < y
    BY <1>2, <1>3, <1>9 DEF Ordered
  <2>5. \A x \in Members(started), y \in Members(channel') : x < y
    BY <1>2, <1>3 DEF Ordered
  <2>6. \A d \in Chats : \A x \in Members(started), y \in Members(workerQueue'[d]) :
           ChatOf[x] = d => x < y
    BY <1>2, <1>3, <1>9 DEF Ordered
  <2> QED
    BY <1>1, <1>3, <2>1, <2>2, <2>3, <2>4, <2>5, <2>6 DEF Ordered
<1>11. SentInOrder'
  BY <1>1, <1>2, <1>7 DEF SentInOrder
<1> QED
  BY <1>10, <1>11 DEF OrderInv

LEMMA StartOrder ==
  ASSUME IInv, OrderInv, NEW c \in Chats, StartHandler(c)
  PROVE  OrderInv'
<1> DEFINE h == Head(workerQueue[c])
<1>1. /\ workerQueue[c] # <<>> /\ started' = Append(started, h)
      /\ workerQueue' = [workerQueue EXCEPT ![c] = Tail(@)]
      /\ UNCHANGED <<offset, pending, batch, channel>>
  BY DEF StartHandler, poller
<1>2. /\ TypeOK /\ Ordered /\ SentInOrder /\ workerQueue \in [Chats -> Seq(Ids)]
      /\ started \in Seq(Ids)
  BY DEF IInv, OrderInv, TypeOK
<1>3. /\ workerQueue'[c] = Tail(workerQueue[c])
      /\ \A d \in Chats \ {c} : workerQueue'[d] = workerQueue[d]
  BY <1>1, <1>2
<1>4. /\ h \in Ids /\ Increasing(workerQueue'[c])
      /\ Members(workerQueue[c]) = Members(workerQueue'[c]) \cup {h}
      /\ \A y \in Members(workerQueue'[c]) : h < y
  <2>1. workerQueue[c] \in Seq(Ids) /\ Increasing(workerQueue[c])
    BY <1>2 DEF Ordered
  <2> QED
    BY <1>1, <1>3, <2>1, Shortened
<1> HIDE DEF h
<1>5. /\ Len(started) \in Nat /\ Len(started') = Len(started) + 1 /\ started'[Len(started) + 1] = h
      /\ \A i \in 1..Len(started) : started'[i] = started[i]
  BY <1>1, <1>2, <1>4
<1>6. Members(started') = Members(started) \cup {h}
  BY <1>5 DEF Members
<1>7. ChatOf[h] = c /\ \A x \in Members(started) : ChatOf[x] = c => x < h
  BY <1>2, <1>4 DEF Ordered
<1>8. \A x : WasSent(x)' <=> WasSent(x)
  BY <1>1, <1>3, <1>4, <1>6 DEF WasSent
<1>9. \A d \in Chats : Members(workerQueue'[d]) \subseteq Members(workerQueue[d])
  BY <1>3, <1>4
<1>10. Ordered'
  <2>1. PerChatOrder'
    <3>1. ASSUME NEW i \in 1..Len(started'), NEW j \in 1..Len(started'), i < j,
                 ChatOf[started'[i]] = ChatOf[started'[j]]
          PROVE  started'[i] < started'[j]
      <4>1. i \in 1..Len(started) /\ started'[i] = started[i] /\ started[i] \in Members(started)
        BY <1>5, <3>1 DEF Members
      <4>2. CASE j = Len(started) + 1
        BY <1>5, <1>7, <3>1, <4>1, <4>2
      <4>3. CASE j # Len(started) + 1
        <5>1. j \in 1..Len(started) /\ started'[j] = started[j]
          BY <1>5, <4>3
        <5> QED
          BY <1>2, <3>1, <4>1, <5>1 DEF Ordered, PerChatOrder
      <4> QED
        BY <4>2, <4>3
    <3> QED
      BY <3>1 DEF PerChatOrder
  <2>2. \A d \in Chats : Increasing(workerQueue'[d])
    BY <1>2, <1>3, <1>4 DEF Ordered
  <2>3. \A d \in Chats : \A x \in Members(workerQueue'[d]) : ChatOf[x] = d
    BY <1>2, <1>9 DEF Ordered
  <2>4. \A d \in Chats : \A x \in Members(workerQueue'[d]), y \in Members(channel') : x < y
    BY <1>1, <1>2, <1>9 DEF Ordered
  <2>5. \A x \in Members(started'), y \in Members(channel') : x < y
    BY <1>1, <1>2, <1>4, <1>6 DEF Ordered
  <2>6. ASSUME NEW d \in Chats, NEW x \in Members(started'), NEW y \in Members(workerQueue'[d]),
               ChatOf[x] = d
        PROVE  x < y
    <3>1. CASE x = h
      BY <1>4, <1>7, <2>6, <3>1
    <3>2. CASE x \in Members(started)
      BY <1>2, <1>9, <2>6, <3>2 DEF Ordered
    <3> QED
      BY <1>6, <3>1, <3>2
  <2>7. Increasing(channel')
    BY <1>1, <1>2 DEF Ordered
  <2> QED
    BY <2>1, <2>2, <2>3, <2>4, <2>5, <2>6, <2>7 DEF Ordered
<1>11. SentInOrder'
  BY <1>1, <1>2, <1>8 DEF SentInOrder
<1> QED
  BY <1>10, <1>11 DEF OrderInv

\* What was sent is below the offset or in the map, which has no gap: whatever
\* else a poll returns is above it.
LEMMA PollOrder ==
  ASSUME IInv, OrderInv, Poll
  PROVE  OrderInv'
<1>1. /\ acked' = Larger(acked, offset) /\ batch' = FirstOf({x \in arrived : x >= acked'})
      /\ UNCHANGED <<offset, pending, channel, workerQueue, started>>
  BY DEF Poll, workers, history
<1>2. /\ TypeOK /\ GapFree(pending, pending) /\ acked \in Nat /\ offset \in Nat
      /\ arrived \subseteq Ids /\ Ids \subseteq Nat /\ pending \subseteq Ids
  BY Typed DEF IInv, PollerInv, Window, TypeOK
<1>3. \A y \in batch' : y \in arrived /\ Base <= y
  BY <1>1 DEF FirstOf, Base
<1>4. Base \in Nat /\ offset <= Base
  BY <1>2 DEF Base, Larger
<1>5. ASSUME NEW x \in Ids, NEW y \in batch' \ pending', WasSent(x)
      PROVE  x < y
  <2>1. y \in arrived /\ Base <= y /\ y \notin pending /\ y \in Nat /\ x \in Nat
    BY <1>1, <1>2, <1>3
  <2>2. CASE x < offset
    BY <1>2, <1>4, <2>1, <2>2
  <2>3. CASE x \in pending
    BY <1>2, <2>1, <2>3 DEF GapFree
  <2> QED
    BY <1>5, <2>2, <2>3 DEF OrderInv, SentInOrder
<1> QED
  BY <1>1, <1>2, <1>5, NothingSent DEF OrderInv, SentInOrder

LEMMA RecordOrder ==
  ASSUME IInv, OrderInv, Record
  PROVE  OrderInv'
<1>1. PICK id \in NextConfirmed : pending' = pending \ {id} /\ offset' = id + 1
  BY DEF Record
<1>2. id \in pending /\ (\A x \in pending : id <= x) /\ id \in Nat /\ offset \in Nat
  BY Typed DEF NextConfirmed, Lowest, IInv, TypeOK
<1>3. batch' = {} /\ UNCHANGED <<channel, workerQueue, started>>
  BY DEF Record, IInv, PollerInv, Control, workers, history
<1>4. offset <= id
  BY <1>2, Typed DEF IInv, PollerInv, Window, Base, Larger, TypeOK
<1>5. ASSUME NEW x \in Ids, WasSent(x)
      PROVE  x \in pending' \/ x < offset'
  <2>1. x \in pending \/ x < offset
    BY <1>5 DEF OrderInv, SentInOrder
  <2>2. x \in Nat
    BY Typed DEF IInv
  <2> QED
    BY <1>1, <1>2, <1>4, <2>1, <2>2
<1> QED
  BY <1>3, <1>5, NothingSent DEF IInv

LEMMA CrashOrder ==
  ASSUME Crash
  PROVE  OrderInv'
<1>1. /\ channel' = <<>> /\ started' = <<>> /\ workerQueue' = [c \in Chats |-> <<>>]
  BY DEF Crash
<1>2. Members(<<>>) = {} /\ Len(<<>>) = 0
  BY DEF Members
<1>3. Increasing(<<>>)
  BY DEF Increasing
<1>4. Ordered'
  BY <1>1, <1>2, <1>3 DEF Ordered, PerChatOrder
<1>5. \A x : ~WasSent(x)'
  BY <1>1, <1>2 DEF WasSent
<1> QED
  BY <1>4, <1>5 DEF OrderInv, SentInOrder

LEMMA OrderStep == IInv /\ OrderInv /\ [Next]_vars => OrderInv'
<1> SUFFICES ASSUME IInv, OrderInv, [Next]_vars
             PROVE  OrderInv'
  OBVIOUS
<1> USE DEF telegram, durable, poller, workers, history, budget
<1>t. TypeOK
  BY DEF IInv
<1>1. ASSUME UNCHANGED <<channel, workerQueue, started, pending, offset>>, batch' \subseteq batch
      PROVE  OrderInv'
  BY <1>t, <1>1, NothingSent DEF OrderInv, SentInOrder
<1>2. CASE (\E id \in Ids : Arrive(id)) \/ (\E c \in Chats : FinishHandler(c))
  BY <1>1, <1>2 DEF Arrive, FinishHandler
<1>3. CASE SkipPending \/ EndOfBatch \/ EndOfDrain \/ RecordFails \/ EndOfPrefix
  BY <1>1, <1>3 DEF SkipPending, EndOfBatch, EndOfDrain, RecordFails, EndOfPrefix
<1>4. CASE SkipProcessed
  <2>1. PICK id \in Ids : batch' = batch \ {id} /\ pending' = pending \cup {id}
    BY <1>4, <1>t DEF SkipProcessed, Lowest, TypeOK
  <2>2. UNCHANGED <<channel, workerQueue, started, offset>>
    BY <1>4 DEF SkipProcessed
  <2> QED
    BY <1>t, <2>1, <2>2, NothingSent DEF OrderInv, SentInOrder
<1>5. CASE Dispatch \/ DispatchUnchecked
  BY <1>5, SendOrder DEF Dispatch, DispatchUnchecked
<1>6. CASE \E id \in completions : Drain(id)
  BY <1>1, <1>6 DEF Drain
<1>7. CASE Restart \/ RestartBlind
  <2>1. UNCHANGED <<channel, workerQueue, started, pending, batch>>
    BY <1>7 DEF Restart, RestartBlind
  <2>2. \A x \in Ids : WasSent(x) => x \in pending' \/ x < offset'
    <3>1. pending = {} /\ offset = 0 /\ Ids \subseteq Nat
      BY <1>7, <1>t, Typed DEF Restart, RestartBlind, IInv, PollerInv, Control
    <3> QED
      BY <3>1 DEF OrderInv, SentInOrder
  <2> QED
    BY <1>t, <2>1, <2>2, NothingSent DEF OrderInv, SentInOrder
<1>8. CASE UNCHANGED vars
  BY <1>1, <1>8 DEF vars
<1> QED
  BY <1>2, <1>3, <1>4, <1>5, <1>6, <1>7, <1>8, PollOrder, RouteOrder, StartOrder, RecordOrder,
     CrashOrder
     DEF Next, PollerStep, Environment

LEMMA OrderInit == Init => OrderInv
<1> SUFFICES ASSUME Init PROVE OrderInv
  OBVIOUS
<1>1. Members(<<>>) = {} /\ Len(<<>>) = 0 /\ Increasing(<<>>)
  BY DEF Members, Increasing
<1>2. /\ channel = <<>> /\ started = <<>> /\ workerQueue = [c \in Chats |-> <<>>]
  BY DEF Init
<1>3. Ordered
  BY <1>1, <1>2 DEF Ordered, PerChatOrder
<1>4. \A x : ~WasSent(x)
  BY <1>1, <1>2 DEF WasSent
<1> QED
  BY <1>3, <1>4 DEF OrderInv, SentInOrder

\* The channel and the queues of the workers keep the order of the updates.
THEOREM OrderInvariance == Spec => [](IInv /\ OrderInv)
<1>1. Init => IInv /\ OrderInv
  BY Initially, OrderInit
<1>2. IInv /\ OrderInv /\ [Next]_vars => (IInv /\ OrderInv)'
  BY TypeStep, WindowStep, DeliveredStep, OrderStep DEF IInv
<1> QED
  BY <1>1, <1>2, PTL DEF Spec

\* Handlers of a chat start in the order Telegram numbered the updates, across
\* batches and however the chats overtake each other (KeyedDispatcher).
THEOREM StartedInOrder == Spec => []PerChatOrder
<1>1. IInv /\ OrderInv => PerChatOrder
  BY DEF OrderInv, Ordered
<1> QED
  BY <1>1, OrderInvariance, PTL

------------------------------------------------------------------------------
(* At one place at a time. *)

\* Between the channel and the completions.
Underway(x) ==
    \/ x \in Members(channel) \/ x \in completions
    \/ \E c \in Chats : x \in Members(workerQueue[c]) \/ running[c] = x

OnePlace ==
    /\ \A c \in Chats : running[c] # NoUpdate =>
          ChatOf[running[c]] = c /\ running[c] \in Members(started) \ completions
    /\ completions \subseteq Members(started)
    /\ \A x \in Ids : Underway(x) => x \in pending \ confirmed

\* The updates with a handler are no longer in a queue.
LEMMA QueuedOrStarted ==
  ASSUME TypeOK, OrderInv, NEW x \in Members(started)
  PROVE  x \notin Members(channel) /\ \A c \in Chats : x \notin Members(workerQueue[c])
<1>1. x \in Nat
  BY Typed DEF WasSent
<1> QED
  BY <1>1 DEF OrderInv, Ordered

LEMMA StillUnderway ==
  ASSUME OnePlace, UNCHANGED <<running, started>>, completions' \subseteq completions,
         \A x \in Ids : Underway(x)' => x \in pending' \ confirmed'
  PROVE  OnePlace'
BY DEF OnePlace

LEMMA SendPlace ==
  ASSUME IInv, OrderInv, OnePlace, NEW id \in Lowest(batch) \ pending, SendToDispatcher(id)
  PROVE  OnePlace'
<1>1. /\ channel' = Append(channel, id) /\ pending' = pending \cup {id}
      /\ UNCHANGED <<confirmed, workerQueue, running, completions, started>>
  BY DEF SendToDispatcher, history
<1>2. id \notin confirmed
  BY DEF IInv, PollerInv, Handled
<1>3. Members(channel') \subseteq Members(channel) \cup {id}
  <2>1. channel \in Seq(Ids) /\ id \in Ids
    BY Typed DEF IInv, TypeOK, Lowest
  <2> QED
    BY <1>1, <2>1 DEF Members
<1>4. \A x : Underway(x)' => Underway(x) \/ x = id
  BY <1>1, <1>3 DEF Underway
<1> QED
  BY <1>1, <1>2, <1>4, StillUnderway DEF OnePlace

LEMMA RoutePlace ==
  ASSUME IInv, OrderInv, OnePlace, Route
  PROVE  OnePlace'
<1> DEFINE h == Head(channel)  c == ChatOf[h]
<1>1. /\ channel # <<>> /\ channel' = Tail(channel)
      /\ workerQueue' = [workerQueue EXCEPT ![c] = Append(@, h)]
      /\ UNCHANGED <<pending, confirmed, running, completions, started>>
  BY DEF Route, poller, history
<1>2. /\ channel \in Seq(Ids) /\ Increasing(channel) /\ workerQueue \in [Chats -> Seq(Ids)]
  BY Typed DEF IInv, OrderInv, Ordered, TypeOK
<1>3. h \in Ids /\ Members(channel) = Members(channel') \cup {h}
  BY <1>1, <1>2, Shortened
<1>4. c \in Chats
  BY <1>3, ChatOfAssumption
<1> HIDE DEF h, c
<1>5. ASSUME NEW d \in Chats
      PROVE  Members(workerQueue'[d]) \subseteq Members(workerQueue[d]) \cup {h}
  <2>1. CASE d = c
    <3>1. workerQueue'[c] = Append(workerQueue[c], h) /\ workerQueue[c] \in Seq(Ids)
      BY <1>1, <1>2, <1>4
    <3> QED
      BY <1>3, <2>1, <3>1 DEF Members
  <2>2. CASE d # c
    BY <1>1, <1>2, <2>2
  <2> QED
    BY <2>1, <2>2
<1>6. \A x : Underway(x)' => Underway(x)
  BY <1>1, <1>3, <1>5 DEF Underway
<1> QED
  BY <1>1, <1>6, StillUnderway DEF OnePlace

LEMMA StartPlace ==
  ASSUME IInv, OrderInv, OnePlace, NEW c \in Chats, StartHandler(c)
  PROVE  OnePlace'
<1> DEFINE h == Head(workerQueue[c])
<1>1. /\ workerQueue[c] # <<>> /\ started' = Append(started, h) /\ running[c] = NoUpdate
      /\ workerQueue' = [workerQueue EXCEPT ![c] = Tail(@)]
      /\ running' = [running EXCEPT ![c] = h]
      /\ UNCHANGED <<pending, confirmed, channel, completions>>
  BY DEF StartHandler, poller
<1>2. /\ workerQueue \in [Chats -> Seq(Ids)] /\ running \in [Chats -> Ids \cup {NoUpdate}]
      /\ started \in Seq(Ids) /\ workerQueue[c] \in Seq(Ids) /\ Increasing(workerQueue[c])
      /\ TypeOK
  BY DEF IInv, OrderInv, Ordered, TypeOK
<1>3. h \in Ids /\ Members(workerQueue[c]) = Members(Tail(workerQueue[c])) \cup {h}
  BY <1>1, <1>2, Shortened
<1>4. ChatOf[h] = c
  BY <1>3 DEF OrderInv, Ordered
<1>5. h \notin completions
  BY <1>2, <1>3, QueuedOrStarted DEF OnePlace
<1> HIDE DEF h
<1>6. Members(started') = Members(started) \cup {h}
  BY <1>1, <1>2, <1>3 DEF Members
<1>7. \A d \in Chats : /\ running'[d] = IF d = c THEN h ELSE running[d]
                       /\ Members(workerQueue'[d]) \subseteq Members(workerQueue[d])
  BY <1>1, <1>2, <1>3
<1>8. \A x : Underway(x)' => Underway(x)
  BY <1>1, <1>3, <1>7 DEF Underway
<1>9. \A d \in Chats : running'[d] # NoUpdate =>
         ChatOf[running'[d]] = d /\ running'[d] \in Members(started') \ completions
  BY <1>4, <1>5, <1>6, <1>7 DEF OnePlace
<1> QED
  BY <1>1, <1>6, <1>8, <1>9 DEF OnePlace

LEMMA FinishPlace ==
  ASSUME IInv, OnePlace, NEW c \in Chats, FinishHandler(c)
  PROVE  OnePlace'
<1>1. /\ running[c] # NoUpdate /\ completions' = completions \cup {running[c]}
      /\ running' = [running EXCEPT ![c] = NoUpdate]
      /\ UNCHANGED <<pending, confirmed, channel, workerQueue, started>>
  BY DEF FinishHandler, poller
<1>2. running \in [Chats -> Ids \cup {NoUpdate}]
  BY DEF IInv, TypeOK
<1>3. \A d \in Chats : running'[d] = IF d = c THEN NoUpdate ELSE running[d]
  BY <1>1, <1>2
<1>4. \A x \in Ids : Underway(x)' => Underway(x)
  BY <1>1, <1>3 DEF Underway, Ids, NoUpdate
<1>5. \A d \in Chats : running'[d] # NoUpdate =>
         ChatOf[running'[d]] = d /\ running'[d] \in Members(started) \ completions'
  BY <1>1, <1>3 DEF OnePlace
<1> QED
  BY <1>1, <1>4, <1>5 DEF OnePlace

LEMMA DrainPlace ==
  ASSUME IInv, OrderInv, OnePlace, NEW id \in completions, Drain(id)
  PROVE  OnePlace'
<1>1. /\ completions' = completions \ {id} /\ confirmed' = confirmed \cup ({id} \cap pending)
      /\ UNCHANGED <<pending, channel, workerQueue, running, started>>
  BY DEF Drain, history
<1>2. id \in Members(started) /\ id \in Ids /\ id # NoUpdate
  BY MaxIdAssumption DEF OnePlace, IInv, TypeOK, Ids, NoUpdate
<1>3. id \notin Members(channel) /\ \A c \in Chats : id \notin Members(workerQueue[c])
  BY <1>2, QueuedOrStarted DEF IInv
<1>4. \A c \in Chats : running[c] # id
  BY <1>2 DEF OnePlace
<1>5. \A x : Underway(x)' => Underway(x) /\ x # id
  BY <1>1, <1>3, <1>4 DEF Underway
<1>6. \A x \in Ids : Underway(x)' => x \in pending' \ confirmed'
  BY <1>1, <1>5 DEF OnePlace
<1> QED
  BY <1>1, <1>6, StillUnderway

LEMMA PlaceStep == IInv /\ OrderInv /\ OnePlace /\ [Next]_vars => OnePlace'
<1> SUFFICES ASSUME IInv, OrderInv, OnePlace, [Next]_vars
             PROVE  OnePlace'
  OBVIOUS
<1> USE DEF telegram, durable, poller, workers, history, budget
<1>1. ASSUME UNCHANGED <<channel, workerQueue, running, completions, started>>,
             \A x \in pending \ confirmed : Underway(x) => x \in pending' \ confirmed'
      PROVE  OnePlace'
  <2>1. \A x : Underway(x)' <=> Underway(x)
    BY <1>1 DEF Underway
  <2>2. \A x \in Ids : Underway(x)' => x \in pending' \ confirmed'
    BY <1>1, <2>1 DEF OnePlace
  <2> QED
    BY <1>1, <2>2, StillUnderway
<1>2. CASE \E id \in Ids : Arrive(id)
  BY <1>1, <1>2 DEF Arrive
<1>3. CASE Poll \/ SkipPending \/ EndOfBatch \/ EndOfDrain \/ RecordFails \/ EndOfPrefix
  BY <1>1, <1>3 DEF Poll, SkipPending, EndOfBatch, EndOfDrain, RecordFails, EndOfPrefix
<1>4. CASE SkipProcessed
  <2>1. PICK id \in Lowest(batch) \ pending : /\ pending' = pending \cup {id}
                                              /\ confirmed' = confirmed \cup {id}
    BY <1>4 DEF SkipProcessed
  <2>2. UNCHANGED <<channel, workerQueue, running, completions, started>>
    BY <1>4 DEF SkipProcessed
  <2> QED
    BY <1>1, <2>1, <2>2
<1>5. CASE Dispatch \/ DispatchUnchecked
  BY <1>5, SendPlace DEF Dispatch, DispatchUnchecked
<1>6. CASE Record
  <2>1. PICK id \in NextConfirmed : pending' = pending \ {id} /\ confirmed' = confirmed \ {id}
    BY <1>6 DEF Record
  <2>2. id \in confirmed /\ UNCHANGED <<channel, workerQueue, running, completions, started>>
    BY <1>6 DEF Record, NextConfirmed
  <2> QED
    BY <1>1, <2>1, <2>2
<1>7. CASE Restart \/ RestartBlind \/ UNCHANGED vars
  BY <1>1, <1>7 DEF Restart, RestartBlind, vars
<1>8. CASE Crash
  <2>1. /\ channel' = <<>> /\ workerQueue' = [c \in Chats |-> <<>>] /\ completions' = {}
        /\ running' = [c \in Chats |-> NoUpdate]
    BY <1>8 DEF Crash
  <2>2. Members(<<>>) = {}
    BY DEF Members
  <2>3. \A x \in Ids : ~Underway(x)'
    BY <2>1, <2>2 DEF Underway, Ids, NoUpdate
  <2> QED
    BY <2>1, <2>3 DEF OnePlace
<1> QED
  BY <1>2, <1>3, <1>4, <1>5, <1>6, <1>7, <1>8, RoutePlace, StartPlace, FinishPlace, DrainPlace
     DEF Next, PollerStep, Environment

LEMMA PlaceInit == Init => OnePlace
<1> SUFFICES ASSUME Init PROVE OnePlace
  OBVIOUS
<1>1. Members(<<>>) = {}
  BY DEF Members
<1>2. \A x \in Ids : ~Underway(x)
  BY <1>1 DEF Init, Underway, Ids, NoUpdate
<1> QED
  BY <1>2 DEF Init, OnePlace

\* How often an update is in a queue.
LEMMA Counted ==
  ASSUME NEW s \in Seq(Ids), Increasing(s), NEW x \in Ids
  PROVE  Cardinality({i \in 1..Len(s) : s[i] = x}) = IF x \in Members(s) THEN 1 ELSE 0
<1> DEFINE At == {i \in 1..Len(s) : s[i] = x}
<1>1. CASE x \in Members(s)
  <2>1. PICK i \in 1..Len(s) : s[i] = x
    BY <1>1 DEF Members
  <2>2. ASSUME NEW j \in 1..Len(s), s[j] = x
        PROVE  j = i
    <3>1. x \in Nat /\ i \in Nat /\ j \in Nat
      BY MaxIdAssumption DEF Ids
    <3>2. ~(i < j) /\ ~(j < i)
      BY <2>1, <2>2, <3>1 DEF Increasing
    <3> QED
      BY <3>1, <3>2
  <2>3. At = {i}
    BY <2>1, <2>2
  <2> QED
    BY <1>1, <2>3, FS_Singleton
<1>2. CASE x \notin Members(s)
  <2>1. At = {}
    BY <1>2 DEF Members
  <2> QED
    BY <1>2, <2>1, FS_EmptySet
<1> QED
  BY <1>1, <1>2

LEMMA OnceUnderway == TypeOK /\ OrderInv /\ OnePlace => DispatchedOnce
<1> SUFFICES ASSUME TypeOK, OrderInv, OnePlace, NEW x \in Ids
             PROVE  InFlight(x) <= 1 /\ (InFlight(x) = 1 => x \in pending \ confirmed)
  BY DEF DispatchedOnce
<1> DEFINE c == ChatOf[x]
           InChannel == x \in Members(channel)
           InQueue == x \in Members(workerQueue[c])
           Running == running[c] = x
           Counts(b) == IF b THEN 1 ELSE 0
<1>1. c \in Chats /\ x # NoUpdate /\ x \in Nat
  BY ChatOfAssumption, MaxIdAssumption DEF Ids, NoUpdate
<1>2. Cardinality({i \in 1..Len(channel) : channel[i] = x}) = Counts(InChannel)
  BY Counted DEF OrderInv, Ordered, TypeOK
<1>3. Cardinality({i \in 1..Len(workerQueue[c]) : workerQueue[c][i] = x}) = Counts(InQueue)
  <2>1. workerQueue[c] \in Seq(Ids) /\ Increasing(workerQueue[c])
    BY <1>1 DEF OrderInv, Ordered, TypeOK
  <2> QED
    BY <2>1, Counted
<1>4. Cardinality({d \in Chats : running[d] = x}) = Counts(Running)
  <2>1. {d \in Chats : running[d] = x} = IF Running THEN {c} ELSE {}
    BY <1>1 DEF OnePlace
  <2> QED
    BY <2>1, FS_Singleton, FS_EmptySet
<1>5. InFlight(x) = Counts(InChannel) + Counts(InQueue) + Counts(Running)
                      + Counts(x \in completions)
  BY <1>2, <1>3, <1>4 DEF InFlight
<1>6. ~(InChannel /\ InQueue)
  BY <1>1 DEF OrderInv, Ordered
<1>7. Running \/ x \in completions => x \in Members(started)
  BY <1>1 DEF OnePlace
<1>8. Running \/ x \in completions => ~InChannel /\ ~InQueue
  BY <1>1, <1>7, QueuedOrStarted
<1>9. ~(Running /\ x \in completions)
  BY <1>1 DEF OnePlace
<1>10. InChannel \/ InQueue \/ Running \/ x \in completions => x \in pending \ confirmed
  BY <1>1 DEF OnePlace, Underway
<1> HIDE DEF InChannel, InQueue, Running
<1> QED
  BY <1>5, <1>6, <1>8, <1>9, <1>10

\* Within one incarnation no update is handed to a handler twice: it is at one
\* place between the channel and the completions, and the poller's map knows.
THEOREM NotTwice == Spec => []DispatchedOnce
<1> DEFINE Inv == IInv /\ OrderInv /\ OnePlace
<1>1. Init => Inv
  BY Initially, OrderInit, PlaceInit
<1>2. Inv /\ [Next]_vars => Inv'
  BY TypeStep, WindowStep, DeliveredStep, OrderStep, PlaceStep DEF IInv
<1>3. Inv => DispatchedOnce
  BY OnceUnderway DEF IInv
<1> QED
  BY <1>1, <1>2, <1>3, PTL DEF Spec

------------------------------------------------------------------------------
(* Recorded updates. *)

InQueues(x) == x \in Members(channel) \/ \E c \in Chats : x \in Members(workerQueue[c])

\* Only a failed read of the offset makes the poller start below it, and only a
\* failed look-up of the row sends a recorded update.
Faulted ==
    /\ pc # "down" /\ Base < storedOffset => faults >= 1
    /\ \A x \in processed : InQueues(x) => faults >= 2

LEMMA SameQueues ==
  ASSUME Faulted, TypeOK, UNCHANGED <<channel, workerQueue, processed>>, faults' \in Nat,
         faults' >= faults,
         pc' # "down" /\ Base' < storedOffset' => faults' >= 1
  PROVE  Faulted'
<1>1. \A x : InQueues(x)' <=> InQueues(x)
  BY DEF InQueues
<1>2. faults \in Nat
  BY BudgetAssumption DEF TypeOK
<1> QED
  BY <1>1, <1>2 DEF Faulted

LEMMA SendFault ==
  ASSUME IInv, Faulted, NEW id \in Lowest(batch) \ pending, SendToDispatcher(id), pc = "send",
         faults' \in Nat, faults' >= faults,
         id \in processed => faults' = faults + 1
  PROVE  Faulted'
<1>1. /\ channel' = Append(channel, id)
      /\ UNCHANGED <<pc, acked, offset, storedOffset, processed, workerQueue>>
  BY DEF SendToDispatcher, telegram, durable
<1>2. id \in Ids /\ channel \in Seq(Ids) /\ faults \in Nat
  BY BudgetAssumption DEF IInv, TypeOK, Lowest
<1>3. Members(channel') \subseteq Members(channel) \cup {id}
  BY <1>1, <1>2 DEF Members
<1>4. id \in processed => faults' >= 2
  <2>1. ASSUME id \in processed
        PROVE  Base < storedOffset
    <3>1. Base <= id /\ id < storedOffset /\ id \in Nat /\ storedOffset \in Nat
      BY <2>1, Typed DEF IInv, TypeOK, PollerInv, Window, Records, Lowest
    <3>2. Base \in Nat
      BY DEF IInv, TypeOK, Base, Larger
    <3> QED
      BY <3>1, <3>2
  <2> QED
    BY <1>2, <2>1 DEF Faulted
<1>5. \A x : InQueues(x)' => InQueues(x) \/ x = id
  BY <1>1, <1>3 DEF InQueues
<1>6. \A x \in processed' : InQueues(x)' => faults' >= 2
  BY <1>1, <1>2, <1>4, <1>5 DEF Faulted
<1> QED
  BY <1>1, <1>2, <1>6 DEF Faulted, Base

LEMMA MoveFault ==
  ASSUME IInv, OrderInv, Faulted, Route \/ \E c \in Chats : StartHandler(c)
  PROVE  Faulted'
<1> USE DEF telegram, durable, poller, budget
<1>1. UNCHANGED <<pc, acked, offset, storedOffset, processed, faults>>
  BY DEF Route, StartHandler
<1>2. /\ channel \in Seq(Ids) /\ workerQueue \in [Chats -> Seq(Ids)] /\ Increasing(channel)
      /\ \A c \in Chats : Increasing(workerQueue[c])
  BY DEF IInv, TypeOK, OrderInv, Ordered
<1>3. CASE Route
  <2> DEFINE h == Head(channel)  d == ChatOf[h]
  <2>1. /\ channel # <<>> /\ channel' = Tail(channel)
        /\ workerQueue' = [workerQueue EXCEPT ![d] = Append(@, h)]
    BY <1>3 DEF Route
  <2>2. h \in Ids /\ Members(channel) = Members(channel') \cup {h}
    BY <1>2, <2>1, Shortened
  <2> HIDE DEF h
  <2>3. ASSUME NEW c \in Chats
        PROVE  Members(workerQueue'[c]) \subseteq Members(workerQueue[c]) \cup {h}
    <3>1. workerQueue'[c] = workerQueue[c] \/ workerQueue'[c] = Append(workerQueue[c], h)
      BY <1>2, <2>1
    <3>2. Members(Append(workerQueue[c], h)) \subseteq Members(workerQueue[c]) \cup {h}
      BY <1>2, <2>2 DEF Members
    <3> QED
      BY <3>1, <3>2
  <2>4. \A x : InQueues(x)' => InQueues(x)
    BY <2>2, <2>3 DEF InQueues
  <2> QED
    BY <1>1, <2>4 DEF Faulted, Base
<1>4. ASSUME NEW c \in Chats, StartHandler(c)
      PROVE  Faulted'
  <2>1. /\ workerQueue[c] # <<>> /\ workerQueue' = [workerQueue EXCEPT ![c] = Tail(@)]
        /\ channel' = channel
    BY <1>4 DEF StartHandler
  <2>2. Members(Tail(workerQueue[c])) \subseteq Members(workerQueue[c])
    BY <1>2, <2>1, Shortened
  <2>3. \A d \in Chats : Members(workerQueue'[d]) \subseteq Members(workerQueue[d])
    BY <1>2, <2>1, <2>2
  <2>4. \A x : InQueues(x)' => InQueues(x)
    BY <2>1, <2>3 DEF InQueues
  <2> QED
    BY <1>1, <2>4 DEF Faulted, Base
<1> QED
  BY <1>3, <1>4

LEMMA RecordFault ==
  ASSUME IInv, OnePlace, Faulted, Record
  PROVE  Faulted'
<1>1. PICK id \in NextConfirmed :
        /\ processed' = processed \cup {id} /\ offset' = id + 1
        /\ storedOffset' = IF id \in processed THEN storedOffset ELSE Larger(storedOffset, id + 1)
  BY DEF Record
<1>2. UNCHANGED <<pc, acked, channel, workerQueue, faults>> /\ pc # "down"
  BY DEF Record, telegram, workers, budget
<1>3. id \in pending /\ id \in confirmed /\ id \in Ids /\ id \in Nat
  BY Typed DEF NextConfirmed, Lowest, IInv, TypeOK
<1>4. \A x \in processed' : InQueues(x)' => faults' >= 2
  <2>1. ~InQueues(id)
    BY <1>3 DEF OnePlace, Underway, InQueues
  <2>2. \A x : InQueues(x)' <=> InQueues(x)
    BY <1>2 DEF InQueues
  <2> QED
    BY <1>1, <1>2, <2>1, <2>2 DEF Faulted
<1>5. ASSUME Base' < storedOffset'
      PROVE  faults' >= 1
  <2>1. acked \in Nat /\ offset \in Nat /\ storedOffset \in Nat /\ Base <= id /\ Base \in Nat
    BY <1>3 DEF IInv, TypeOK, PollerInv, Window, Base, Larger
  <2>2. id + 1 <= Base' /\ Base' \in Nat
    BY <1>1, <1>2, <1>3, <2>1 DEF Base, Larger
  <2>3. storedOffset' = storedOffset
    BY <1>1, <1>3, <1>5, <2>1, <2>2 DEF Larger
  <2>4. Base < storedOffset
    BY <1>3, <1>5, <2>1, <2>2, <2>3
  <2> QED
    BY <1>2, <2>4 DEF Faulted
<1> QED
  BY <1>4, <1>5 DEF Faulted

LEMMA FaultStep == IInv /\ OrderInv /\ OnePlace /\ Faulted /\ [Next]_vars => Faulted'
<1> SUFFICES ASSUME IInv, OrderInv, OnePlace, Faulted, [Next]_vars
             PROVE  Faulted'
  OBVIOUS
<1> USE DEF telegram, durable, poller, workers, history, budget
<1>t. /\ TypeOK /\ faults \in Nat /\ acked \in Nat /\ offset \in Nat /\ storedOffset \in Nat
      /\ Base \in Nat
  BY BudgetAssumption DEF IInv, TypeOK, Base, Larger
<1>1. ASSUME UNCHANGED <<channel, workerQueue, processed, storedOffset, offset, acked>>,
             faults' \in {faults, faults + 1}, pc' = "down" \/ pc # "down"
      PROVE  Faulted'
  <2>1. Base' = Base
    BY <1>1 DEF Base
  <2> QED
    BY <1>t, <1>1, <2>1, SameQueues DEF Faulted
<1>2. CASE (\E id \in Ids : Arrive(id)) \/ (\E c \in Chats : FinishHandler(c))
           \/ SkipPending \/ SkipProcessed \/ EndOfBatch \/ (\E id \in completions : Drain(id))
           \/ EndOfDrain \/ EndOfPrefix \/ RecordFails \/ UNCHANGED vars
  <2>1. /\ UNCHANGED <<channel, workerQueue, processed, storedOffset, offset, acked>>
        /\ faults' \in {faults, faults + 1}
    BY <1>2 DEF Arrive, FinishHandler, SkipPending, SkipProcessed, EndOfBatch, Drain, EndOfDrain,
                EndOfPrefix, RecordFails, vars
  <2>2. pc' = "down" \/ pc # "down"
    BY <1>2 DEF Arrive, FinishHandler, SkipPending, SkipProcessed, EndOfBatch, Drain, EndOfDrain,
                EndOfPrefix, RecordFails, vars
  <2> QED
    BY <1>1, <2>1, <2>2
<1>3. CASE Poll
  <2>1. /\ Base' = Base /\ UNCHANGED <<channel, workerQueue, processed, storedOffset, faults>>
        /\ pc # "down"
    BY <1>3, <1>t DEF Poll, Base, Larger
  <2> QED
    BY <1>t, <2>1, SameQueues DEF Faulted
<1>4. CASE Dispatch \/ DispatchUnchecked
  <2>1. PICK id \in Lowest(batch) \ pending :
          SendToDispatcher(id) /\ pc = "send" /\ faults' \in {faults, faults + 1}
            /\ (id \in processed => faults' = faults + 1)
    BY <1>4 DEF Dispatch, DispatchUnchecked
  <2> QED
    BY <1>t, <2>1, SendFault
<1>5. CASE Crash
  <2>1. /\ channel' = <<>> /\ workerQueue' = [c \in Chats |-> <<>>] /\ pc' = "down"
    BY <1>5 DEF Crash
  <2>2. Members(<<>>) = {}
    BY DEF Members
  <2> QED
    BY <2>1, <2>2 DEF Faulted, InQueues
<1>6. CASE Restart
  <2>1. /\ UNCHANGED <<channel, workerQueue, processed, storedOffset, faults, acked>>
        /\ offset' = storedOffset
    BY <1>6 DEF Restart
  <2>2. ~(Base' < storedOffset')
    BY <1>t, <2>1 DEF Base, Larger
  <2> QED
    BY <1>t, <2>1, <2>2, SameQueues
<1>7. CASE RestartBlind
  <2>1. /\ UNCHANGED <<channel, workerQueue, processed>> /\ faults' = faults + 1
    BY <1>7 DEF RestartBlind
  <2> QED
    BY <1>t, <2>1, SameQueues
<1> QED
  BY <1>2, <1>3, <1>4, <1>5, <1>6, <1>7, MoveFault, RecordFault
     DEF Next, PollerStep, Environment

\* A recorded update starts a handler again only after two failures of the
\* store: of the offset read at startup and of the look-up of its row.
THEOREM RerunsNeedFaults == Spec => RerunNeedsTwoFaults
<1> DEFINE Inv == IInv /\ OrderInv /\ OnePlace /\ Faulted
<1>1. Init => Inv
  <2>1. Init => Faulted
    BY DEF Init, Faulted, Base, Larger
  <2> QED
    BY <2>1, Initially, OrderInit, PlaceInit
<1>2. Inv /\ [Next]_vars => Inv'
  BY TypeStep, WindowStep, DeliveredStep, OrderStep, PlaceStep, FaultStep DEF IInv
<1> DEFINE Reruns == \A id \in processed :
                        (\E c \in Chats : running[c] # id /\ running'[c] = id) => faults >= 2
<1>3. Inv /\ [Next]_vars => [Reruns]_vars
  <2> SUFFICES ASSUME Inv, Next, NEW id \in processed, NEW c \in Chats,
                      running[c] # id, running'[c] = id
               PROVE  faults >= 2
    BY DEF vars, workers
  <2>1. id # NoUpdate /\ running \in [Chats -> Ids \cup {NoUpdate}]
    BY MaxIdAssumption DEF IInv, TypeOK, Ids, NoUpdate
  <2>2. PICK d \in Chats : StartHandler(d)
    BY <2>1 DEF Next, PollerStep, Environment, Arrive, Poll, SkipPending, SkipProcessed, Dispatch,
                DispatchUnchecked, SendToDispatcher, EndOfBatch, Drain, EndOfDrain, Record,
                EndOfPrefix, RecordFails, Crash, RestartBlind, Restart, Route, FinishHandler,
                workers
  <2>3. workerQueue[d] # <<>> /\ running' = [running EXCEPT ![d] = Head(workerQueue[d])]
    BY <2>2 DEF StartHandler
  <2>4. id = Head(workerQueue[d])
    BY <2>1, <2>3
  <2>5. id \in Members(workerQueue[d])
    BY <2>3, <2>4, Shortened DEF IInv, TypeOK, OrderInv, Ordered
  <2> QED
    BY <2>5 DEF Faulted, InQueues
<1> QED
  BY <1>1, <1>2, <1>3, PTL DEF Spec, RerunNeedsTwoFaults
==============================================================================
