------------------------------ MODULE WaitProofs -------------------------------
(* For any number of requests, side questions and messages, and for queues of  *)
(* any capacity: a side question ends once, its turn belongs to a registered   *)
(* fork as long as it runs, a scheduled deletion ends when the message is gone *)
(* or its attempts are used up, and every variable of Waits keeps its type.    *)
(*                                                                             *)
(* The arguments.  Before the worker of a question registered its fork, nobody *)
(* else knows it; after it, whoever ends the question unregisters the fork,    *)
(* and the end of a turn is reported after the turn ended (ForkInv).  The      *)
(* worker of deletions holds messages whose rows are still to be settled, each *)
(* at one place (Held), and a row has attempts left until it is given up.      *)
(* The types of client and server come from AppServerClientProofs and          *)
(* ServerRequestsProofs.                                                       *)
EXTENDS Waits, AppServerClientProofs

ServerFacts == INSTANCE ServerRequestsProofs WITH
    Requests <- Incoming, generation <- served, link <- transport, outbound <- replies

------------------------------------------------------------------------------
(* AskForks *)

ForkEvents == [fork : Forks, kind : {"thread", "completed"}]
Unseen(f) ==
    ask_threads[f] = "none" /\ turn[f] = "none" /\ notices[f] \cap {"answer", "timeout"} = {}
ForkInv(f) ==
    /\ asker[f] \in {"idle", "forking", "forked"} => Unseen(f)
    /\ asker[f] \in {"idle", "forking", "forked", "starting"} => f \notin expired
    /\ asker[f] = "starting" /\ turn[f] = "none" => ask_threads[f] = "registered"
    /\ notices[f] \cap {"answer", "timeout"} # {} => ask_threads[f] = "none"
    /\ Asks!EndsOnce(f) /\ Asks!Tracked(f)
Reported(f) == turn[f] \in {"ended", "deleted"}
AsksInv ==
    /\ Asks!TypeOK /\ forkEvents \in Seq(ForkEvents) /\ sweep \subseteq expired
    /\ \A i \in DOMAIN forkEvents : forkEvents[i].kind = "completed" => Reported(forkEvents[i].fork)
    /\ \A f \in Forks : ForkInv(f)

\* What a step may do to the fork f, when it leaves all others alone.
Alone(f) ==
    \A g \in Forks \ {f} : /\ asker'[g] = asker[g] /\ ask_threads'[g] = ask_threads[g]
                           /\ turn'[g] = turn[g] /\ notices'[g] = notices[g]
                           /\ (g \in expired' <=> g \in expired)
\* The tables keep their types.
Tables ==
    /\ asker' \in [Forks -> {"idle", "forking", "forked", "starting", "started", "done"}]
    /\ ask_threads' \in [Forks -> {"none", "registered", "turn"}]
    /\ turn' \in [Forks -> {"none", "running", "ended", "deleted"}]
    /\ notices' \in [Forks -> SUBSET {"started", "failed", "answer", "timeout"}]

\* A step about one fork, which never takes back that a turn ended, keeps the
\* invariant if it keeps that of the fork and of the queue.
LEMMA OneFork ==
  ASSUME AsksInv, NEW f \in Forks, Alone(f), Tables, ForkInv(f)',
         Reported(f) => Reported(f)',
         expired' \subseteq Forks, sweep' \subseteq expired', projected' \subseteq Forks,
         forkEvents' \in Seq(ForkEvents),
         \A i \in DOMAIN forkEvents' :
            \/ forkEvents'[i].kind # "completed"
            \/ forkEvents'[i].fork = f /\ Reported(f)'
            \/ \E j \in DOMAIN forkEvents : forkEvents'[i] = forkEvents[j]
  PROVE  AsksInv'
<1>1. \A g \in Forks : ForkInv(g)'
  BY DEF AsksInv, ForkInv, Unseen, Alone, Asks!EndsOnce, Asks!Tracked
<1>2. \A g \in Forks : Reported(g) => Reported(g)'
  BY DEF Reported, Alone
<1>3. ASSUME NEW i \in DOMAIN forkEvents', forkEvents'[i].kind = "completed"
      PROVE  turn'[forkEvents'[i].fork] \in {"ended", "deleted"}
  <2>1. CASE forkEvents'[i].fork = f /\ Reported(f)'
    BY <2>1 DEF Reported
  <2>2. CASE \E j \in DOMAIN forkEvents : forkEvents'[i] = forkEvents[j]
    <3>1. PICK j \in DOMAIN forkEvents : forkEvents'[i] = forkEvents[j]
      BY <2>2
    <3>2. forkEvents[j] \in ForkEvents
      BY DEF AsksInv
    <3>3. PICK g \in Forks : g = forkEvents[j].fork
      BY <3>2 DEF ForkEvents
    <3>4. Reported(g)
      BY <1>3, <3>1, <3>3 DEF AsksInv
    <3>5. QED
      BY <1>2, <3>1, <3>3, <3>4 DEF Reported
  <2>3. QED
    BY <1>3, <2>1, <2>2
<1>4. Asks!TypeOK'
  BY DEF Asks!TypeOK, Tables
<1>5. QED
  BY <1>1, <1>3, <1>4 DEF AsksInv, Reported

LEMMA AskInit == Asks!Init => AsksInv
BY DEF Asks!Init, AsksInv, Asks!TypeOK, ForkInv, Unseen, Asks!EndsOnce, Asks!Tracked

\* An event joins the queue at its end.
LEMMA EventAdded ==
  ASSUME forkEvents \in Seq(ForkEvents), NEW e \in ForkEvents
  PROVE  /\ Append(forkEvents, e) \in Seq(ForkEvents)
         /\ \A i \in DOMAIN Append(forkEvents, e) :
              \/ Append(forkEvents, e)[i] = e
              \/ \E j \in DOMAIN forkEvents : Append(forkEvents, e)[i] = forkEvents[j]
<1>1. /\ Append(forkEvents, e) \in Seq(ForkEvents)
      /\ DOMAIN Append(forkEvents, e) = DOMAIN forkEvents \cup {Len(forkEvents) + 1}
      /\ \A i \in DOMAIN forkEvents : Append(forkEvents, e)[i] = forkEvents[i]
      /\ Append(forkEvents, e)[Len(forkEvents) + 1] = e
  OBVIOUS
<1>2. QED
  BY <1>1

LEMMA AskWorker ==
  ASSUME AsksInv, NEW f \in Forks, Asks!Ask(f) \/ Asks!Work(f)
  PROVE  AsksInv'
<1>1. Asks!TypeOK /\ ForkInv(f) /\ forkEvents \in Seq(ForkEvents) /\ sweep \subseteq expired
  BY DEF AsksInv
<1>2. Alone(f) /\ Tables
  BY <1>1 DEF Asks!Ask, Asks!Work, Asks!Fork, Asks!Refuse, Asks!Register, Asks!StartFails,
     Asks!StartUnnamed, Asks!StartNamed, Asks!RecordStarted, Asks!Goto, Asks!Notify,
     Asks!Unregister, Asks!Delete, Asks!TypeOK, Alone, Tables
<1>3. ForkInv(f)' /\ (Reported(f) => Reported(f)')
  BY <1>1 DEF Asks!Ask, Asks!Work, Asks!Fork, Asks!Refuse, Asks!Register, Asks!StartFails,
     Asks!StartUnnamed, Asks!StartNamed, Asks!RecordStarted, Asks!Goto, Asks!Notify,
     Asks!Unregister, Asks!Delete, Asks!TypeOK, ForkInv, Unseen, Reported, Asks!EndsOnce,
     Asks!Tracked
<1>4. UNCHANGED <<expired, sweep, projected>>
  BY DEF Asks!Ask, Asks!Work, Asks!Fork, Asks!Refuse, Asks!Register, Asks!StartFails,
     Asks!StartUnnamed, Asks!StartNamed, Asks!RecordStarted
<1>5. DEFINE e == [fork |-> f, kind |-> "thread"]
<1>6. forkEvents' = forkEvents \/ forkEvents' = Append(forkEvents, e)
  BY DEF Asks!Ask, Asks!Work, Asks!Fork, Asks!Refuse, Asks!Register, Asks!StartFails,
     Asks!StartUnnamed, Asks!StartNamed, Asks!RecordStarted, Asks!Send
<1>7. e \in ForkEvents /\ e.kind # "completed"
  BY DEF ForkEvents
<1> HIDE DEF e
<1>8. /\ forkEvents' \in Seq(ForkEvents)
      /\ \A i \in DOMAIN forkEvents' :
           \/ forkEvents'[i].kind # "completed"
           \/ \E j \in DOMAIN forkEvents : forkEvents'[i] = forkEvents[j]
  BY <1>1, <1>6, <1>7, EventAdded
<1>9. QED
  BY <1>1, <1>2, <1>3, <1>4, <1>8, OneFork DEF Asks!TypeOK

LEMMA AskServer ==
  ASSUME AsksInv, NEW f \in Forks, Asks!TurnStarts(f) \/ Asks!TurnEnds(f)
  PROVE  AsksInv'
<1>1. Asks!TypeOK /\ ForkInv(f) /\ forkEvents \in Seq(ForkEvents) /\ sweep \subseteq expired
  BY DEF AsksInv
<1>2. Alone(f) /\ Tables /\ UNCHANGED <<expired, sweep, projected>>
  BY <1>1 DEF Asks!TurnStarts, Asks!TurnEnds, Asks!TypeOK, Alone, Tables
<1>3. ForkInv(f)' /\ (Reported(f) => Reported(f)')
  BY <1>1 DEF Asks!TurnStarts, Asks!TurnEnds, Asks!TypeOK, ForkInv, Unseen, Reported,
     Asks!EndsOnce, Asks!Tracked
<1>4. CASE Asks!TurnStarts(f)
  <2>1. UNCHANGED forkEvents
    BY <1>4 DEF Asks!TurnStarts
  <2>2. QED
    BY <1>1, <1>2, <1>3, <2>1, OneFork DEF Asks!TypeOK
<1>5. CASE Asks!TurnEnds(f)
  <2> DEFINE new == <<[fork |-> f, kind |-> "completed"], [fork |-> f, kind |-> "thread"]>>
  <2>1. new \in Seq(ForkEvents) /\ \A i \in DOMAIN new : new[i].fork = f
    BY DEF ForkEvents
  <2>2. forkEvents' = forkEvents \o new /\ Reported(f)'
    BY <1>1, <1>5 DEF Asks!TurnEnds, Reported, Asks!TypeOK
  <2> HIDE DEF new
  <2>3. /\ forkEvents' \in Seq(ForkEvents)
        /\ \A i \in DOMAIN forkEvents' :
             \/ \E j \in DOMAIN forkEvents : forkEvents'[i] = forkEvents[j]
             \/ \E j \in DOMAIN new : forkEvents'[i] = new[j]
    <3>1. /\ forkEvents \o new \in Seq(ForkEvents)
          /\ Len(forkEvents \o new) = Len(forkEvents) + Len(new)
          /\ \A i \in 1..Len(forkEvents) + Len(new) : (forkEvents \o new)[i] =
               IF i <= Len(forkEvents) THEN forkEvents[i] ELSE new[i - Len(forkEvents)]
      BY <1>1, <2>1
    <3>2. QED
      BY <1>1, <2>1, <2>2, <3>1
  <2>4. \A i \in DOMAIN forkEvents' :
             \/ forkEvents'[i].fork = f /\ Reported(f)'
             \/ \E j \in DOMAIN forkEvents : forkEvents'[i] = forkEvents[j]
    BY <2>1, <2>2, <2>3
  <2>5. QED
    BY <1>1, <1>2, <1>3, <2>3, <2>4, OneFork DEF Asks!TypeOK
<1>6. QED
  BY <1>4, <1>5

LEMMA AskEvent ==
  ASSUME AsksInv, Asks!HandleEvent
  PROVE  AsksInv'
<1> DEFINE e == Head(forkEvents)
<1>1. Asks!TypeOK /\ forkEvents \in Seq(ForkEvents) /\ sweep \subseteq expired
  BY DEF AsksInv
<1>2. /\ forkEvents # <<>> /\ forkEvents' = Tail(forkEvents)
      /\ UNCHANGED <<asker, expired, sweep>>
  BY DEF Asks!HandleEvent
<1>3. e \in ForkEvents /\ e = forkEvents[1] /\ 1 \in DOMAIN forkEvents
  BY <1>1, <1>2
<1>4. PICK f \in Forks : f = e.fork /\ ForkInv(f)
  BY <1>3 DEF ForkEvents, AsksInv
<1>5. e.kind = "completed" => Reported(f)
  BY <1>3, <1>4 DEF AsksInv
<1>6. \/ ask_threads[f] # "none" /\ e.kind = "completed" /\ Asks!Answer(f)
      \/ UNCHANGED <<ask_threads, turn, notices, projected>>
      \/ projected' = projected \cup {f} /\ UNCHANGED <<ask_threads, turn, notices>>
  BY <1>4 DEF Asks!HandleEvent
<1> HIDE DEF e
<1>7. Alone(f) /\ Tables /\ projected' \subseteq Forks
  BY <1>1, <1>2, <1>4, <1>6 DEF Asks!Answer, Asks!Answered, Asks!Notify, Asks!Unregister,
     Asks!Delete, Asks!TypeOK, Alone, Tables
<1>8. ForkInv(f)' /\ (Reported(f) => Reported(f)')
  BY <1>1, <1>2, <1>4, <1>5, <1>6 DEF Asks!Answer, Asks!Answered, Asks!Notify,
     Asks!Unregister, Asks!Delete, Asks!TypeOK, ForkInv, Unseen, Reported, Asks!EndsOnce,
     Asks!Tracked
<1>9. /\ forkEvents' \in Seq(ForkEvents)
      /\ \A i \in DOMAIN forkEvents' :
           \E j \in DOMAIN forkEvents : forkEvents'[i] = forkEvents[j]
  <2>1. /\ Tail(forkEvents) \in Seq(ForkEvents)
        /\ \A i \in DOMAIN Tail(forkEvents) :
             i + 1 \in DOMAIN forkEvents /\ Tail(forkEvents)[i] = forkEvents[i + 1]
    BY <1>1, <1>2
  <2>2. QED
    BY <1>2, <2>1
<1>10. QED
  BY <1>1, <1>2, <1>4, <1>7, <1>8, <1>9, OneFork DEF Asks!TypeOK

LEMMA AskTimeouts ==
  ASSUME AsksInv, Asks!Sweep \/ Asks!GiveUp \/ \E f \in Forks : Asks!Expire(f)
  PROVE  AsksInv'
<1>1. Asks!TypeOK /\ forkEvents \in Seq(ForkEvents) /\ sweep \subseteq expired
  BY DEF AsksInv
<1>2. ASSUME NEW f \in Forks, Asks!Expire(f) PROVE AsksInv'
  <2>1. Alone(f) /\ Tables /\ UNCHANGED <<sweep, projected, forkEvents>>
    BY <1>1, <1>2 DEF Asks!Expire, Asks!TypeOK, Alone, Tables
  <2>2. ForkInv(f)' /\ (Reported(f) => Reported(f)')
    BY <1>1, <1>2 DEF AsksInv, ForkInv, Unseen, Reported, Asks!Expire, Asks!EndsOnce,
       Asks!Tracked
  <2>3. expired' = expired \cup {f}
    BY <1>2 DEF Asks!Expire
  <2>4. QED
    BY <1>1, <2>1, <2>2, <2>3, OneFork DEF Asks!TypeOK
<1>3. CASE Asks!Sweep
  BY <1>1, <1>3 DEF AsksInv, ForkInv, Unseen, Reported, Asks!Sweep, Asks!TypeOK,
     Asks!EndsOnce, Asks!Tracked
<1>4. CASE Asks!GiveUp
  <2>1. PICK f \in sweep :
          /\ sweep' = sweep \ {f}
          /\ IF ask_threads[f] = "none" THEN UNCHANGED <<ask_threads, notices, turn>>
             ELSE Asks!Unregister(f) /\ Asks!Notify(f, "timeout") /\ Asks!Delete(f)
    BY <1>4 DEF Asks!GiveUp
  <2>2. f \in Forks /\ ForkInv(f) /\ f \in expired
    BY <1>1 DEF AsksInv, Asks!TypeOK
  <2>3. UNCHANGED <<asker, forkEvents, expired, projected>>
    BY <1>4 DEF Asks!GiveUp
  <2>4. Alone(f) /\ Tables
    BY <1>1, <2>1, <2>2, <2>3 DEF Asks!Unregister, Asks!Notify, Asks!Delete, Asks!TypeOK,
       Alone, Tables
  <2>5. ForkInv(f)' /\ (Reported(f) => Reported(f)')
    BY <1>1, <2>1, <2>2, <2>3 DEF Asks!Unregister, Asks!Notify, Asks!Delete, Asks!TypeOK,
       ForkInv, Unseen, Reported, Asks!EndsOnce, Asks!Tracked
  <2>6. QED
    BY <1>1, <2>1, <2>2, <2>3, <2>4, <2>5, OneFork DEF Asks!TypeOK
<1>5. QED
  BY <1>2, <1>3, <1>4

LEMMA AsksNext == AsksInv /\ [Asks!Next]_askVars => AsksInv'
<1> SUFFICES ASSUME AsksInv, [Asks!Next]_askVars PROVE AsksInv'
  OBVIOUS
<1>1. CASE UNCHANGED askVars
  BY <1>1 DEF askVars, AsksInv, ForkInv, Unseen, Reported, Asks!TypeOK, Asks!EndsOnce,
     Asks!Tracked
<1>2. QED
  BY <1>1, AskWorker, AskServer, AskEvent, AskTimeouts DEF Asks!Next

LEMMA AsksInvariant == WaitsSpec => []AsksInv
<1>1. WaitsInit => AsksInv
  BY AskInit DEF WaitsInit
<1>2. AsksInv /\ [WaitsNext]_allVars => AsksInv'
  BY AsksNext DEF WaitsNext, allVars
<1>3. QED
  BY <1>1, <1>2, PTL DEF WaitsSpec

\* A side question is answered or timed out, not both, and while its turn runs its fork
\* is registered, so that the sweep finds it (submit_ask_fork, handle_ask_thread_event,
\* sweep_expired_ask_threads): the worker registers before it starts the turn, and whoever
\* unregisters a fork deletes it.
THEOREM AsksStayTracked == WaitsSpec => []Asks!AsksTracked
<1>1. AsksInv => Asks!AsksTracked
  BY DEF AsksInv, ForkInv, Asks!AsksTracked
<1>2. QED
  BY <1>1, AsksInvariant, PTL

------------------------------------------------------------------------------
(* DeletionWorker *)

LEMMA Power == ASSUME NEW n \in Nat PROVE 2 ^ n \in Nat
<1>1. IsFiniteSet(1..n) /\ Cardinality(1..n) = n
  BY FS_Interval
<1>2. IsFiniteSet(SUBSET (1..n)) /\ Cardinality(SUBSET (1..n)) = 2 ^ n
  BY <1>1, FS_SUBSET
<1>3. QED
  BY <1>2, FS_CardinalityType

RowStates == {"none", "scheduled", "claimed", "abandoned"}
Scheduled == [state : RowStates,
              wait : 0..Deadline, pause : 0..BackoffCap, claim : 0..Lease,
              attempts : 0..MaxAttempts]
\* A row has attempts left until it is given up.
AttemptsLeft(r) ==
    IF r.state = "abandoned" THEN r.attempts = MaxAttempts ELSE r.attempts < MaxAttempts
Rows == {r \in Scheduled : AttemptsLeft(r)}
\* What the worker holds has a row that is still to be settled, and is held at one place.
Unsettled(m) == row[m].state \in {"scheduled", "claimed"}
Held ==
    /\ \A m \in batch : Unsettled(m) /\ m # tried.message
    /\ tried # Deletions!NoTry => Unsettled(tried.message)
DeletionsInv ==
    /\ row \in [Messages -> Rows] /\ present \subseteq Messages /\ batch \subseteq Messages
    /\ tried \in [message : Messages, ok : BOOLEAN] \cup {Deletions!NoTry}
    /\ restarts \in 0..MaxRestarts
    /\ Held /\ (tried.ok => tried.message \notin present)

LEMMA Bounds ==
  /\ Deadline \in Nat /\ Lease \in Nat /\ BackoffCap \in Nat /\ MaxRestarts \in Nat
  /\ MaxAttempts \in Nat /\ 0 < MaxAttempts
BY DeletionAssumption

\* Updates of a row.
LEMMA WithWait ==
  ASSUME NEW r \in Scheduled, NEW s \in RowStates, NEW w \in 0..Deadline
  PROVE  LET q == [r EXCEPT !.state = s, !.wait = w]
         IN q \in Scheduled /\ q.state = s /\ q.attempts = r.attempts
BY DEF Scheduled

LEMMA WithClaim ==
  ASSUME NEW r \in Scheduled
  PROVE  LET q == [r EXCEPT !.state = "claimed", !.claim = Lease]
         IN q \in Scheduled /\ q.state = "claimed" /\ q.attempts = r.attempts
<1>1. \A s \in RowStates, c \in 0..Lease :
        LET q == [r EXCEPT !.state = s, !.claim = c]
        IN q \in Scheduled /\ q.state = s /\ q.attempts = r.attempts
  BY DEF Scheduled
<1>2. "claimed" \in RowStates /\ Lease \in 0..Lease
  BY Bounds DEF RowStates
<1>3. QED
  BY <1>1, <1>2

LEMMA WithPause ==
  ASSUME NEW r \in Scheduled, NEW a \in 0..MaxAttempts, NEW p \in 0..BackoffCap
  PROVE  LET q == [r EXCEPT !.attempts = a, !.claim = 0, !.pause = p]
         IN q \in Scheduled /\ q.attempts = a
<1>1. PICK c \in 0..Lease : c = 0
  BY Bounds
<1>2. LET q == [r EXCEPT !.attempts = a, !.claim = c, !.pause = p]
      IN q \in Scheduled /\ q.attempts = a
  BY DEF Scheduled
<1>3. QED
  BY <1>1, <1>2

LEMMA WithState ==
  ASSUME NEW r \in Scheduled, NEW s \in RowStates
  PROVE  LET q == [r EXCEPT !.state = s]
         IN q \in Scheduled /\ q.state = s /\ q.attempts = r.attempts
BY DEF Scheduled

LEMMA RowKinds ==
  /\ Deletions!NoRow \in Rows /\ Deletions!Anew \in Rows
  /\ Deletions!NoRow.state = "none" /\ Deletions!Anew.state = "scheduled"
<1>1. Deletions!NoRow \in Scheduled
  BY Bounds DEF Deletions!NoRow, Scheduled, RowStates
<1>2. /\ "scheduled" \in RowStates /\ Deadline \in 0..Deadline
      /\ Deletions!NoRow.state = "none" /\ Deletions!NoRow.attempts = 0
  BY Bounds DEF Deletions!NoRow, RowStates
<1>3. /\ Deletions!Anew \in Scheduled
      /\ Deletions!Anew.state = "scheduled" /\ Deletions!Anew.attempts = 0
  BY <1>1, <1>2, WithWait, Zenon DEF Deletions!Anew
<1>4. QED
  BY <1>1, <1>2, <1>3, Bounds DEF Rows, AttemptsLeft

LEMMA Ticked ==
  ASSUME NEW r \in Rows
  PROVE  LET s == [r EXCEPT !.wait = Deletions!Less(@), !.pause = Deletions!Less(@),
                            !.claim = Deletions!Less(@)]
         IN s \in Rows /\ s.state = r.state
<1>1. ASSUME NEW c \in Nat, NEW n \in 0..c PROVE Deletions!Less(n) \in 0..c
  BY DEF Deletions!Less
<1>2. QED
  BY <1>1, DeletionAssumption DEF Rows, Scheduled, AttemptsLeft

LEMMA Tried ==
  ASSUME NEW r \in Rows, r.state \in {"scheduled", "claimed"}
  PROVE  Deletions!Retried(r) \in Rows /\ Deletions!Retried(r).state # "none"
<1>1. r.attempts \in Nat /\ r.attempts + 1 <= MaxAttempts /\ MaxAttempts \in Nat
  BY DeletionAssumption DEF Rows, Scheduled, AttemptsLeft
<1>2. Deletions!Pause(r.attempts + 1) \in 0..BackoffCap
  <2>1. 2 ^ (r.attempts + 1) \in Nat
    BY <1>1, Power
  <2>2. QED
    BY <2>1, DeletionAssumption DEF Deletions!Pause
<1>3. DEFINE s == IF r.attempts + 1 >= MaxAttempts THEN "abandoned" ELSE "scheduled"
<1> HIDE DEF s
<1>4. s \in RowStates /\ r \in Scheduled /\ r.attempts + 1 \in 0..MaxAttempts /\ 0 \in 0..Lease
      /\ 0 \in 0..Deadline
  BY <1>1, Bounds DEF Rows, RowStates, s
<1>5. /\ Deletions!Released(r) \in Scheduled
      /\ Deletions!Released(r).attempts = r.attempts + 1
  <2>1. \A a \in 0..MaxAttempts, p \in 0..BackoffCap :
          LET q == [r EXCEPT !.attempts = a, !.claim = 0, !.pause = p]
          IN q \in Scheduled /\ q.attempts = a
    BY <1>4, WithPause
  <2>2. QED
    BY <1>2, <1>4, <2>1 DEF Deletions!Released
<1>6. /\ Deletions!Retried(r) \in Scheduled
      /\ Deletions!Retried(r).state = s
      /\ Deletions!Retried(r).attempts = r.attempts + 1
  BY <1>2, <1>4, <1>5, WithState, Zenon DEF Deletions!Retried, s
<1>7. QED
  BY <1>1, <1>6 DEF Rows, AttemptsLeft, s

LEMMA DeletionInit == Deletions!Init => DeletionsInv
BY RowKinds, DeletionAssumption DEF Deletions!Init, DeletionsInv, Held, Deletions!NoTry

LEMMA RowsChange ==
  ASSUME DeletionsInv, Deletions!Next
  PROVE  DeletionsInv' /\ \A m \in Messages : Deletions!RowEndsRight(m)
<1> DEFINE Right == \A m \in Messages : Deletions!RowEndsRight(m)
<1>1. /\ row \in [Messages -> Rows] /\ tried.message \in Messages \cup {"none"}
      /\ Held /\ (tried.ok => tried.message \notin present)
  BY DEF DeletionsInv, Deletions!NoTry
<1>2. (\A m \in Messages : row[m].state # "none" /\ row'[m].state = "none" => m \notin present)
      /\ DeletionsInv' => Right
  BY DEF DeletionsInv, Rows, AttemptsLeft, Deletions!RowEndsRight
<1>3. ASSUME NEW m \in Messages, Deletions!Schedule(m) PROVE DeletionsInv' /\ Right
  <2>1. row' \in [Messages -> Rows] /\ row'[m].state = "scheduled"
        /\ \A n \in Messages \ {m} : row'[n] = row[n]
    BY <1>1, <1>3, RowKinds DEF Deletions!Schedule
  <2>2. restarts' \in 0..MaxRestarts
    BY <1>3, DeletionAssumption DEF Deletions!Schedule, DeletionsInv
  <2>3. UNCHANGED <<present, batch, tried>>
    BY <1>3 DEF Deletions!Schedule
  <2>4. DeletionsInv'
    BY <1>1, <2>1, <2>2, <2>3 DEF DeletionsInv, Held, Unsettled
  <2>5. QED
    BY <1>2, <2>1, <2>4
<1>4. CASE Deletions!Tick
  <2>1. \A m \in Messages : row'[m] \in Rows /\ row'[m].state = row[m].state
    BY <1>1, <1>4, Ticked DEF Deletions!Tick
  <2>2. row' \in [Messages -> Rows]
    BY <1>4, <2>1 DEF Deletions!Tick
  <2>3. UNCHANGED <<present, batch, tried, restarts>>
    BY <1>4 DEF Deletions!Tick
  <2>4. DeletionsInv'
    BY <1>1, <2>1, <2>2, <2>3 DEF DeletionsInv, Held, Unsettled
  <2>5. QED
    BY <1>2, <2>1, <2>4
<1>5. CASE Deletions!Claim
  <2>1. PICK claimed \in SUBSET Deletions!DueRows :
          /\ batch' = claimed
          /\ row' = [m \in Messages |-> IF m \in claimed
                                        THEN [row[m] EXCEPT !.state = "claimed", !.claim = Lease]
                                        ELSE row[m]]
    BY <1>5 DEF Deletions!Claim
  <2>2. \A m \in claimed : m \in Messages /\ Unsettled(m)
    BY DEF Deletions!DueRows, Deletions!Due, Deletions!DueUnclaimed, Unsettled
  <2>3. ASSUME NEW m \in Messages
        PROVE  /\ row'[m] \in Rows /\ (m \in claimed => row'[m].state = "claimed")
               /\ (m \notin claimed => row'[m] = row[m])
    <3>1. CASE m \in claimed
      <4>1. row'[m] = [row[m] EXCEPT !.state = "claimed", !.claim = Lease]
        BY <2>1, <3>1
      <4>2. row[m] \in Scheduled /\ row[m].attempts < MaxAttempts
        BY <1>1, <2>2, <3>1 DEF Rows, AttemptsLeft, Unsettled
      <4>3. row'[m] \in Scheduled /\ row'[m].state = "claimed" /\ row'[m].attempts < MaxAttempts
        <5>1. /\ row'[m] \in Scheduled /\ row'[m].state = "claimed"
              /\ row'[m].attempts = row[m].attempts
          BY <4>1, <4>2, WithClaim
        <5>2. QED
          BY <4>2, <5>1
      <4>4. QED
        BY <3>1, <4>3 DEF Rows, AttemptsLeft
    <3>2. CASE m \notin claimed
      BY <1>1, <2>1, <3>2
    <3>3. QED
      BY <3>1, <3>2
  <2>4. tried = Deletions!NoTry /\ UNCHANGED <<present, tried, restarts>>
    BY <1>5 DEF Deletions!Claim
  <2>5. DeletionsInv'
    BY <1>1, <2>1, <2>2, <2>3, <2>4, DeletionAssumption DEF DeletionsInv, Held, Unsettled,
       Deletions!NoTry
  <2>6. QED
    BY <1>2, <2>3, <2>5
<1>6. CASE Deletions!Delete
  <2>1. PICK m \in batch : /\ batch' = batch \ {m}
                           /\ \/ present' = present \ {m} /\ tried' = [message |-> m, ok |-> TRUE]
                              \/ UNCHANGED present /\ tried' = [message |-> m, ok |-> FALSE]
    BY <1>6 DEF Deletions!Delete
  <2>2. UNCHANGED <<row, restarts>>
    BY <1>6 DEF Deletions!Delete
  <2>3. DeletionsInv'
    <3>1. m \in Messages /\ Unsettled(m) /\ tried'.message = m
      BY <1>1, <2>1 DEF DeletionsInv, Held
    <3>2. /\ tried' \in [message : Messages, ok : BOOLEAN]
          /\ present' \subseteq Messages /\ (tried'.ok => m \notin present')
      <4>1. CASE present' = present \ {m} /\ tried' = [message |-> m, ok |-> TRUE]
        BY <3>1, <4>1 DEF DeletionsInv
      <4>2. CASE UNCHANGED present /\ tried' = [message |-> m, ok |-> FALSE]
        BY <3>1, <4>2 DEF DeletionsInv
      <4>3. QED
        BY <2>1, <4>1, <4>2
    <3>3. Held'
      BY <1>1, <2>1, <2>2, <3>1 DEF Held, Unsettled
    <3>4. QED
      BY <2>1, <2>2, <3>1, <3>2, <3>3 DEF DeletionsInv
  <2>4. QED
    BY <1>2, <2>2, <2>3
<1>7. CASE Deletions!Complete
  <2>1. tried # Deletions!NoTry /\ tried.message \in Messages /\ tried.message \notin present
    BY <1>7 DEF Deletions!Complete, DeletionsInv, Deletions!NoTry
  <2>2. row' \in [Messages -> Rows] /\ \A m \in Messages \ {tried.message} : row'[m] = row[m]
    BY <1>1, <1>7, RowKinds DEF Deletions!Complete
  <2>3. tried' = Deletions!NoTry /\ UNCHANGED <<present, batch, restarts>>
    BY <1>7 DEF Deletions!Complete
  <2>4. DeletionsInv'
    BY <1>1, <2>2, <2>3, DeletionAssumption DEF DeletionsInv, Held, Unsettled, Deletions!NoTry
  <2>5. QED
    BY <1>2, <2>1, <2>2, <2>4
<1>8. CASE Deletions!Retry
  <2>1. tried # Deletions!NoTry /\ tried.message \in Messages /\ Unsettled(tried.message)
    BY <1>1, <1>8 DEF Deletions!Retry, DeletionsInv, Held
  <2>2. row' = [row EXCEPT ![tried.message] = Deletions!Retried(row[tried.message])]
    BY <1>1, <1>8, <2>1 DEF Deletions!Retry, Unsettled
  <2>3. Deletions!Retried(row[tried.message]) \in Rows
    BY <1>1, <2>1, Tried DEF Unsettled
  <2>4. Deletions!Retried(row[tried.message]).state # "none"
    BY <1>1, <2>1, Tried DEF Unsettled
  <2>5. row' \in [Messages -> Rows] /\ \A m \in Messages \ {tried.message} : row'[m] = row[m]
    BY <1>1, <2>1, <2>2, <2>3
  <2>6. tried' = Deletions!NoTry /\ UNCHANGED <<present, batch, restarts>>
    BY <1>8 DEF Deletions!Retry
  <2>7. DeletionsInv'
    BY <1>1, <2>5, <2>6, DeletionAssumption DEF DeletionsInv, Held, Unsettled, Deletions!NoTry
  <2>8. QED
    BY <1>1, <1>2, <2>1, <2>2, <2>4, <2>5, <2>7
<1>9. CASE Deletions!Restart
  <2>1. DeletionsInv' /\ UNCHANGED row
    BY <1>9, DeletionAssumption DEF Deletions!Restart, DeletionsInv, Held, Deletions!NoTry
  <2>2. QED
    BY <1>2, <2>1
<1>10. QED
  BY <1>3, <1>4, <1>5, <1>6, <1>7, <1>8, <1>9 DEF Deletions!Next, Deletions!Work

LEMMA DeletionsNext == DeletionsInv /\ [Deletions!Next]_deletionVars => DeletionsInv'
<1>1. DeletionsInv /\ UNCHANGED deletionVars => DeletionsInv'
  BY DEF deletionVars, DeletionsInv, Held, Unsettled
<1>2. QED
  BY <1>1, RowsChange

LEMMA DeletionsInvariant == WaitsSpec => []DeletionsInv
<1>1. WaitsInit => DeletionsInv
  BY DeletionInit DEF WaitsInit
<1>2. DeletionsInv /\ [WaitsNext]_allVars => DeletionsInv'
  <2>1. [WaitsNext]_allVars => [Deletions!Next]_deletionVars
    BY DEF WaitsNext, allVars
  <2>2. QED
    BY <2>1, DeletionsNext
<1>3. QED
  BY <1>1, <1>2, PTL DEF WaitsSpec

\* The row of a scheduled deletion is dropped only when its message is gone from the chat,
\* and given up only when its attempts are used up, whatever fails, wherever the process
\* ends and however often a command is handled again (delete_scheduled_message,
\* complete_deletion, retry_deletion).
THEOREM DeletionsEndRight == WaitsSpec => Deletions!RowsEndRight
<1>1. DeletionsInv /\ [WaitsNext]_allVars
      => [\A m \in Messages : Deletions!RowEndsRight(m)]_(Deletions!vars)
  <2>1. [WaitsNext]_allVars => Deletions!Next \/ UNCHANGED deletionVars
    BY DEF WaitsNext, allVars
  <2>2. UNCHANGED deletionVars => UNCHANGED Deletions!vars
    BY DEF deletionVars, Deletions!vars
  <2>3. QED
    BY <2>1, <2>2, RowsChange
<1>2. QED
  BY <1>1, DeletionsInvariant, PTL DEF WaitsSpec, Deletions!RowsEndRight

------------------------------------------------------------------------------
(* Types. *)

\* ServerFacts is the instance Server, with what is proved about it.
LEMMA SameServer ==
  /\ Server!Init => ServerFacts!Init
  /\ [Server!Next]_serverVars => [ServerFacts!Next]_(ServerFacts!vars)
  /\ ServerFacts!TypeOK => Server!TypeOK
BY DEF serverVars, Server!Tasks, ServerFacts!Tasks, Server!Nobody, ServerFacts!Nobody,
   Server!Answers, ServerFacts!Answers, Server!Buttons, ServerFacts!Buttons, Server!Idle,
   ServerFacts!Idle, Server!NoJob, ServerFacts!NoJob, Server!Init, ServerFacts!Init, Server!Goto,
   ServerFacts!Goto, Server!Finish, ServerFacts!Finish, Server!StoreFails, ServerFacts!StoreFails,
   Server!StoreWorks, ServerFacts!StoreWorks, Server!Connect, ServerFacts!Connect,
   Server!ConnectFails, ServerFacts!ConnectFails, Server!Disconnect, ServerFacts!Disconnect,
   Server!Ask, ServerFacts!Ask, Server!ReadRequest, ServerFacts!ReadRequest,
   Server!ForwardRequest, ServerFacts!ForwardRequest, Server!Acknowledge, ServerFacts!Acknowledge,
   Server!Entry, ServerFacts!Entry, Server!WriteReply, ServerFacts!WriteReply,
   Server!RefuseStaleReply, ServerFacts!RefuseStaleReply, Server!WriteFails,
   ServerFacts!WriteFails, Server!SendAndForget, ServerFacts!SendAndForget, Server!SendReply,
   ServerFacts!SendReply, Server!GiveUp, ServerFacts!GiveUp, Server!ReplyRefused,
   ServerFacts!ReplyRefused, Server!ReplyFailed, ServerFacts!ReplyFailed, Server!ReplyTimedOut,
   ServerFacts!ReplyTimedOut, Server!ReplyWritten, ServerFacts!ReplyWritten, Server!Receive,
   ServerFacts!Receive, Server!StartOn, ServerFacts!StartOn, Server!RefuseRequest,
   ServerFacts!RefuseRequest, Server!Present, ServerFacts!Present, Server!PresentFails,
   ServerFacts!PresentFails, Server!Prompt, ServerFacts!Prompt, Server!ShowPrompt,
   ServerFacts!ShowPrompt, Server!PromptSent, ServerFacts!PromptSent, Server!PromptFails,
   ServerFacts!PromptFails, Server!Withdraw, ServerFacts!Withdraw, Server!Press,
   ServerFacts!Press, Server!Pressed, ServerFacts!Pressed, Server!GenerationMatches,
   ServerFacts!GenerationMatches, Server!StillOpen, ServerFacts!StillOpen, Server!Validate,
   ServerFacts!Validate, Server!Decide, ServerFacts!Decide, Server!Restart, ServerFacts!Restart,
   Server!Connection, ServerFacts!Connection, Server!Reply, ServerFacts!Reply, Server!Presenter,
   ServerFacts!Presenter, Server!Chat, ServerFacts!Chat, Server!Next, ServerFacts!Next,
   Server!Labels, ServerFacts!Labels, Server!Replies, ServerFacts!Replies, Server!Entries,
   ServerFacts!Entries, Server!TypeOK, ServerFacts!TypeOK, Server!transport,
   ServerFacts!transport, Server!queues, ServerFacts!queues, Server!store, ServerFacts!store,
   Server!tasks, ServerFacts!tasks, Server!history, ServerFacts!history, Server!outside,
   ServerFacts!outside, Server!budget, ServerFacts!budget, Server!vars, ServerFacts!vars

LEMMA ServerTypesHold == WaitsSpec => []Server!TypeOK
<1> DEFINE Inv == ServerFacts!TypeOK /\ ServerFacts!JobInv
<1>1. WaitsInit => Inv
  BY SameServer, ServerFacts!TypeInit, ServerAssumption, ConstantsAssumption DEF WaitsInit
<1>2. Inv /\ [WaitsNext]_allVars => Inv'
  <2>1. [WaitsNext]_allVars => [Server!Next]_serverVars
    BY DEF WaitsNext, allVars
  <2>2. QED
    BY <2>1, SameServer, ServerFacts!TypeStep, ServerAssumption, ConstantsAssumption
<1>3. Inv => Server!TypeOK
  BY SameServer
<1>4. QED
  BY <1>1, <1>2, <1>3, PTL DEF WaitsSpec

LEMMA ClientTypesHold == WaitsSpec => []TypeOK
<1>1. WaitsInit => IInv
  BY IInvInit DEF WaitsInit
<1>2. IInv /\ [WaitsNext]_allVars => IInv'
  <2>1. [WaitsNext]_allVars => [Next]_vars
    BY DEF WaitsNext, allVars
  <2>2. QED
    BY <2>1, IInvStep
<1>3. IInv => TypeOK
  BY DEF IInv
<1>4. QED
  BY <1>1, <1>2, <1>3, PTL DEF WaitsSpec

LEMMA AskTypesHold == WaitsSpec => []Asks!TypeOK
<1>1. AsksInv => Asks!TypeOK
  BY DEF AsksInv
<1>2. QED
  BY <1>1, AsksInvariant, PTL

LEMMA DeletionTypesHold == WaitsSpec => []Deletions!TypeOK
<1>1. DeletionsInv => Deletions!TypeOK
  BY DEF DeletionsInv, Deletions!TypeOK, Rows, Scheduled, RowStates, Deletions!NoTry
<1>2. QED
  BY <1>1, DeletionsInvariant, PTL

\* Every variable of client, server, side questions and deletions keeps its type and its
\* bound: queues their capacities, and attempts and pauses of deletions their limits.
THEOREM TypesHold == WaitsSpec => []TypesOK
<1>1. TypeOK /\ Server!TypeOK /\ Asks!TypeOK /\ Deletions!TypeOK => TypesOK
  BY DEF TypesOK
<1>2. QED
  BY <1>1, ClientTypesHold, ServerTypesHold, AskTypesHold, DeletionTypesHold, PTL
==============================================================================
