----------------------------- MODULE ViewProofs ------------------------------
(* For any number of comments, buttons, turns, events, restarts and faults: the *)
(* button of a status comment works, the projection of a thread agrees with     *)
(* the app-server, its items stay in order and its ended tasks ended, and stale *)
(* copies do not undo what was stored.                                          *)
(*                                                                              *)
(* The arguments.  A button a fresh comment shows is live, or in the hands of   *)
(* one task that will revive it if its edit fails (AllWork, Separate).  The     *)
(* last event on the way that tells how the turn stands is right (LastTells),   *)
(* and every projection counts only turns that ended, each once (AllExact).     *)
(* An ended task is shown as ended by an item of the history (EndsMarked), and   *)
(* rebuilding, item by item, ends exactly such tasks (ReplayHolds).  With the   *)
(* types of this module's views, those of all workflows follow (TypesHold).     *)
EXTENDS AnswerProofs, SpaceProofs, SequenceTheorems

\* StatusMessages: the row, the copies of it and the buttons.
Places == {"idle", "sleep", "ensure", "send", "sent", "check", "edit", "edited", "ask", "freeze"}
StatusRows == [closed : BOOLEAN, comment : 0..MaxComments]
StatusCopies == [closed : BOOLEAN, comment : 0..MaxComments, content : Nat, force : BOOLEAN]
ShownButtons == [button : Nat, confirm : BOOLEAN, fresh : BOOLEAN]

StatusTyped ==
    /\ row \in StatusRows /\ content \in Nat /\ comments \in Nat /\ made \in Nat
    /\ statusShown \in [Status!Comments -> ShownButtons] /\ live \in SUBSET Nat
    /\ statusPc \in [Status!Tasks -> Places] /\ statusCopy \in [Status!Tasks -> StatusCopies]
    /\ button \in [Status!Tasks -> Nat] /\ retired \in [Status!Tasks -> SUBSET Nat]

\* Every button was made.
AllMade ==
    /\ \A b \in live : b <= made
    /\ \A t \in Status!Tasks : button[t] <= made /\ \A b \in retired[t] : b <= made
    /\ \A c \in Status!Comments : statusShown[c].button <= made

\* A button is live or retired by one task.
Separate ==
    /\ \A t \in Status!Tasks : \A b \in retired[t] : b \notin live
    /\ \A t, u \in Status!Tasks : t # u => \A b \in retired[t] : b \notin retired[u]

\* A task that has not begun has made and retired nothing.
NotBegun ==
    \A t \in Status!Tasks :
      /\ statusPc[t] \in {"idle", "sleep", "ensure", "ask", "freeze"} => retired[t] = {}
      /\ statusPc[t] \in {"idle", "sleep", "ensure", "freeze"} => button[t] = 0
      /\ Status!Terminal(t) /\ statusPc[t] # "ask" => button[t] = 0

\* A button is shown in one comment.
ShownOnce ==
    /\ \A c, d \in Status!Comments :
          c # d /\ statusShown[c].button = statusShown[d].button => statusShown[c].button = 0
    /\ \A t \in Status!Tasks, c \in Status!Comments :
          statusPc[t] \in {"send", "edit", "ask"} /\ button[t] # 0 =>
                   statusShown[c].button # button[t]
    /\ \A t, u \in Status!Tasks : t # u /\ button[t] # 0 => button[t] # button[u]

\* What a task retired before it showed a comment is not shown as fresh.
Replaced ==
    \A t \in Status!Tasks, c \in Status!Comments :
      statusPc[t] \in {"sent", "check", "edited"} /\ statusShown[c].fresh =>
        statusShown[c].button \notin retired[t]

\* A fresh button of an open space is live, or a task may revive it.
AllWork ==
    ~row.closed =>
      \A c \in Status!Comments :
        statusShown[c].fresh /\ statusShown[c].button # 0 =>
          statusShown[c].button \in live \/
                   \E t \in Status!Tasks : statusShown[c].button \in retired[t]

StatusInv ==
    StatusTyped /\ AllMade /\ Separate /\ NotBegun /\ ShownOnce /\ Replaced /\ AllWork

\* What a step does to the other tasks, and to the comments.
Alone(t) ==
    \A u \in Status!Tasks \ {t} :
      /\ statusPc'[u] = statusPc[u] /\ statusCopy'[u] = statusCopy[u]
      /\ button'[u] = button[u] /\ retired'[u] = retired[u]
Fades(c, buttons_) ==
    /\ statusShown'[c].button = statusShown[c].button
    /\ statusShown'[c].fresh => statusShown[c].fresh /\ statusShown[c].button \notin buttons_
Faded(buttons_) == \A c \in Status!Comments : Fades(c, buttons_)
Placed(t, place) ==
    \A c \in Status!Comments :
      IF c = place
      THEN /\ statusShown'[c].button = button[t]
           /\ statusShown'[c].fresh => button[t] \in live
      ELSE Fades(c, retired[t])
Erased(place) ==
    \A c \in Status!Comments :
      IF c = place
      THEN statusShown'[c].button = 0 /\ ~statusShown'[c].fresh
      ELSE statusShown'[c] = statusShown[c]
TasksTyped ==
    /\ statusPc \in [Status!Tasks -> Places] /\ statusCopy \in [Status!Tasks -> StatusCopies]
    /\ button \in [Status!Tasks -> Nat] /\ retired \in [Status!Tasks -> SUBSET Nat]

LEMMA DeadEffect ==
  ASSUME StatusTyped, NEW bs, Status!Dead(bs)
  PROVE  Faded(bs) /\ statusShown' \in [Status!Comments -> ShownButtons]
<1>1. \A c \in Status!Comments :
         statusShown'[c] = [statusShown[c] EXCEPT !.fresh = statusShown[c].fresh /\
                  statusShown[c].button \notin bs]
  BY DEF Status!Dead, Status!Without, StatusTyped
<1>2. \A c \in Status!Comments :
         /\ statusShown'[c] \in ShownButtons /\ statusShown'[c].button = statusShown[c].button
         /\ statusShown'[c].fresh = (statusShown[c].fresh /\ statusShown[c].button \notin bs)
  BY <1>1, ZenonT(60) DEF StatusTyped, ShownButtons
<1>3. Faded(bs)
  BY <1>2 DEF Faded, Fades, StatusTyped, ShownButtons
<1>4. statusShown' = [c \in Status!Comments |-> statusShown'[c]]
  BY DEF Status!Dead, Status!Without
<1>5. QED
  BY <1>2, <1>3, <1>4

LEMMA PlacedEffect ==
  ASSUME StatusTyped, NEW t \in Status!Tasks, NEW confirm \in BOOLEAN, NEW place,
         statusShown' = [Status!Without(retired[t]) EXCEPT ![place] = Status!Shows(t, confirm)]
  PROVE  Placed(t, place) /\ statusShown' \in [Status!Comments -> ShownButtons]
<1> DEFINE old == Status!Without(retired[t])
           new == Status!Shows(t, confirm)
<1>1. \A c \in Status!Comments :
         /\ old[c] \in ShownButtons /\ old[c].button = statusShown[c].button
         /\ old[c].fresh => statusShown[c].fresh /\ statusShown[c].button \notin retired[t]
  <2>1. \A c \in Status!Comments :
           old[c] = [statusShown[c] EXCEPT
                       !.fresh = statusShown[c].fresh /\ statusShown[c].button \notin retired[t]]
    BY DEF Status!Without
  <2>2. SUFFICES ASSUME NEW c \in Status!Comments
                 PROVE  /\ old[c] \in ShownButtons /\ old[c].button = statusShown[c].button
                        /\ old[c].fresh => statusShown[c].fresh /\
                                 statusShown[c].button \notin retired[t]
    OBVIOUS
  <2> DEFINE r == statusShown[c]
             stays == r.fresh /\ r.button \notin retired[t]
  <2>3. r \in ShownButtons /\ stays \in BOOLEAN /\ old[c] = [r EXCEPT !.fresh = stays]
    BY <2>1 DEF StatusTyped
  <2>4. stays => r.fresh /\ r.button \notin retired[t]
    OBVIOUS
  <2> HIDE DEF r, stays, old
  <2>5. old[c] \in ShownButtons /\ old[c].button = r.button /\ old[c].fresh = stays
    BY <2>3 DEF ShownButtons
  <2>6. QED
    BY <2>4, <2>5 DEF r
<1>2. old = [c \in Status!Comments |-> old[c]]
  BY DEF Status!Without
<1>3. new \in ShownButtons /\ new.button = button[t] /\ (new.fresh => button[t] \in live)
  <2> DEFINE alive == button[t] \in live
  <2>1. new = [button |-> button[t], confirm |-> confirm, fresh |-> alive]
    BY DEF Status!Shows
  <2>2. button[t] \in Nat /\ alive \in BOOLEAN
    BY DEF StatusTyped
  <2> HIDE DEF new, alive
  <2>3. new \in ShownButtons /\ new.button = button[t] /\ new.fresh = alive
    BY <2>1, <2>2 DEF ShownButtons
  <2>4. QED
    BY <2>3 DEF alive
<1>4. statusShown' = [old EXCEPT ![place] = new]
  OBVIOUS
<1> HIDE DEF old, new
<1>5. \A c \in Status!Comments : statusShown'[c] = IF c = place THEN new ELSE old[c]
  BY <1>2, <1>4
<1>6. statusShown' = [c \in Status!Comments |-> statusShown'[c]]
  BY <1>2, <1>4
<1>7. QED
  BY <1>1, <1>3, <1>5, <1>6 DEF Placed, Fades

LEMMA DoneEffect ==
  ASSUME StatusTyped, NEW t \in Status!Tasks, Status!Done(t)
  PROVE  /\ Alone(t) /\ statusPc'[t] = "idle" /\ statusCopy'[t] = Status!NoCopy
         /\ button'[t] = 0 /\ retired'[t] = {} /\ TasksTyped'
<1>1. Status!NoCopy \in StatusCopies
  BY MaxCommentsAssumption DEF Status!NoCopy, StatusCopies
<1>2. QED
  BY <1>1 DEF Status!Done, Status!Goto, StatusTyped, Alone, TasksTyped, Places

LEMMA ReadEffect ==
  ASSUME StatusTyped, NEW t \in Status!Tasks, NEW seen \in Nat, NEW force \in BOOLEAN,
         Status!Read(t, seen, force)
  PROVE  /\ Alone(t) /\ statusPc'[t] = "ensure" /\ button' = button /\ retired' = retired
         /\ TasksTyped'
<1> DEFINE c == [closed |-> row.closed, comment |-> row.comment, content |-> seen, force |-> force]
<1>1. c \in StatusCopies
  BY DEF StatusTyped, StatusRows, StatusCopies
<1>2. statusCopy' = [statusCopy EXCEPT ![t] = c] /\ statusPc' = [statusPc EXCEPT ![t] = "ensure"]
      /\ button' = button /\ retired' = retired
  BY DEF Status!Read, Status!Goto
<1> HIDE DEF c
<1>3. QED
  BY <1>1, <1>2 DEF StatusTyped, Alone, TasksTyped, Places

LEMMA MarkEffect ==
  ASSUME StatusTyped, NEW t \in Status!Tasks, NEW kept \in SUBSET Nat, Status!Mark(t, kept)
  PROVE  /\ live' \in SUBSET Nat /\ made' \in Nat /\ button' \in [Status!Tasks -> Nat]
         /\ \A u \in Status!Tasks \ {t} : button'[u] = button[u]
         /\ \/ Status!Terminal(t) /\ live' = kept /\ made' = made /\ button'[t] = button[t]
            \/ /\ ~Status!Terminal(t) /\ made' = made + 1 /\ button'[t] = made + 1
               /\ kept \subseteq live' /\ live' \subseteq kept \cup {made + 1}
<1>1. CASE Status!Terminal(t)
  BY <1>1 DEF Status!Mark, StatusTyped
<1>2. CASE ~Status!Terminal(t)
  <2> DEFINE new == made + 1
  <2>1. made' = new /\ button' = [button EXCEPT ![t] = new] /\ (live' = kept \/ live' =
           kept \cup {new})
    BY <1>2 DEF Status!Mark
  <2>2. new \in Nat
    BY DEF StatusTyped
  <2> HIDE DEF new
  <2>3. button' \in [Status!Tasks -> Nat] /\ button'[t] = new
        /\ \A u \in Status!Tasks \ {t} : button'[u] = button[u]
    BY <2>1, <2>2 DEF StatusTyped
  <2>4. live' \in SUBSET Nat /\ kept \subseteq live' /\ live' \subseteq kept \cup {new}
    BY <2>1, <2>2
  <2>5. QED
    BY <1>2, <2>1, <2>2, <2>3, <2>4 DEF new
<1>3. QED
  BY <1>1, <1>2

LEMMA StatusSendFails ==
  ASSUME StatusInv, NEW t \in Status!Tasks, Status!SendFails(t)
  PROVE  StatusInv'
<1>1. StatusTyped
  BY DEF StatusInv
<1>2. /\ statusPc[t] = "send" /\ Alone(t) /\ statusPc'[t] = "idle" /\ statusCopy'[t] = Status!NoCopy
      /\ button'[t] = 0 /\ retired'[t] = {} /\ TasksTyped'
      /\ Faded(retired[t]) /\ statusShown' \in [Status!Comments -> ShownButtons]
      /\ UNCHANGED <<row, content, live, made, comments>>
  BY <1>1, DoneEffect, DeadEffect DEF Status!SendFails
<1>3. StatusTyped'
  BY <1>1, <1>2 DEF StatusTyped, TasksTyped
<1>4. AllMade'
  BY <1>1, <1>2, <1>3 DEF StatusInv, StatusTyped, AllMade, Alone, Faded, Fades, Placed
<1>5. Separate'
  BY <1>1, <1>2, <1>3 DEF StatusInv, StatusTyped, Separate, AllMade, Alone, Faded, Fades, Placed
<1>6. NotBegun'
  BY <1>1, <1>2, <1>3 DEF StatusInv, StatusTyped, NotBegun, Status!Terminal, Alone, Faded,
    Fades, Placed
<1>7. ShownOnce'
  BY <1>1, <1>2, <1>3 DEF StatusInv, StatusTyped, ShownOnce, AllMade, NotBegun, Alone, Faded,
    Fades, Placed
<1>8. Replaced'
  BY <1>1, <1>2, <1>3 DEF StatusInv, StatusTyped, Replaced, Separate, NotBegun, Alone, Faded,
    Fades, Placed
<1>9. AllWork'
  BY <1>1, <1>2, <1>3 DEF StatusInv, StatusTyped, AllWork, Replaced, Separate, NotBegun,
    ShownOnce, Alone, Faded, Fades, Placed
<1>10. QED
  BY <1>3, <1>4, <1>5, <1>6, <1>7, <1>8, <1>9 DEF StatusInv

LEMMA StatusSkip ==
  ASSUME StatusInv, NEW t \in Status!Tasks, Status!Skip(t)
  PROVE  StatusInv'
<1>1. StatusTyped
  BY DEF StatusInv
<1>2. /\ statusPc[t] = "check" /\ Alone(t) /\ statusPc'[t] = "idle" /\ statusCopy'[t] =
         Status!NoCopy
      /\ button'[t] = 0 /\ retired'[t] = {} /\ TasksTyped'
      /\ UNCHANGED <<row, content, live, made, comments, statusShown>>
  BY <1>1, DoneEffect DEF Status!Skip
<1>3. StatusTyped'
  BY <1>1, <1>2 DEF StatusTyped, TasksTyped
<1>4. AllMade'
  BY <1>1, <1>2, <1>3 DEF StatusInv, StatusTyped, AllMade, Alone, Faded, Fades, Placed
<1>5. Separate'
  BY <1>1, <1>2, <1>3 DEF StatusInv, StatusTyped, Separate, AllMade, Alone, Faded, Fades, Placed
<1>6. NotBegun'
  BY <1>1, <1>2, <1>3 DEF StatusInv, StatusTyped, NotBegun, Status!Terminal, Alone, Faded,
    Fades, Placed
<1>7. ShownOnce'
  BY <1>1, <1>2, <1>3 DEF StatusInv, StatusTyped, ShownOnce, AllMade, NotBegun, Alone, Faded,
    Fades, Placed
<1>8. Replaced'
  BY <1>1, <1>2, <1>3 DEF StatusInv, StatusTyped, Replaced, Separate, NotBegun, Alone, Faded,
    Fades, Placed
<1>9. AllWork'
  BY <1>1, <1>2, <1>3 DEF StatusInv, StatusTyped, AllWork, Replaced, Separate, NotBegun,
    ShownOnce, Alone, Faded, Fades, Placed
<1>10. QED
  BY <1>3, <1>4, <1>5, <1>6, <1>7, <1>8, <1>9 DEF StatusInv

LEMMA StatusStorePrint ==
  ASSUME StatusInv, NEW t \in Status!Tasks, Status!StorePrint(t)
  PROVE  StatusInv'
<1>1. StatusTyped
  BY DEF StatusInv
<1>2. /\ statusPc[t] = "edited" /\ Alone(t) /\ statusPc'[t] = "idle" /\ statusCopy'[t] =
         Status!NoCopy
      /\ button'[t] = 0 /\ retired'[t] = {} /\ TasksTyped'
      /\ UNCHANGED <<row, content, live, made, comments, statusShown>>
  BY <1>1, DoneEffect DEF Status!StorePrint
<1>3. StatusTyped'
  BY <1>1, <1>2 DEF StatusTyped, TasksTyped
<1>4. AllMade'
  BY <1>1, <1>2, <1>3 DEF StatusInv, StatusTyped, AllMade, Alone, Faded, Fades, Placed
<1>5. Separate'
  BY <1>1, <1>2, <1>3 DEF StatusInv, StatusTyped, Separate, AllMade, Alone, Faded, Fades, Placed
<1>6. NotBegun'
  BY <1>1, <1>2, <1>3 DEF StatusInv, StatusTyped, NotBegun, Status!Terminal, Alone, Faded,
    Fades, Placed
<1>7. ShownOnce'
  BY <1>1, <1>2, <1>3 DEF StatusInv, StatusTyped, ShownOnce, AllMade, NotBegun, Alone, Faded,
    Fades, Placed
<1>8. Replaced'
  BY <1>1, <1>2, <1>3 DEF StatusInv, StatusTyped, Replaced, Separate, NotBegun, Alone, Faded,
    Fades, Placed
<1>9. AllWork'
  BY <1>1, <1>2, <1>3 DEF StatusInv, StatusTyped, AllWork, Replaced, Separate, NotBegun,
    ShownOnce, Alone, Faded, Fades, Placed
<1>10. QED
  BY <1>3, <1>4, <1>5, <1>6, <1>7, <1>8, <1>9 DEF StatusInv

LEMMA StatusEdit ==
  ASSUME StatusInv, NEW t \in Status!Tasks, Status!Edit(t)
  PROVE  StatusInv'
<1>1. StatusTyped
  BY DEF StatusInv
<1>2. /\ statusPc[t] = "edit" /\ Alone(t) /\ statusPc'[t] = "edited" /\ TasksTyped'
      /\ Placed(t, statusCopy[t].comment) /\ statusShown' \in [Status!Comments -> ShownButtons]
      /\ UNCHANGED <<row, content, live, made, comments, statusCopy, button, retired>>
  <2>1. statusPc[t] = "edit" /\ statusPc' = [statusPc EXCEPT ![t] = "edited"]
        /\ UNCHANGED <<row, content, live, made, comments, statusCopy, button, retired>>
    BY DEF Status!Edit, Status!Goto
  <2>2. Alone(t) /\ statusPc'[t] = "edited" /\ TasksTyped'
    BY <1>1, <2>1 DEF Alone, TasksTyped, StatusTyped, Places
  <2>3. QED
    BY <1>1, <2>1, <2>2, PlacedEffect DEF Status!Edit, Status!Lands
<1>3. StatusTyped'
  BY <1>1, <1>2 DEF StatusTyped, TasksTyped
<1>4. AllMade'
  BY <1>1, <1>2, <1>3 DEF StatusInv, StatusTyped, AllMade, Alone, Faded, Fades, Placed
<1>5. Separate'
  BY <1>1, <1>2, <1>3 DEF StatusInv, StatusTyped, Separate, AllMade, Alone, Faded, Fades, Placed
<1>6. NotBegun'
  BY <1>1, <1>2, <1>3 DEF StatusInv, StatusTyped, NotBegun, Status!Terminal, Alone, Faded,
    Fades, Placed
<1>7. ShownOnce'
  BY <1>1, <1>2, <1>3 DEF StatusInv, StatusTyped, ShownOnce, AllMade, NotBegun, Alone, Faded,
    Fades, Placed
<1>8. Replaced'
  BY <1>1, <1>2, <1>3 DEF StatusInv, StatusTyped, Replaced, Separate, NotBegun, Alone, Faded,
    Fades, Placed
<1>9. AllWork'
  BY <1>1, <1>2, <1>3 DEF StatusInv, StatusTyped, AllWork, Replaced, Separate, NotBegun,
    ShownOnce, Alone, Faded, Fades, Placed
<1>10. QED
  BY <1>3, <1>4, <1>5, <1>6, <1>7, <1>8, <1>9 DEF StatusInv

LEMMA StatusRetire ==
  ASSUME StatusInv, NEW t \in Status!Tasks, Status!Retire(t)
  PROVE  StatusInv'
<1>1. StatusTyped
  BY DEF StatusInv
<1>2. /\ statusPc[t] = "check" /\ statusPc'[t] = "edit"
      /\ Alone(t) /\ statusCopy' = statusCopy /\ retired'[t] = live
      /\ \/ Status!Terminal(t) /\ live' = {} /\ made' = made /\ button'[t] = button[t]
         \/ /\ ~Status!Terminal(t) /\ made' = made + 1 /\ button'[t] = made + 1
            /\ live' \subseteq {made + 1}
      /\ live' \in SUBSET Nat /\ made' \in Nat /\ TasksTyped'
      /\ UNCHANGED <<row, content, comments, statusShown>>
  <2>1. statusPc[t] = "check" /\ statusPc' = [statusPc EXCEPT ![t] = "edit"]
        /\ retired' = [retired EXCEPT ![t] = live] /\ Status!Mark(t, {})
        /\ UNCHANGED <<row, content, comments, statusCopy, statusShown>>
    BY DEF Status!Retire, Status!Goto
  <2>2. /\ live' \in SUBSET Nat /\ made' \in Nat /\ button' \in [Status!Tasks -> Nat]
        /\ \A u \in Status!Tasks \ {t} : button'[u] = button[u]
        /\ \/ Status!Terminal(t) /\ live' = {} /\ made' = made /\ button'[t] = button[t]
           \/ /\ ~Status!Terminal(t) /\ made' = made + 1 /\ button'[t] = made + 1
              /\ live' \subseteq {made + 1}
    BY <1>1, <2>1, MarkEffect
  <2>3. TasksTyped' /\ Alone(t) /\ statusPc'[t] = "edit" /\ retired'[t] = live
    BY <1>1, <2>1, <2>2 DEF TasksTyped, Alone, StatusTyped, Places
  <2>4. QED
    BY <2>1, <2>2, <2>3
<1>3. StatusTyped'
  BY <1>1, <1>2 DEF StatusTyped, TasksTyped
<1>4. AllMade'
  <2>1. made \in Nat /\ made' \in Nat /\ made <= made'
    BY <1>1, <1>2 DEF StatusTyped
  <2>2. AllMade /\ live \in SUBSET Nat /\ button[t] \in Nat
    BY <1>1 DEF StatusInv, StatusTyped
  <2>3. \A b \in live' : b \in live \/ b = made'
    BY <1>2
  <2>4. button'[t] = button[t] \/ button'[t] = made'
    BY <1>2
  <2>5. \A b \in retired'[t] : b \in live
    BY <1>2
  <2>6. ASSUME NEW b \in Nat, b <= made PROVE b <= made'
    BY <2>1, <2>6
  <2>7. (\A b \in live' : b <= made') /\ (\A b \in retired'[t] : b <= made') /\ button'[t] <= made'
    <3>1. \A b \in live : b <= made'
      BY <2>2, <2>6 DEF AllMade
    <3>2. button[t] <= made'
      BY <2>2, <2>6 DEF AllMade
    <3>3. made' <= made'
      BY <2>1
    <3>4. QED
      BY <2>3, <2>4, <2>5, <3>1, <3>2, <3>3
  <2>8. \A u \in Status!Tasks \ {t} : button'[u] <= made' /\ \A b \in retired'[u] : b <= made'
    BY <1>1, <1>2, <2>2, <2>6 DEF StatusTyped, AllMade, Alone
  <2>9. \A c \in Status!Comments : statusShown'[c].button <= made'
    BY <1>1, <1>2, <2>2, <2>6 DEF StatusTyped, AllMade, ShownButtons
  <2>10. QED
    BY <2>7, <2>8, <2>9 DEF AllMade
<1>5. Separate'
  BY <1>1, <1>2, <1>3 DEF StatusInv, StatusTyped, Separate, AllMade, Alone, Faded, Fades, Placed
<1>6. NotBegun'
  BY <1>1, <1>2, <1>3 DEF StatusInv, StatusTyped, NotBegun, Status!Terminal, Alone, Faded,
    Fades, Placed
<1>7. ShownOnce'
  BY <1>1, <1>2, <1>3 DEF StatusInv, StatusTyped, ShownOnce, AllMade, NotBegun, Alone, Faded,
    Fades, Placed
<1>8. Replaced'
  BY <1>1, <1>2, <1>3 DEF StatusInv, StatusTyped, Replaced, Separate, NotBegun, Alone, Faded,
    Fades, Placed
<1>9. AllWork'
  BY <1>1, <1>2, <1>3 DEF StatusInv, StatusTyped, AllWork, Replaced, Separate, NotBegun,
    ShownOnce, Alone, Faded, Fades, Placed
<1>10. QED
  BY <1>3, <1>4, <1>5, <1>6, <1>7, <1>8, <1>9 DEF StatusInv

LEMMA StatusEnsure ==
  ASSUME StatusInv, NEW t \in Status!Tasks, Status!Ensure(t)
  PROVE  StatusInv'
<1>1. StatusTyped
  BY DEF StatusInv
<1>2. /\ statusPc[t] = "ensure" /\ Alone(t) /\ statusCopy' = statusCopy
      /\ \/ statusPc'[t] = "check" /\ live' = live /\ made' = made /\ button'[t] = button[t]
            /\ retired'[t] = {}
         \/ /\ Status!Terminal(t) /\ live' = live /\ made' = made /\ button'[t] = button[t]
            /\ statusPc'[t] = "send" /\ retired'[t] = {}
         \/ /\ ~Status!Terminal(t) /\ made' = made + 1 /\ button'[t] = made + 1
            /\ live' \subseteq {made + 1} /\ statusPc'[t] = "send" /\ retired'[t] = live \ live'
      /\ live' \in SUBSET Nat /\ made' \in Nat /\ TasksTyped'
      /\ UNCHANGED <<row, content, comments, statusShown>>
  <2>1. /\ statusPc[t] = "ensure"
        /\ retired' = [retired EXCEPT ![t] = live \ live']
        /\ UNCHANGED <<row, content, comments, statusCopy, statusShown>>
    BY DEF Status!Ensure
  <2>2. CASE statusCopy[t].comment # 0
    <3>1. statusPc' = [statusPc EXCEPT ![t] = "check"] /\ live' = live /\ made' = made /\
             button' = button
      BY <2>2 DEF Status!Ensure, Status!Goto
    <3>2. TasksTyped' /\ Alone(t) /\ statusPc'[t] = "check" /\ retired'[t] = {}
      BY <1>1, <2>1, <3>1 DEF TasksTyped, Alone, StatusTyped, Places
    <3>3. QED
      BY <1>1, <2>1, <3>1, <3>2 DEF StatusTyped
  <2>3. CASE statusCopy[t].comment = 0
    <3> DEFINE kept == IF Status!Terminal(t) THEN live ELSE {}
    <3>1. statusPc' = [statusPc EXCEPT ![t] = "send"] /\ Status!Mark(t, kept)
      BY <2>3 DEF Status!Ensure, Status!Goto
    <3>2. kept \in SUBSET Nat /\ (Status!Terminal(t) => kept = live)
          /\ (~Status!Terminal(t) => kept = {})
      BY <1>1 DEF StatusTyped
    <3> HIDE DEF kept
    <3>3. /\ live' \in SUBSET Nat /\ made' \in Nat /\ button' \in [Status!Tasks -> Nat]
          /\ \A u \in Status!Tasks \ {t} : button'[u] = button[u]
          /\ \/ Status!Terminal(t) /\ live' = live /\ made' = made /\ button'[t] = button[t]
             \/ /\ ~Status!Terminal(t) /\ made' = made + 1 /\ button'[t] = made + 1
                /\ live' \subseteq {made + 1}
      BY <1>1, <3>1, <3>2, MarkEffect
    <3>4. /\ TasksTyped' /\ Alone(t) /\ statusPc'[t] = "send" /\ retired'[t] = live \ live'
      BY <1>1, <2>1, <3>1, <3>3 DEF TasksTyped, Alone, StatusTyped, Places
    <3>5. QED
      BY <2>1, <3>3, <3>4
  <2>4. QED
    BY <2>2, <2>3
<1>3. StatusTyped'
  BY <1>1, <1>2 DEF StatusTyped, TasksTyped
<1>4. AllMade'
  <2>1. made \in Nat /\ made' \in Nat /\ made <= made'
    BY <1>1, <1>2 DEF StatusTyped
  <2>2. AllMade /\ live \in SUBSET Nat /\ button[t] \in Nat
    BY <1>1 DEF StatusInv, StatusTyped
  <2>3. \A b \in live' : b \in live \/ b = made'
    BY <1>2
  <2>4. button'[t] = button[t] \/ button'[t] = made'
    BY <1>2
  <2>5. \A b \in retired'[t] : b \in live
    BY <1>2
  <2>6. ASSUME NEW b \in Nat, b <= made PROVE b <= made'
    BY <2>1, <2>6
  <2>7. (\A b \in live' : b <= made') /\ (\A b \in retired'[t] : b <= made') /\ button'[t] <= made'
    <3>1. \A b \in live : b <= made'
      BY <2>2, <2>6 DEF AllMade
    <3>2. button[t] <= made'
      BY <2>2, <2>6 DEF AllMade
    <3>3. made' <= made'
      BY <2>1
    <3>4. QED
      BY <2>3, <2>4, <2>5, <3>1, <3>2, <3>3
  <2>8. \A u \in Status!Tasks \ {t} : button'[u] <= made' /\ \A b \in retired'[u] : b <= made'
    BY <1>1, <1>2, <2>2, <2>6 DEF StatusTyped, AllMade, Alone
  <2>9. \A c \in Status!Comments : statusShown'[c].button <= made'
    BY <1>1, <1>2, <2>2, <2>6 DEF StatusTyped, AllMade, ShownButtons
  <2>10. QED
    BY <2>7, <2>8, <2>9 DEF AllMade
<1>5. Separate'
  BY <1>1, <1>2, <1>3 DEF StatusInv, StatusTyped, Separate, AllMade, Alone, Faded, Fades, Placed
<1>6. NotBegun'
  BY <1>1, <1>2, <1>3 DEF StatusInv, StatusTyped, NotBegun, Status!Terminal, Alone, Faded,
    Fades, Placed
<1>7. ShownOnce'
  BY <1>1, <1>2, <1>3 DEF StatusInv, StatusTyped, ShownOnce, AllMade, NotBegun, Alone, Faded,
    Fades, Placed
<1>8. Replaced'
  BY <1>1, <1>2, <1>3 DEF StatusInv, StatusTyped, Replaced, Separate, NotBegun, Alone, Faded,
    Fades, Placed
<1>9. AllWork'
  BY <1>1, <1>2, <1>3 DEF StatusInv, StatusTyped, AllWork, Replaced, Separate, NotBegun,
    ShownOnce, Alone, Faded, Fades, Placed
<1>10. QED
  BY <1>3, <1>4, <1>5, <1>6, <1>7, <1>8, <1>9 DEF StatusInv

LEMMA StatusSend ==
  ASSUME StatusInv, NEW t \in Status!Tasks, Status!Send(t)
  PROVE  StatusInv'
<1>1. StatusTyped
  BY DEF StatusInv
<1>2. /\ statusPc[t] = "send" /\ Alone(t) /\ statusPc'[t] = "sent" /\ TasksTyped'
      /\ statusCopy'[t].closed = statusCopy[t].closed /\ statusCopy'[t].content =
               statusCopy[t].content
      /\ Placed(t, comments') /\ statusShown' \in [Status!Comments -> ShownButtons]
      /\ comments' \in Nat
      /\ UNCHANGED <<row, content, live, made, button, retired>>
  <2> DEFINE next == comments + 1
             c == [statusCopy[t] EXCEPT !.comment = next]
  <2>1. /\ statusPc[t] = "send" /\ statusPc' = [statusPc EXCEPT ![t] = "sent"]
        /\ statusCopy' = [statusCopy EXCEPT ![t] = c]
        /\ UNCHANGED <<row, content, live, made, button, retired>>
        /\ comments' = next
        /\ statusShown' = [Status!Without(retired[t]) EXCEPT ![next] = Status!Shows(t, FALSE)]
    BY DEF Status!Send, Status!Goto
  <2>2. next \in 0..MaxComments /\ next \in Nat
    BY <1>1, MaxCommentsAssumption DEF Status!Send, StatusTyped
  <2> HIDE DEF next
  <2>3. c \in StatusCopies /\ c.closed = statusCopy[t].closed /\ c.content = statusCopy[t].content
    BY <1>1, <2>2 DEF StatusTyped, StatusCopies
  <2> HIDE DEF c
  <2>4. Alone(t) /\ statusPc'[t] = "sent" /\ TasksTyped' /\ statusCopy'[t] = c
    BY <1>1, <2>1, <2>3 DEF Alone, TasksTyped, StatusTyped, Places
  <2>5. Placed(t, next) /\ statusShown' \in [Status!Comments -> ShownButtons]
    BY <1>1, <2>1, PlacedEffect
  <2>6. QED
    BY <2>1, <2>2, <2>3, <2>4, <2>5
<1>3. StatusTyped'
  BY <1>1, <1>2 DEF StatusTyped, TasksTyped
<1>4. AllMade'
  BY <1>1, <1>2, <1>3 DEF StatusInv, StatusTyped, AllMade, Alone, Faded, Fades, Placed
<1>5. Separate'
  BY <1>1, <1>2, <1>3 DEF StatusInv, StatusTyped, Separate, AllMade, Alone, Faded, Fades, Placed
<1>6. NotBegun'
  BY <1>1, <1>2, <1>3 DEF StatusInv, StatusTyped, NotBegun, Status!Terminal, Alone, Faded,
    Fades, Placed
<1>7. ShownOnce'
  BY <1>1, <1>2, <1>3 DEF StatusInv, StatusTyped, ShownOnce, AllMade, NotBegun, Alone, Faded,
    Fades, Placed
<1>8. Replaced'
  BY <1>1, <1>2, <1>3 DEF StatusInv, StatusTyped, Replaced, Separate, NotBegun, Alone, Faded,
    Fades, Placed
<1>9. AllWork'
  BY <1>1, <1>2, <1>3 DEF StatusInv, StatusTyped, AllWork, Replaced, Separate, NotBegun,
    ShownOnce, Alone, Faded, Fades, Placed
<1>10. QED
  BY <1>3, <1>4, <1>5, <1>6, <1>7, <1>8, <1>9 DEF StatusInv

LEMMA StatusStoreComment ==
  ASSUME StatusInv, NEW t \in Status!Tasks, Status!StoreComment(t)
  PROVE  StatusInv'
<1>1. StatusTyped
  BY DEF StatusInv
<1>2. /\ statusPc[t] = "sent" /\ Alone(t) /\ statusPc'[t] = "check" /\ TasksTyped'
      /\ row' \in StatusRows /\ row'.closed = row.closed
      /\ UNCHANGED <<content, live, made, comments, statusShown, statusCopy, button, retired>>
  <2>1. /\ statusPc[t] = "sent" /\ statusPc' = [statusPc EXCEPT ![t] = "check"]
        /\ row' = row \/ row' = [row EXCEPT !.comment = statusCopy[t].comment]
        /\ UNCHANGED <<content, live, made, comments, statusShown, statusCopy, button, retired>>
    BY DEF Status!StoreComment, Status!Goto
  <2>2. Alone(t) /\ statusPc'[t] = "check" /\ TasksTyped'
    BY <1>1, <2>1 DEF Alone, TasksTyped, StatusTyped, Places
  <2>3. row' \in StatusRows /\ row'.closed = row.closed
    BY <1>1, <2>1 DEF StatusTyped, StatusRows, StatusCopies
  <2>4. QED
    BY <2>1, <2>2, <2>3
<1>3. StatusTyped'
  BY <1>1, <1>2 DEF StatusTyped, TasksTyped
<1>4. AllMade'
  BY <1>1, <1>2, <1>3 DEF StatusInv, StatusTyped, AllMade, Alone, Faded, Fades, Placed
<1>5. Separate'
  BY <1>1, <1>2, <1>3 DEF StatusInv, StatusTyped, Separate, AllMade, Alone, Faded, Fades, Placed
<1>6. NotBegun'
  BY <1>1, <1>2, <1>3 DEF StatusInv, StatusTyped, NotBegun, Status!Terminal, Alone, Faded,
    Fades, Placed
<1>7. ShownOnce'
  BY <1>1, <1>2, <1>3 DEF StatusInv, StatusTyped, ShownOnce, AllMade, NotBegun, Alone, Faded,
    Fades, Placed
<1>8. Replaced'
  BY <1>1, <1>2, <1>3 DEF StatusInv, StatusTyped, Replaced, Separate, NotBegun, Alone, Faded,
    Fades, Placed
<1>9. AllWork'
  BY <1>1, <1>2, <1>3 DEF StatusInv, StatusTyped, AllWork, Replaced, Separate, NotBegun,
    ShownOnce, Alone, Faded, Fades, Placed
<1>10. QED
  BY <1>3, <1>4, <1>5, <1>6, <1>7, <1>8, <1>9 DEF StatusInv

LEMMA StatusEditFails ==
  ASSUME StatusInv, NEW t \in Status!Tasks, Status!EditFails(t)
  PROVE  StatusInv'
<1>1. StatusTyped
  BY DEF StatusInv
<1>2. /\ statusPc[t] = "edit" /\ Alone(t) /\ statusPc'[t] = "idle" /\ statusCopy'[t] = Status!NoCopy
      /\ button'[t] = 0 /\ retired'[t] = {} /\ TasksTyped'
      /\ statusShown' \in [Status!Comments -> ShownButtons] /\ live' \in SUBSET Nat
      /\ \/ Placed(t, statusCopy[t].comment) /\ (live' = live \/ live' = live \cup retired[t])
         \/ Faded(retired[t]) /\ (live' = live \/ live' = live \cup retired[t])
         \/ statusShown' = statusShown /\ ((row.closed /\ live' = live) \/ live' =
                  live \cup retired[t])
      /\ UNCHANGED <<row, content, made, comments>>
  <2>1. /\ statusPc[t] = "edit" /\ Status!Done(t)
        /\ UNCHANGED <<row, content, made, comments>>
        /\ \/ live' = live /\ (row.closed \/ Status!Terminal(t))
           \/ live' = live \cup retired[t] /\ ~Status!Terminal(t)
        /\ \/ Status!Lands(t, FALSE)
           \/ Status!Terminal(t) /\ Status!Dead(retired[t])
           \/ ~Status!Terminal(t) /\ statusShown' = statusShown
    BY DEF Status!EditFails
  <2>2. live' \in SUBSET Nat
    BY <1>1, <2>1 DEF StatusTyped
  <2>3. Status!Lands(t, FALSE) =>
          /\ Placed(t, statusCopy[t].comment)
          /\ statusShown' \in [Status!Comments -> ShownButtons]
    BY <1>1, PlacedEffect DEF Status!Lands
  <2>4. Status!Dead(retired[t]) =>
          Faded(retired[t]) /\ statusShown' \in [Status!Comments -> ShownButtons]
    BY <1>1, DeadEffect
  <2>5. statusShown \in [Status!Comments -> ShownButtons]
    BY <1>1 DEF StatusTyped
  <2>6. /\ Alone(t) /\ statusPc'[t] = "idle" /\ statusCopy'[t] = Status!NoCopy
        /\ button'[t] = 0 /\ retired'[t] = {} /\ TasksTyped'
    BY <1>1, <2>1, DoneEffect
  <2>7. QED
    BY <2>1, <2>2, <2>3, <2>4, <2>5, <2>6, Zenon
<1>3. StatusTyped'
  BY <1>1, <1>2 DEF StatusTyped, TasksTyped
<1>4. AllMade'
  BY <1>1, <1>2, <1>3 DEF StatusInv, StatusTyped, AllMade, Alone, Faded, Fades, Placed
<1>5. Separate'
  BY <1>1, <1>2, <1>3 DEF StatusInv, StatusTyped, Separate, AllMade, Alone, Faded, Fades, Placed
<1>6. NotBegun'
  BY <1>1, <1>2, <1>3 DEF StatusInv, StatusTyped, NotBegun, Status!Terminal, Alone, Faded,
    Fades, Placed
<1>7. ShownOnce'
  BY <1>1, <1>2, <1>3 DEF StatusInv, StatusTyped, ShownOnce, AllMade, NotBegun, Alone, Faded,
    Fades, Placed
<1>8. Replaced'
  BY <1>1, <1>2, <1>3 DEF StatusInv, StatusTyped, Replaced, Separate, NotBegun, Alone, Faded,
    Fades, Placed
<1>9. AllWork'
  BY <1>1, <1>2, <1>3 DEF StatusInv, StatusTyped, AllWork, Replaced, Separate, NotBegun,
    ShownOnce, Alone, Faded, Fades, Placed
<1>10. QED
  BY <1>3, <1>4, <1>5, <1>6, <1>7, <1>8, <1>9 DEF StatusInv

LEMMA StatusEvent ==
  ASSUME StatusInv, Status!Event
  PROVE  StatusInv'
<1>1. StatusTyped
  BY DEF StatusInv
<1>2. /\ content' \in Nat /\ TasksTyped'
      /\ \A u \in Status!Tasks \ {"debounce"} : button'[u] = button[u] /\ retired'[u] = retired[u]
      /\ \A u \in Status!Tasks \ {"debounce", "events"} :
           statusPc'[u] = statusPc[u] /\ statusCopy'[u] = statusCopy[u]
      /\ \/ UNCHANGED <<statusPc, statusCopy, button, retired, statusShown>>
         \/ /\ statusPc'["debounce"] \in {"idle", "sleep"} /\ button'["debounce"] = 0
            /\ retired'["debounce"] = {} /\ Faded(retired["debounce"])
            /\ statusPc["events"] = "idle" /\ statusPc'["events"] \in {"idle", "ensure"}
      /\ statusShown' \in [Status!Comments -> ShownButtons]
      /\ UNCHANGED <<row, live, made, comments>>
  <2>1. /\ content' = content + 1 /\ statusPc["events"] = "idle"
        /\ UNCHANGED <<row, live, made, comments>>
    BY DEF Status!Event
  <2>2. content' \in Nat
    BY <1>1, <2>1 DEF StatusTyped
  <2>3. CASE row.closed
    <3>1. UNCHANGED <<statusPc, statusCopy, button, retired, statusShown>>
      BY <2>3 DEF Status!Event, Status!tasks
    <3>2. QED
      BY <1>1, <2>1, <2>2, <3>1 DEF StatusTyped, TasksTyped
  <2>4. CASE ~row.closed
    <3> DEFINE c == [closed |-> FALSE, comment |-> row.comment, content |-> content',
             force |-> TRUE]
    <3>1. c \in StatusCopies /\ Status!NoCopy \in StatusCopies
      BY <1>1, <2>2, MaxCommentsAssumption DEF StatusTyped, StatusRows, StatusCopies, Status!NoCopy
    <3>2. /\ button' = [button EXCEPT !["debounce"] = 0]
          /\ retired' = [retired EXCEPT !["debounce"] = {}] /\ Status!Dead(retired["debounce"])
          /\ \/ /\ statusPc' = [statusPc EXCEPT !["debounce"] = "sleep"]
                /\ statusCopy' = [statusCopy EXCEPT !["debounce"] = Status!NoCopy]
             \/ /\ statusPc' = [statusPc EXCEPT !["debounce"] = "idle", !["events"] = "ensure"]
                /\ statusCopy' = [statusCopy EXCEPT !["debounce"] = Status!NoCopy, !["events"] = c]
      BY <2>4 DEF Status!Event
    <3> HIDE DEF c
    <3>3. Faded(retired["debounce"]) /\ statusShown' \in [Status!Comments -> ShownButtons]
      BY <1>1, <3>2, DeadEffect
    <3>4. /\ button' \in [Status!Tasks -> Nat] /\ button'["debounce"] = 0
          /\ \A u \in Status!Tasks \ {"debounce"} : button'[u] = button[u]
      BY <1>1, <3>2 DEF StatusTyped, Status!Tasks
    <3>5. /\ retired' \in [Status!Tasks -> SUBSET Nat] /\ retired'["debounce"] = {}
          /\ \A u \in Status!Tasks \ {"debounce"} : retired'[u] = retired[u]
      BY <1>1, <3>2 DEF StatusTyped, Status!Tasks
    <3>6. /\ statusPc' \in [Status!Tasks -> Places] /\ statusPc'["debounce"] \in {"idle", "sleep"}
          /\ statusPc'["events"] \in {"idle", "ensure"}
          /\ \A u \in Status!Tasks \ {"debounce", "events"} : statusPc'[u] = statusPc[u]
      BY <1>1, <2>1, <3>2 DEF StatusTyped, Status!Tasks, Places
    <3>7. /\ statusCopy' \in [Status!Tasks -> StatusCopies]
          /\ \A u \in Status!Tasks \ {"debounce", "events"} : statusCopy'[u] = statusCopy[u]
      BY <1>1, <3>1, <3>2 DEF StatusTyped, Status!Tasks
    <3>8. QED
      BY <2>1, <2>2, <3>3, <3>4, <3>5, <3>6, <3>7 DEF TasksTyped
  <2>5. QED
    BY <2>3, <2>4
<1>3. StatusTyped'
  BY <1>1, <1>2 DEF StatusTyped, TasksTyped
<1>4. AllMade'
  BY <1>1, <1>2, <1>3 DEF StatusInv, StatusTyped, AllMade, Alone, Faded, Fades, Placed
<1>5. Separate'
  BY <1>1, <1>2, <1>3 DEF StatusInv, StatusTyped, Separate, AllMade, Alone, Faded, Fades, Placed
<1>6. NotBegun'
  BY <1>1, <1>2, <1>3 DEF StatusInv, StatusTyped, NotBegun, Status!Terminal, Alone, Faded,
    Fades, Placed
<1>7. ShownOnce'
  BY <1>1, <1>2, <1>3 DEF StatusInv, StatusTyped, ShownOnce, AllMade, NotBegun, Alone, Faded,
    Fades, Placed
<1>8. Replaced'
  BY <1>1, <1>2, <1>3 DEF StatusInv, StatusTyped, Replaced, Separate, NotBegun, Alone, Faded,
    Fades, Placed
<1>9. AllWork'
  BY <1>1, <1>2, <1>3 DEF StatusInv, StatusTyped, AllWork, Replaced, Separate, NotBegun,
    ShownOnce, Alone, Faded, Fades, Placed
<1>10. QED
  BY <1>3, <1>4, <1>5, <1>6, <1>7, <1>8, <1>9 DEF StatusInv

LEMMA StatusHeartbeat ==
  ASSUME StatusInv, Status!Heartbeat
  PROVE  StatusInv'
<1>1. StatusTyped
  BY DEF StatusInv
<1>2. /\ statusPc["heartbeat"] = "idle" /\ Alone("heartbeat") /\ statusPc'["heartbeat"] =
         "ensure" /\ TasksTyped'
      /\ UNCHANGED <<row, content, live, made, comments, statusShown, button, retired>>
  <2>1. /\ statusPc["heartbeat"] = "idle" /\ Status!Read("heartbeat", content, FALSE)
        /\ UNCHANGED <<row, content, live, made, comments, statusShown>>
    BY DEF Status!Heartbeat
  <2>2. "heartbeat" \in Status!Tasks /\ content \in Nat
    BY <1>1 DEF Status!Tasks, StatusTyped
  <2>3. QED
    BY <1>1, <2>1, <2>2, ReadEffect
<1>3. StatusTyped'
  BY <1>1, <1>2 DEF StatusTyped, TasksTyped
<1>4. AllMade'
  BY <1>1, <1>2, <1>3 DEF StatusInv, StatusTyped, AllMade, Alone, Faded, Fades, Placed
<1>5. Separate'
  BY <1>1, <1>2, <1>3 DEF StatusInv, StatusTyped, Separate, AllMade, Alone, Faded, Fades, Placed
<1>6. NotBegun'
  BY <1>1, <1>2, <1>3 DEF StatusInv, StatusTyped, NotBegun, Status!Terminal, Alone, Faded,
    Fades, Placed
<1>7. ShownOnce'
  BY <1>1, <1>2, <1>3 DEF StatusInv, StatusTyped, ShownOnce, AllMade, NotBegun, Alone, Faded,
    Fades, Placed
<1>8. Replaced'
  BY <1>1, <1>2, <1>3 DEF StatusInv, StatusTyped, Replaced, Separate, NotBegun, Alone, Faded,
    Fades, Placed
<1>9. AllWork'
  BY <1>1, <1>2, <1>3 DEF StatusInv, StatusTyped, AllWork, Replaced, Separate, NotBegun,
    ShownOnce, Alone, Faded, Fades, Placed
<1>10. QED
  BY <1>3, <1>4, <1>5, <1>6, <1>7, <1>8, <1>9 DEF StatusInv

LEMMA StatusProvision ==
  ASSUME StatusInv, Status!Provision
  PROVE  StatusInv'
<1>1. StatusTyped
  BY DEF StatusInv
<1>2. /\ statusPc["chat"] = "idle" /\ Alone("chat") /\ statusPc'["chat"] = "ensure" /\ TasksTyped'
      /\ UNCHANGED <<row, content, live, made, comments, statusShown, button, retired>>
  <2>1. /\ statusPc["chat"] = "idle" /\ Status!Read("chat", 0, FALSE)
        /\ UNCHANGED <<row, content, live, made, comments, statusShown>>
    BY DEF Status!Provision
  <2>2. "chat" \in Status!Tasks /\ content \in Nat
    BY <1>1 DEF Status!Tasks, StatusTyped
  <2>3. QED
    BY <1>1, <2>1, <2>2, ReadEffect
<1>3. StatusTyped'
  BY <1>1, <1>2 DEF StatusTyped, TasksTyped
<1>4. AllMade'
  BY <1>1, <1>2, <1>3 DEF StatusInv, StatusTyped, AllMade, Alone, Faded, Fades, Placed
<1>5. Separate'
  BY <1>1, <1>2, <1>3 DEF StatusInv, StatusTyped, Separate, AllMade, Alone, Faded, Fades, Placed
<1>6. NotBegun'
  BY <1>1, <1>2, <1>3 DEF StatusInv, StatusTyped, NotBegun, Status!Terminal, Alone, Faded,
    Fades, Placed
<1>7. ShownOnce'
  BY <1>1, <1>2, <1>3 DEF StatusInv, StatusTyped, ShownOnce, AllMade, NotBegun, Alone, Faded,
    Fades, Placed
<1>8. Replaced'
  BY <1>1, <1>2, <1>3 DEF StatusInv, StatusTyped, Replaced, Separate, NotBegun, Alone, Faded,
    Fades, Placed
<1>9. AllWork'
  BY <1>1, <1>2, <1>3 DEF StatusInv, StatusTyped, AllWork, Replaced, Separate, NotBegun,
    ShownOnce, Alone, Faded, Fades, Placed
<1>10. QED
  BY <1>3, <1>4, <1>5, <1>6, <1>7, <1>8, <1>9 DEF StatusInv

LEMMA StatusWake ==
  ASSUME StatusInv, Status!Wake
  PROVE  StatusInv'
<1>1. StatusTyped
  BY DEF StatusInv
<1>2. /\ statusPc["debounce"] = "sleep" /\ Alone("debounce") /\ TasksTyped'
      /\ statusPc'["debounce"] \in {"idle", "ensure"}
      /\ button'["debounce"] = 0 /\ retired'["debounce"] = {}
      /\ UNCHANGED <<row, content, live, made, comments, statusShown>>
  <2>1. /\ statusPc["debounce"] = "sleep"
        /\ Status!Done("debounce") \/ Status!Read("debounce", content, FALSE)
        /\ UNCHANGED <<row, content, live, made, comments, statusShown>>
    BY DEF Status!Wake
  <2>2. "debounce" \in Status!Tasks /\ content \in Nat
    BY <1>1 DEF Status!Tasks, StatusTyped
  <2>3. button["debounce"] = 0 /\ retired["debounce"] = {}
    BY <2>1, <2>2 DEF StatusInv, NotBegun
  <2>4. CASE Status!Done("debounce")
    BY <1>1, <2>1, <2>2, <2>4, DoneEffect
  <2>5. CASE Status!Read("debounce", content, FALSE)
    BY <1>1, <2>1, <2>2, <2>3, <2>5, ReadEffect
  <2>6. QED
    BY <2>1, <2>4, <2>5
<1>3. StatusTyped'
  BY <1>1, <1>2 DEF StatusTyped, TasksTyped
<1>4. AllMade'
  BY <1>1, <1>2, <1>3 DEF StatusInv, StatusTyped, AllMade, Alone, Faded, Fades, Placed
<1>5. Separate'
  BY <1>1, <1>2, <1>3 DEF StatusInv, StatusTyped, Separate, AllMade, Alone, Faded, Fades, Placed
<1>6. NotBegun'
  BY <1>1, <1>2, <1>3 DEF StatusInv, StatusTyped, NotBegun, Status!Terminal, Alone, Faded,
    Fades, Placed
<1>7. ShownOnce'
  BY <1>1, <1>2, <1>3 DEF StatusInv, StatusTyped, ShownOnce, AllMade, NotBegun, Alone, Faded,
    Fades, Placed
<1>8. Replaced'
  BY <1>1, <1>2, <1>3 DEF StatusInv, StatusTyped, Replaced, Separate, NotBegun, Alone, Faded,
    Fades, Placed
<1>9. AllWork'
  BY <1>1, <1>2, <1>3 DEF StatusInv, StatusTyped, AllWork, Replaced, Separate, NotBegun,
    ShownOnce, Alone, Faded, Fades, Placed
<1>10. QED
  BY <1>3, <1>4, <1>5, <1>6, <1>7, <1>8, <1>9 DEF StatusInv

LEMMA StatusCancel ==
  ASSUME StatusInv, Status!Cancel
  PROVE  StatusInv'
<1>1. StatusTyped
  BY DEF StatusInv
<1>2. /\ statusPc["chat"] = "idle" /\ Alone("chat") /\ statusPc'["chat"] = "ensure" /\ TasksTyped'
      /\ \E d \in Status!Comments : live' = live \ {statusShown[d].button} /\ Erased(d)
      /\ statusShown' \in [Status!Comments -> ShownButtons]
      /\ UNCHANGED <<row, content, made, comments, button, retired>>
  <2> DEFINE b == statusShown[row.comment].button
  <2>1. /\ statusPc["chat"] = "idle" /\ Status!Read("chat", 0, TRUE) /\ row.comment # 0
        /\ live' = live \ {b}
        /\ statusShown' = [statusShown EXCEPT ![row.comment] = Status!Nothing]
        /\ UNCHANGED <<row, content, made, comments>>
    BY DEF Status!Cancel, Status!Pressable, Status!Take
  <2>2. "chat" \in Status!Tasks
    BY DEF Status!Tasks
  <2>3. row.comment \in Status!Comments
    BY <1>1, <2>1, MaxCommentsAssumption DEF StatusTyped, StatusRows, Status!Comments
  <2>4. Status!Nothing \in ShownButtons /\ Status!Nothing.button = 0 /\ ~Status!Nothing.fresh
    BY DEF Status!Nothing, ShownButtons
  <2>5. statusShown' \in [Status!Comments -> ShownButtons] /\ Erased(row.comment)
    BY <1>1, <2>1, <2>3, <2>4 DEF StatusTyped, ShownButtons, Erased
  <2>6. /\ Alone("chat") /\ statusPc'["chat"] = "ensure" /\ button' = button /\ retired' = retired
        /\ TasksTyped'
    <3> HIDE DEF b
    <3>1. QED
      BY <1>1, <2>1, <2>2, ReadEffect
  <2> HIDE DEF b
  <2>7. QED
    BY <2>1, <2>3, <2>5, <2>6, Zenon DEF b
<1>3. StatusTyped'
  BY <1>1, <1>2 DEF StatusTyped, TasksTyped
<1>4. AllMade'
  BY <1>1, <1>2, <1>3 DEF StatusInv, StatusTyped, AllMade, Erased, Alone, Faded, Fades, Placed
<1>5. Separate'
  BY <1>1, <1>2, <1>3 DEF StatusInv, StatusTyped, Separate, AllMade, Erased, Alone, Faded,
    Fades, Placed
<1>6. NotBegun'
  BY <1>1, <1>2, <1>3 DEF StatusInv, StatusTyped, NotBegun, Status!Terminal, Erased, Alone,
    Faded, Fades, Placed
<1>7. ShownOnce'
  BY <1>1, <1>2, <1>3 DEF StatusInv, StatusTyped, ShownOnce, AllMade, NotBegun, Erased, Alone,
    Faded, Fades, Placed
<1>8. Replaced'
  BY <1>1, <1>2, <1>3 DEF StatusInv, StatusTyped, Replaced, Separate, NotBegun, Erased, Alone,
    Faded, Fades, Placed
<1>9. AllWork'
  BY <1>1, <1>2, <1>3 DEF StatusInv, StatusTyped, AllWork, Replaced, Separate, NotBegun,
    ShownOnce, Erased, Alone, Faded, Fades, Placed
<1>10. QED
  BY <1>3, <1>4, <1>5, <1>6, <1>7, <1>8, <1>9 DEF StatusInv

LEMMA StatusAskUnwatch ==
  ASSUME StatusInv, Status!AskUnwatch
  PROVE  StatusInv'
<1>1. StatusTyped
  BY DEF StatusInv
<1>2. /\ statusPc["chat"] = "idle" /\ Alone("chat") /\ statusPc'["chat"] = "ask" /\ TasksTyped'
      /\ made' = made + 1 /\ live' = {made + 1} /\ button'["chat"] = made + 1
      /\ retired' = retired /\ made' \in Nat /\ live' \in SUBSET Nat
      /\ statusShown' \in [Status!Comments -> ShownButtons]
      /\ \A c \in Status!Comments :
           \/ statusShown'[c].button = 0 /\ ~statusShown'[c].fresh
           \/ Fades(c, live)
      /\ UNCHANGED <<row, content, comments>>
  <2> DEFINE next == made + 1
             old == Status!Without(live)
             c0 == [Status!NoCopy EXCEPT !.comment = row.comment]
  <2>1. /\ statusPc["chat"] = "idle" /\ statusPc' = [statusPc EXCEPT !["chat"] = "ask"]
        /\ made' = next /\ live' = {made'} /\ button' = [button EXCEPT !["chat"] = made']
        /\ statusShown' = [old EXCEPT ![row.comment] = Status!Nothing]
        /\ statusCopy' = [statusCopy EXCEPT !["chat"] = c0]
        /\ UNCHANGED <<row, content, comments, retired>>
    BY DEF Status!AskUnwatch, Status!Pressable, Status!Goto
  <2>2. "chat" \in Status!Tasks /\ next \in Nat
    BY <1>1 DEF Status!Tasks, StatusTyped
  <2>3. c0 \in StatusCopies
    BY <1>1, MaxCommentsAssumption DEF StatusTyped, StatusRows, StatusCopies, Status!NoCopy
  <2>4. \A c \in Status!Comments :
          /\ old[c] \in ShownButtons /\ old[c].button = statusShown[c].button
          /\ old[c].fresh => statusShown[c].fresh /\ statusShown[c].button \notin live
    <3>1. SUFFICES ASSUME NEW c \in Status!Comments
                   PROVE  /\ old[c] \in ShownButtons /\ old[c].button = statusShown[c].button
                          /\ old[c].fresh => statusShown[c].fresh /\
                                   statusShown[c].button \notin live
      OBVIOUS
    <3> DEFINE r == statusShown[c]
               stays == r.fresh /\ r.button \notin live
    <3>2. r \in ShownButtons /\ stays \in BOOLEAN /\ old[c] = [r EXCEPT !.fresh = stays]
      BY <1>1 DEF StatusTyped, Status!Without
    <3>3. stays => r.fresh /\ r.button \notin live
      OBVIOUS
    <3> HIDE DEF r, stays, old
    <3>4. old[c] \in ShownButtons /\ old[c].button = r.button /\ old[c].fresh = stays
      BY <3>2 DEF ShownButtons
    <3>5. QED
      BY <3>3, <3>4 DEF r
  <2>5. old = [c \in Status!Comments |-> old[c]]
    BY DEF Status!Without
  <2>6. Status!Nothing \in ShownButtons /\ Status!Nothing.button = 0 /\ ~Status!Nothing.fresh
    BY DEF Status!Nothing, ShownButtons
  <2> HIDE DEF next, old, c0
  <2>7. /\ Alone("chat") /\ statusPc'["chat"] = "ask" /\ TasksTyped' /\ button'["chat"] = next
    BY <1>1, <2>1, <2>2, <2>3 DEF StatusTyped, Alone, TasksTyped, Places
  <2>8. /\ statusShown' \in [Status!Comments -> ShownButtons]
        /\ \A c \in Status!Comments : \/ statusShown'[c].button = 0 /\ ~statusShown'[c].fresh
                                      \/ Fades(c, live)
    <3>1. \A c \in Status!Comments : statusShown'[c] = IF c =
             row.comment THEN Status!Nothing ELSE old[c]
      BY <2>1, <2>5
    <3>2. statusShown' = [c \in Status!Comments |-> statusShown'[c]]
      BY <2>1, <2>5
    <3>3. QED
      BY <2>4, <2>6, <3>1, <3>2 DEF Fades
  <2>9. QED
    BY <2>1, <2>2, <2>7, <2>8 DEF next
<1>3. StatusTyped'
  BY <1>1, <1>2 DEF StatusTyped, TasksTyped
<1>4. AllMade'
  <2>1. made \in Nat /\ made' \in Nat /\ made <= made' /\ AllMade
    BY <1>1, <1>2 DEF StatusTyped, StatusInv
  <2>2. ASSUME NEW b \in Nat, b <= made PROVE b <= made'
    BY <2>1, <2>2
  <2>3. \A b \in live' : b <= made'
    BY <1>2
  <2>4. "chat" \in Status!Tasks /\ button'["chat"] <= made' /\
           \A b \in retired'["chat"] : b <= made'
    BY <1>1, <1>2, <2>1, <2>2 DEF StatusTyped, AllMade, Status!Tasks
  <2>5. \A u \in Status!Tasks \ {"chat"} : button'[u] <= made' /\ \A b \in retired'[u] : b <= made'
    BY <1>1, <1>2, <2>1, <2>2 DEF StatusTyped, AllMade, Alone
  <2>6. \A c \in Status!Comments : statusShown'[c].button <= made'
    BY <1>1, <1>2, <2>1, <2>2 DEF StatusTyped, AllMade, ShownButtons, Fades
  <2>7. QED
    BY <2>3, <2>4, <2>5, <2>6 DEF AllMade
<1>5. Separate'
  BY <1>1, <1>2, <1>3 DEF StatusInv, StatusTyped, Separate, AllMade, Alone, Faded, Fades, Placed
<1>6. NotBegun'
  BY <1>1, <1>2, <1>3 DEF StatusInv, StatusTyped, NotBegun, Status!Terminal, Alone, Faded,
    Fades, Placed
<1>7. ShownOnce'
  BY <1>1, <1>2, <1>3 DEF StatusInv, StatusTyped, ShownOnce, AllMade, NotBegun, Alone, Faded,
    Fades, Placed
<1>8. Replaced'
  BY <1>1, <1>2, <1>3 DEF StatusInv, StatusTyped, Replaced, Separate, NotBegun, Alone, Faded,
    Fades, Placed
<1>9. AllWork'
  BY <1>1, <1>2, <1>3 DEF StatusInv, StatusTyped, AllWork, Replaced, Separate, NotBegun,
    ShownOnce, Alone, Faded, Fades, Placed
<1>10. QED
  BY <1>3, <1>4, <1>5, <1>6, <1>7, <1>8, <1>9 DEF StatusInv

LEMMA StatusAsk ==
  ASSUME StatusInv, Status!Ask
  PROVE  StatusInv'
<1>1. StatusTyped
  BY DEF StatusInv
<1>2. /\ statusPc["chat"] = "ask" /\ "chat" \in Status!Tasks
      /\ Alone("chat") /\ statusPc'["chat"] = "idle" /\ statusCopy'["chat"] = Status!NoCopy
      /\ button'["chat"] = 0 /\ retired'["chat"] = {} /\ TasksTyped'
      /\ Placed("chat", statusCopy["chat"].comment) \/ statusShown' = statusShown
      /\ statusShown' \in [Status!Comments -> ShownButtons]
      /\ UNCHANGED <<row, content, live, made, comments>>
  <2>1. /\ statusPc["chat"] = "ask" /\ Status!Done("chat")
        /\ Status!Lands("chat", TRUE) \/ statusShown' = statusShown
        /\ UNCHANGED <<row, content, live, made, comments>>
    BY DEF Status!Ask
  <2>2. "chat" \in Status!Tasks
    BY DEF Status!Tasks
  <2>3. Status!Lands("chat", TRUE) =>
          /\ Placed("chat", statusCopy["chat"].comment)
          /\ statusShown' \in [Status!Comments -> ShownButtons]
    BY <1>1, <2>2, PlacedEffect DEF Status!Lands
  <2>4. statusShown \in [Status!Comments -> ShownButtons]
    BY <1>1 DEF StatusTyped
  <2>5. /\ Alone("chat") /\ statusPc'["chat"] = "idle" /\ statusCopy'["chat"] = Status!NoCopy
        /\ button'["chat"] = 0 /\ retired'["chat"] = {} /\ TasksTyped'
    BY <1>1, <2>1, <2>2, DoneEffect
  <2>6. QED
    BY <2>1, <2>2, <2>3, <2>4, <2>5, Zenon
<1>3. StatusTyped'
  BY <1>1, <1>2 DEF StatusTyped, TasksTyped
<1>4. AllMade'
  BY <1>1, <1>2, <1>3 DEF StatusInv, StatusTyped, AllMade, Alone, Faded, Fades, Placed
<1>5. Separate'
  BY <1>1, <1>2, <1>3 DEF StatusInv, StatusTyped, Separate, AllMade, Alone, Faded, Fades, Placed
<1>6. NotBegun'
  BY <1>1, <1>2, <1>3 DEF StatusInv, StatusTyped, NotBegun, Status!Terminal, Alone, Faded,
    Fades, Placed
<1>7. ShownOnce'
  BY <1>1, <1>2, <1>3 DEF StatusInv, StatusTyped, ShownOnce, AllMade, NotBegun, Alone, Faded,
    Fades, Placed
<1>8. Replaced'
  BY <1>1, <1>2, <1>3 DEF StatusInv, StatusTyped, Replaced, Separate, NotBegun, Alone, Faded,
    Fades, Placed
<1>9. AllWork'
  BY <1>1, <1>2, <1>3 DEF StatusInv, StatusTyped, AllWork, Replaced, Separate, NotBegun,
    ShownOnce, Alone, Faded, Fades, Placed
<1>10. QED
  BY <1>3, <1>4, <1>5, <1>6, <1>7, <1>8, <1>9 DEF StatusInv

LEMMA StatusFreeze ==
  ASSUME StatusInv, Status!Freeze
  PROVE  StatusInv'
<1>1. StatusTyped
  BY DEF StatusInv
<1>2. /\ statusPc["chat"] = "freeze" /\ "chat" \in Status!Tasks
      /\ Alone("chat") /\ statusPc'["chat"] = "idle" /\ statusCopy'["chat"] = Status!NoCopy
      /\ button'["chat"] = 0 /\ retired'["chat"] = {} /\ TasksTyped'
      /\ Placed("chat", statusCopy["chat"].comment) \/ statusShown' = statusShown
      /\ statusShown' \in [Status!Comments -> ShownButtons]
      /\ UNCHANGED <<row, content, live, made, comments>>
  <2>1. /\ statusPc["chat"] = "freeze" /\ Status!Done("chat")
        /\ Status!Lands("chat", FALSE) \/ statusShown' = statusShown
        /\ UNCHANGED <<row, content, live, made, comments>>
    BY DEF Status!Freeze
  <2>2. "chat" \in Status!Tasks
    BY DEF Status!Tasks
  <2>3. Status!Lands("chat", FALSE) =>
          /\ Placed("chat", statusCopy["chat"].comment)
          /\ statusShown' \in [Status!Comments -> ShownButtons]
    BY <1>1, <2>2, PlacedEffect DEF Status!Lands
  <2>4. statusShown \in [Status!Comments -> ShownButtons]
    BY <1>1 DEF StatusTyped
  <2>5. /\ Alone("chat") /\ statusPc'["chat"] = "idle" /\ statusCopy'["chat"] = Status!NoCopy
        /\ button'["chat"] = 0 /\ retired'["chat"] = {} /\ TasksTyped'
    BY <1>1, <2>1, <2>2, DoneEffect
  <2>6. QED
    BY <2>1, <2>2, <2>3, <2>4, <2>5, Zenon
<1>3. StatusTyped'
  BY <1>1, <1>2 DEF StatusTyped, TasksTyped
<1>4. AllMade'
  BY <1>1, <1>2, <1>3 DEF StatusInv, StatusTyped, AllMade, Alone, Faded, Fades, Placed
<1>5. Separate'
  BY <1>1, <1>2, <1>3 DEF StatusInv, StatusTyped, Separate, AllMade, Alone, Faded, Fades, Placed
<1>6. NotBegun'
  BY <1>1, <1>2, <1>3 DEF StatusInv, StatusTyped, NotBegun, Status!Terminal, Alone, Faded,
    Fades, Placed
<1>7. ShownOnce'
  BY <1>1, <1>2, <1>3 DEF StatusInv, StatusTyped, ShownOnce, AllMade, NotBegun, Alone, Faded,
    Fades, Placed
<1>8. Replaced'
  BY <1>1, <1>2, <1>3 DEF StatusInv, StatusTyped, Replaced, Separate, NotBegun, Alone, Faded,
    Fades, Placed
<1>9. AllWork'
  BY <1>1, <1>2, <1>3 DEF StatusInv, StatusTyped, AllWork, Replaced, Separate, NotBegun,
    ShownOnce, Alone, Faded, Fades, Placed
<1>10. QED
  BY <1>3, <1>4, <1>5, <1>6, <1>7, <1>8, <1>9 DEF StatusInv

LEMMA StatusExecute ==
  ASSUME StatusInv, Status!Execute
  PROVE  StatusInv'
<1>1. StatusTyped
  BY DEF StatusInv
<1>2. /\ statusPc["chat"] = "idle" /\ "chat" \in Status!Tasks
      /\ Alone("chat") /\ statusPc'["chat"] = "freeze" /\ TasksTyped'
      /\ live' = {} /\ row' \in StatusRows /\ row'.closed
      /\ \E d \in Status!Comments : Erased(d)
      /\ statusShown' \in [Status!Comments -> ShownButtons]
      /\ UNCHANGED <<content, made, comments, button, retired>>
  <2> DEFINE c0 == [Status!NoCopy EXCEPT !.comment = row.comment]
             b == statusShown[row.comment].button
  <2>1. /\ statusPc["chat"] = "idle" /\ statusPc' = [statusPc EXCEPT !["chat"] = "freeze"]
        /\ statusCopy' = [statusCopy EXCEPT !["chat"] = c0]
        /\ row' = [row EXCEPT !.closed = TRUE] /\ live' = {} /\ row.comment # 0
        /\ statusShown' = [statusShown EXCEPT ![row.comment] = Status!Nothing]
        /\ UNCHANGED <<content, made, comments, button, retired>>
    BY DEF Status!Execute, Status!Pressable, Status!Goto
  <2>2. "chat" \in Status!Tasks
    BY DEF Status!Tasks
  <2>3. row.comment \in Status!Comments /\ row' \in StatusRows /\ row'.closed
    <3>1. row.comment \in Status!Comments
      BY <1>1, <2>1, MaxCommentsAssumption DEF StatusTyped, StatusRows, Status!Comments
    <3>2. row' \in StatusRows /\ row'.closed
      BY <1>1, <2>1 DEF StatusTyped, StatusRows
    <3>3. QED
      BY <3>1, <3>2
  <2>4. Status!Nothing \in ShownButtons /\ Status!Nothing.button = 0 /\ ~Status!Nothing.fresh
    BY DEF Status!Nothing, ShownButtons
  <2>5. statusShown' \in [Status!Comments -> ShownButtons] /\ Erased(row.comment)
    BY <1>1, <2>1, <2>3, <2>4 DEF StatusTyped, ShownButtons, Erased
  <2>6. c0 \in StatusCopies
    BY <1>1, MaxCommentsAssumption DEF StatusTyped, StatusRows, StatusCopies, Status!NoCopy
  <2> HIDE DEF c0, b
  <2>7. Alone("chat") /\ statusPc'["chat"] = "freeze" /\ TasksTyped'
    BY <1>1, <2>1, <2>2, <2>6 DEF StatusTyped, Alone, TasksTyped, Places
  <2>8. QED
    BY <2>1, <2>2, <2>3, <2>5, <2>7, Zenon
<1>3. StatusTyped'
  BY <1>1, <1>2 DEF StatusTyped, TasksTyped
<1>4. AllMade'
  BY <1>1, <1>2, <1>3 DEF StatusInv, StatusTyped, AllMade, Erased, Alone, Faded, Fades, Placed
<1>5. Separate'
  BY <1>1, <1>2, <1>3 DEF StatusInv, StatusTyped, Separate, AllMade, Erased, Alone, Faded,
    Fades, Placed
<1>6. NotBegun'
  BY <1>1, <1>2, <1>3 DEF StatusInv, StatusTyped, NotBegun, Status!Terminal, Erased, Alone,
    Faded, Fades, Placed
<1>7. ShownOnce'
  BY <1>1, <1>2, <1>3 DEF StatusInv, StatusTyped, ShownOnce, AllMade, NotBegun, Erased, Alone,
    Faded, Fades, Placed
<1>8. Replaced'
  BY <1>1, <1>2, <1>3 DEF StatusInv, StatusTyped, Replaced, Separate, NotBegun, Erased, Alone,
    Faded, Fades, Placed
<1>9. AllWork'
  BY <1>1, <1>2, <1>3 DEF StatusInv, StatusTyped, AllWork, Replaced, Separate, NotBegun,
    ShownOnce, Erased, Alone, Faded, Fades, Placed
<1>10. QED
  BY <1>3, <1>4, <1>5, <1>6, <1>7, <1>8, <1>9 DEF StatusInv

LEMMA StatusRestart ==
  ASSUME StatusInv, Status!Restart
  PROVE  StatusInv'
<1>1. StatusTyped
  BY DEF StatusInv
<1>2. /\ \A t \in Status!Tasks :
           /\ statusPc'[t] = "idle" /\ statusCopy'[t] = Status!NoCopy
           /\ button'[t] = 0 /\ retired'[t] = {}
      /\ \A c \in Status!Comments :
           /\ statusShown'[c].button = statusShown[c].button
           /\ statusShown'[c].fresh =>
                /\ statusShown[c].fresh
                /\ \A t \in Status!Tasks : statusShown[c].button \notin retired[t]
      /\ TasksTyped' /\ statusShown' \in [Status!Comments -> ShownButtons]
      /\ UNCHANGED <<row, content, live, made, comments>>
  <2> DEFINE lost == UNION {retired[t] : t \in Status!Tasks}
  <2>1. /\ statusPc' = [t \in Status!Tasks |-> "idle"]
        /\ statusCopy' = [t \in Status!Tasks |-> Status!NoCopy]
        /\ button' = [t \in Status!Tasks |-> 0] /\ retired' = [t \in Status!Tasks |-> {}]
        /\ Status!Dead(lost)
        /\ UNCHANGED <<row, content, live, made, comments>>
    BY DEF Status!Restart
  <2>2. \A t \in Status!Tasks : retired[t] \subseteq lost
    OBVIOUS
  <2> HIDE DEF lost
  <2>3. Faded(lost) /\ statusShown' \in [Status!Comments -> ShownButtons]
    BY <1>1, <2>1, DeadEffect
  <2>4. \A c \in Status!Comments :
          /\ statusShown'[c].button = statusShown[c].button
          /\ statusShown'[c].fresh =>
               /\ statusShown[c].fresh
               /\ \A t \in Status!Tasks : statusShown[c].button \notin retired[t]
    BY <2>2, <2>3 DEF Faded, Fades
  <2>5. Status!NoCopy \in StatusCopies
    BY MaxCommentsAssumption DEF Status!NoCopy, StatusCopies
  <2>6. TasksTyped'
    BY <2>1, <2>5 DEF TasksTyped, Places
  <2>7. QED
    BY <2>1, <2>3, <2>4, <2>6
<1>3. StatusTyped'
  BY <1>1, <1>2 DEF StatusTyped, TasksTyped
<1>4. AllMade'
  BY <1>1, <1>2, <1>3 DEF StatusInv, StatusTyped, AllMade, Alone, Faded, Fades, Placed
<1>5. Separate'
  BY <1>1, <1>2, <1>3 DEF StatusInv, StatusTyped, Separate, AllMade, Alone, Faded, Fades, Placed
<1>6. NotBegun'
  BY <1>1, <1>2, <1>3 DEF StatusInv, StatusTyped, NotBegun, Status!Terminal, Alone, Faded,
    Fades, Placed
<1>7. ShownOnce'
  BY <1>1, <1>2, <1>3 DEF StatusInv, StatusTyped, ShownOnce, AllMade, NotBegun, Alone, Faded,
    Fades, Placed
<1>8. Replaced'
  BY <1>1, <1>2, <1>3 DEF StatusInv, StatusTyped, Replaced, Separate, NotBegun, Alone, Faded,
    Fades, Placed
<1>9. AllWork'
  BY <1>1, <1>2, <1>3 DEF StatusInv, StatusTyped, AllWork, Replaced, Separate, NotBegun,
    ShownOnce, Alone, Faded, Fades, Placed
<1>10. QED
  BY <1>3, <1>4, <1>5, <1>6, <1>7, <1>8, <1>9 DEF StatusInv

LEMMA StatusStart ==
  ASSUME Status!Init
  PROVE  StatusInv
<1>1. Status!NoCopy \in StatusCopies /\ Status!Nothing \in ShownButtons
      /\ Status!Nothing.button = 0 /\ ~Status!Nothing.fresh
  BY MaxCommentsAssumption DEF Status!NoCopy, StatusCopies, Status!Nothing, ShownButtons
<1>2. /\ row = [closed |-> FALSE, comment |-> 0] /\ content = 0 /\ live = {} /\ made = 0
      /\ comments = 0 /\ statusShown = [c \in Status!Comments |-> Status!Nothing]
      /\ statusPc = [t \in Status!Tasks |-> "idle"]
      /\ statusCopy = [t \in Status!Tasks |-> Status!NoCopy]
      /\ button = [t \in Status!Tasks |-> 0] /\ retired = [t \in Status!Tasks |-> {}]
  BY DEF Status!Init
<1>3. row \in StatusRows
  BY <1>2, MaxCommentsAssumption DEF StatusRows
<1>4. StatusTyped
  BY <1>1, <1>2, <1>3 DEF StatusTyped, Places
<1>5. AllMade /\ Separate /\ NotBegun /\ ShownOnce /\ Replaced /\ AllWork
  BY <1>1, <1>2 DEF AllMade, Separate, NotBegun, ShownOnce, Replaced, AllWork
<1>6. QED
  BY <1>4, <1>5 DEF StatusInv

LEMMA StatusNext ==
  ASSUME StatusInv, [Status!Next]_statusVars
  PROVE  StatusInv'
<1>1. CASE Status!Next
  <2>1. ASSUME NEW t \in Status!Tasks, Status!Update(t) PROVE StatusInv'
    BY <2>1, StatusEnsure, StatusSend, StatusSendFails, StatusStoreComment, StatusSkip,
       StatusRetire, StatusEdit, StatusStorePrint, StatusEditFails, Zenon DEF Status!Update
  <2>2. QED
    BY <1>1, <2>1, StatusEvent, StatusWake, StatusHeartbeat, StatusProvision, StatusCancel,
       StatusAskUnwatch, StatusAsk, StatusExecute, StatusFreeze, StatusRestart,
                Zenon DEF Status!Next
<1>2. CASE UNCHANGED statusVars
  BY <1>2 DEF statusVars, StatusInv, StatusTyped, AllMade, Separate, NotBegun, ShownOnce,
    Replaced, AllWork, Status!Terminal
<1>3. QED
  BY <1>1, <1>2

LEMMA ButtonInvariant ==
  ASSUME StatusInv
  PROVE  Status!ButtonWorks
<1>1. row.comment # 0 => row.comment \in Status!Comments
  BY MaxCommentsAssumption DEF StatusInv, StatusTyped, StatusRows, Status!Comments
<1>2. QED
  BY <1>1 DEF StatusInv, AllWork, Status!ButtonWorks

\* The button of an open space's status comment works, whatever updates, failed
\* edits, restarts and commands were under way (render_status_comment and the
\* buttons it creates, retires and revives).
THEOREM ButtonAlwaysWorks == ChatSpec => []ButtonWorks
<1>1. ChatInit => StatusInv
  BY StatusStart DEF ChatInit
<1>2. StatusInv /\ [ChatNext]_allVars => StatusInv'
  <2>1. [ChatNext]_allVars => [Status!Next]_statusVars
    BY DEF ChatNext, allVars
  <2>2. QED
    BY <2>1, StatusNext
<1>3. StatusInv => ButtonWorks
  BY ButtonInvariant DEF ButtonWorks
<1>4. QED
  BY <1>1, <1>2, <1>3, PTL DEF ChatSpec

------------------------------------------------------------------------------
\* Events as the app-server sends them.
Notices ==
    [type : {"started", "updated"}, turn : Threads!Turns, state : {"inProgress"}]
    \cup [type : {"completed"}, turn : Threads!Turns, state : {"completed", "failed"}]
    \cup [type : {"error"}, turn : Threads!Turns, state : {"recoverable", "fatal"}]
    \cup [type : {"thread"}, turn : {0}, state : {"healthy", "error"}]
\* Whether an event tells how the turn stands, and what it tells.
Tells(e) == e.type \in {"started", "updated", "completed"} \/ e.state = "fatal"
Told(e) == IF e.type = "error" THEN "failed" ELSE e.state

Projections ==
    [status : {"absent", "none", "inProgress", "completed", "failed"},
     thread : {"unknown", "healthy", "error"}, error : {"none", "recoverable", "fatal"},
     counted : SUBSET Threads!Turns, total : Nat]
Exact(p) ==
    /\ p \in Projections /\ p.total = Cardinality(p.counted)
    /\ p.status = "absent" => p = Threads!Absent

ThreadsTyped ==
    /\ truth \in [turn : 0..MaxTurns, state : {"none", "inProgress", "completed", "failed"},
                  thread : {"healthy", "error"}]
    /\ truth.state # "none" => truth.turn > 0
    /\ events \in Seq(Notices) /\ phase \in {"down", "read", "install", "run"}
    /\ fresh \in BOOLEAN /\ aged \in BOOLEAN /\ quiet \in BOOLEAN /\ threadLive \in BOOLEAN
    /\ troubles \in Nat /\ (phase = "down" => events = <<>>)

\* Every projection counts each of its turns once.
AllExact == \A p \in {rebuilt, mem, threadRow, debounce, threadShown} : Exact(p)

\* Only turns that ended are counted, and the row counts none that the projections
\* it may be replaced by do not count.
CountsEnded ==
    /\ \A p \in {rebuilt, mem, threadRow} : p.counted \subseteq Threads!Ended
    /\ \A i \in DOMAIN events : events[i].type = "completed" => events[i].turn \in Threads!Ended
RowBehind ==
    /\ mem # Threads!Absent => threadRow.counted \subseteq mem.counted
    /\ phase = "install" => threadRow.counted \subseteq rebuilt.counted

\* The last event that tells how the turn stands is right; without one, what was
\* folded so far is.
Silent == \A i \in DOMAIN events : ~Tells(events[i])
LastTells ==
    \A i \in DOMAIN events :
      Tells(events[i]) /\ (\A j \in DOMAIN events : j > i => ~Tells(events[j]))
        => Told(events[i]) = truth.state
UpToDate ==
    /\ phase = "install" => rebuilt # Threads!Absent /\ (Silent => rebuilt.status = truth.state)
    /\ threadLive => phase = "run" /\ threadRow # Threads!Absent
    /\ threadLive /\ mem # Threads!Absent /\ mem.status # "inProgress" => threadRow.status =
             mem.status
    /\ threadLive /\ Silent => Threads!Load(mem).status = truth.state

ThreadsInv == ThreadsTyped /\ AllExact /\ CountsEnded /\ RowBehind /\ LastTells /\ UpToDate

LEMMA FiniteTurns == \A s \in SUBSET Threads!Turns :
                       IsFiniteSet(s) /\ Cardinality(s) \in Nat /\ Cardinality(s) <= MaxTurns
<1>1. IsFiniteSet(1..MaxTurns) /\ Cardinality(1..MaxTurns) = MaxTurns
  BY FS_Interval, MaxTurnsAssumption
<1>2. QED
  BY <1>1, FS_Subset, FS_CardinalityType DEF Threads!Turns

\* The cardinality of the instance is that of the library.
LEMMA SameCardinality == \A s : Threads!Cardinality(s) = Cardinality(s)
BY DEF Threads!Cardinality, Cardinality

LEMMA ExactStart == Exact(Threads!Absent) /\ Exact(Threads!Shell)
BY FS_EmptySet DEF Exact, Projections, Threads!Absent, Threads!Shell

\* What an event does to a projection.
LEMMA ExactCount ==
  ASSUME NEW p, Exact(p), NEW t \in Threads!Turns, p.status # "absent"
  PROVE  /\ Exact(Threads!Count(p, t))
         /\ Threads!Count(p, t).counted = p.counted \cup {t}
         /\ Threads!Count(p, t).status = p.status
<1>1. CASE t \in p.counted
  BY <1>1 DEF Threads!Count
<1>2. CASE t \notin p.counted
  <2>1. /\ Cardinality(p.counted \cup {t}) = Cardinality(p.counted) + 1
        /\ p.counted \cup {t} \in SUBSET Threads!Turns
    BY <1>2, FiniteTurns, FS_AddElement DEF Exact, Projections
  <2>2. Threads!Count(p, t) = [p EXCEPT !.counted = p.counted \cup {t}, !.total = p.total + 1]
    BY <1>2 DEF Threads!Count, Threads!CountAlways
  <2> DEFINE q == Threads!Count(p, t)
  <2>3. /\ q \in [status : {"absent", "none", "inProgress", "completed", "failed"},
                 thread : {"unknown", "healthy", "error"},
                 error : {"none", "recoverable", "fatal"},
                 counted : SUBSET Threads!Turns, total : Nat]
        /\ q.counted = p.counted \cup {t} /\ q.total = p.total + 1 /\ q.status = p.status
    <3> DEFINE sum == p.total + 1
               both == p.counted \cup {t}
    <3>1. q = [p EXCEPT !.counted = both, !.total = sum] /\ p \in Projections
      BY <2>2 DEF Exact
    <3>2. sum \in Nat /\ both \in SUBSET Threads!Turns
      BY <2>1, <3>1 DEF Projections
    <3> HIDE DEF q, sum, both
    <3>3. q \in Projections /\ q.counted = both /\ q.total = sum /\ q.status = p.status
      BY <3>1, <3>2 DEF Projections
    <3>4. QED
      BY <3>3 DEF Projections, sum, both
  <2> HIDE DEF q
  <2>4. Exact(q)
    BY <2>1, <2>3 DEF Exact, Projections
  <2>5. QED
    BY <2>3, <2>4 DEF q
<1>3. QED
  BY <1>1, <1>2

LEMMA ExactCalm ==
  ASSUME NEW p, Exact(p), p.status # "absent"
  PROVE  /\ Exact(Threads!Calm(p)) /\ Threads!Calm(p).counted = p.counted
         /\ Threads!Calm(p).status = p.status
BY DEF Threads!Calm, Exact, Projections

LEMMA ExactStatus ==
  ASSUME NEW p, Exact(p), p.status # "absent",
         NEW s \in {"none", "inProgress", "completed", "failed"}
  PROVE  /\ Exact([p EXCEPT !.status = s]) /\ [p EXCEPT !.status = s].counted = p.counted
         /\ [p EXCEPT !.status = s].status = s
BY DEF Exact, Projections

LEMMA AppliedProjection ==
  ASSUME NEW p, Exact(p), p.status # "absent", NEW e \in Notices
  PROVE  /\ Exact(Threads!Applied(p, e))
         /\ Threads!Applied(p, e).status # "absent"
         /\ p.counted \subseteq Threads!Applied(p, e).counted
         /\ Threads!Applied(p, e).counted \subseteq
              p.counted \cup (IF e.type = "completed" THEN {e.turn} ELSE {})
         /\ Threads!Applied(p, e).status = IF Tells(e) THEN Told(e) ELSE p.status
<1>1. CASE e.type = "started"
  <2>1. Threads!Applied(p, e) = [Threads!Calm(p) EXCEPT !.status = "inProgress"]
    BY <1>1 DEF Threads!Applied, Threads!Started
  <2>2. e.state = "inProgress"
    BY <1>1 DEF Notices
  <2> DEFINE q == Threads!Calm(p)
  <2>3. Exact(q) /\ q.counted = p.counted /\ q.status = p.status
    BY ExactCalm
  <2> HIDE DEF q
  <2>4. /\ Exact([q EXCEPT !.status = "inProgress"])
        /\ [q EXCEPT !.status = "inProgress"].counted = p.counted
        /\ [q EXCEPT !.status = "inProgress"].status = "inProgress"
    BY <2>3, ExactStatus
  <2>5. Threads!Applied(p, e) = [q EXCEPT !.status = "inProgress"]
    BY <2>1, <2>2 DEF q
  <2>6. QED
    BY <1>1, <2>2, <2>4, <2>5 DEF Tells, Told
<1>2. CASE e.type = "updated"
  <2>1. Threads!Applied(p, e) = [Threads!Calm(p) EXCEPT !.status = e.state]
    BY <1>2 DEF Threads!Applied, Threads!Updated
  <2>2. e.state = "inProgress"
    BY <1>2 DEF Notices
  <2> DEFINE q == Threads!Calm(p)
  <2>3. Exact(q) /\ q.counted = p.counted /\ q.status = p.status
    BY ExactCalm
  <2> HIDE DEF q
  <2>4. /\ Exact([q EXCEPT !.status = "inProgress"])
        /\ [q EXCEPT !.status = "inProgress"].counted = p.counted
        /\ [q EXCEPT !.status = "inProgress"].status = "inProgress"
    BY <2>3, ExactStatus
  <2>5. Threads!Applied(p, e) = [q EXCEPT !.status = "inProgress"]
    BY <2>1, <2>2 DEF q
  <2>6. QED
    BY <1>2, <2>2, <2>4, <2>5 DEF Tells, Told
<1>3. CASE e.type = "completed"
  <2> DEFINE q == [p EXCEPT !.status = e.state]
  <2>1. Threads!Applied(p, e) = Threads!Count(q, e.turn)
    BY <1>3 DEF Threads!Applied, Threads!Completed
  <2>2. e.state \in {"completed", "failed"} /\ e.turn \in Threads!Turns
    BY <1>3 DEF Notices
  <2>3. Exact(q) /\ q.counted = p.counted /\ q.status = e.state
    BY <2>2, ExactStatus
  <2> HIDE DEF q
  <2>4. QED
    BY <1>3, <2>1, <2>2, <2>3, ExactCount DEF Tells, Told
<1>4. CASE e.type = "thread"
  <2> DEFINE q == [p EXCEPT !.thread = e.state]
  <2>1. Threads!Applied(p, e) = IF e.state = "healthy" THEN Threads!Calm(q) ELSE q
    BY <1>4 DEF Threads!Applied, Threads!ThreadChanged
  <2>2. e.state \in {"healthy", "error"}
    BY <1>4 DEF Notices
  <2>3. Exact(q) /\ q.counted = p.counted /\ q.status = p.status
    BY <2>2 DEF Exact, Projections
  <2> HIDE DEF q
  <2>4. QED
    BY <1>4, <2>1, <2>2, <2>3, ExactCalm DEF Tells, Told
<1>5. CASE e.type = "error"
  <2> DEFINE q == [p EXCEPT !.error = e.state]
             status_ == IF e.state = "fatal" THEN "failed" ELSE p.status
  <2>1. Threads!Applied(p, e) = [q EXCEPT !.status = status_]
    BY <1>5 DEF Threads!Applied, Threads!Erred
  <2>2. e.state \in {"recoverable", "fatal"}
    BY <1>5 DEF Notices
  <2>3. Exact(q) /\ q.counted = p.counted /\ q.status = p.status
    BY <2>2 DEF Exact, Projections
  <2>4. status_ \in {"none", "inProgress", "completed", "failed"}
    BY DEF Exact, Projections
  <2>5. status_ = IF Tells(e) THEN Told(e) ELSE p.status
    BY <1>5, <2>2 DEF Tells, Told
  <2> HIDE DEF q, status_
  <2>6. /\ Exact([q EXCEPT !.status = status_])
        /\ [q EXCEPT !.status = status_].counted = p.counted
        /\ [q EXCEPT !.status = status_].status = status_
    BY <2>3, <2>4, ExactStatus
  <2>7. status_ # "absent"
    BY <2>4
  <2>8. QED
    BY <1>5, <2>1, <2>5, <2>6, <2>7
<1>6. QED
  BY <1>1, <1>2, <1>3, <1>4, <1>5 DEF Notices

\* The projection an event is applied to.
LEMMA LoadedProjection ==
  ASSUME AllExact, RowBehind, CountsEnded
  PROVE  LET p == Threads!Load(mem) IN
         /\ Exact(p) /\ p.status # "absent" /\ p.counted \subseteq Threads!Ended
         /\ threadRow.counted \subseteq p.counted
<1>1. CASE mem # Threads!Absent
  <2>1. Threads!Load(mem) = mem
    BY <1>1 DEF Threads!Load, Threads!LoadShell
  <2>2. QED
    BY <1>1, <2>1 DEF AllExact, RowBehind, CountsEnded, Exact
<1>2. CASE mem = Threads!Absent /\ threadRow # Threads!Absent
  <2>1. Threads!Load(mem) = threadRow
    BY <1>2 DEF Threads!Load, Threads!LoadShell
  <2>2. QED
    BY <1>2, <2>1 DEF AllExact, RowBehind, CountsEnded, Exact
<1>3. CASE mem = Threads!Absent /\ threadRow = Threads!Absent
  <2>1. Threads!Load(mem) = Threads!Shell
    BY <1>3 DEF Threads!Load, Threads!LoadShell
  <2>2. Threads!Shell.counted = {} /\ Threads!Absent.counted = {} /\ Threads!Shell.status = "none"
    BY DEF Threads!Shell, Threads!Absent
  <2>3. QED
    BY <1>3, <2>1, <2>2, ExactStart
<1>4. QED
  BY <1>1, <1>2, <1>3

LEMMA EndedGrows ==
  ASSUME ThreadsTyped, ThreadsTyped',
         \/ truth' = truth
         \/ truth'.turn = truth.turn /\ truth'.state # "inProgress"
         \/ truth'.turn = truth.turn /\ truth'.state = truth.state
         \/ truth'.turn = truth.turn + 1 /\ truth.state # "inProgress"
  PROVE  Threads!Ended \subseteq Threads!Ended'
BY MaxTurnsAssumption DEF Threads!Ended, ThreadsTyped, Threads!Turns

\* Events are added at the end of the queue.
LEMMA Emission ==
  ASSUME NEW new \in Seq(Notices), events \in Seq(Notices), Threads!Emit(new)
  PROVE  /\ events' \in Seq(Notices)
         /\ phase = "down" => events' = events
         /\ phase # "down" =>
              /\ DOMAIN events' = 1..Len(events) + Len(new)
              /\ \A i \in DOMAIN events : events'[i] = events[i]
              /\ \A i \in DOMAIN new : events'[Len(events) + i] = new[i]
              /\ \A i \in DOMAIN events' : i \notin DOMAIN events => i - Len(events) \in DOMAIN new
<1>1. CASE phase = "down"
  BY <1>1 DEF Threads!Emit
<1>2. CASE phase # "down"
  <2>1. events' = events \o new
    BY <1>2 DEF Threads!Emit
  <2>2. /\ events' \in Seq(Notices) /\ Len(events') = Len(events) + Len(new)
        /\ \A i \in 1..Len(events) + Len(new) :
             events'[i] = IF i <= Len(events) THEN events[i] ELSE new[i - Len(events)]
    BY <2>1, ConcatProperties
  <2>3. DOMAIN events' = 1..Len(events') /\ DOMAIN events = 1..Len(events) /\ DOMAIN new =
           1..Len(new)
        /\ Len(events) \in Nat /\ Len(new) \in Nat
    BY <2>2, LenProperties
  <2>4. QED
    BY <1>2, <2>2, <2>3
<1>3. QED
  BY <1>1, <1>2

\* A step of the app-server keeps the invariant when its events tell of the new
\* state, or tell nothing and leave the state alone.
LEMMA ServerStep ==
  ASSUME ThreadsInv, NEW new \in Seq(Notices), NEW next, Threads!Server(new, next),
         ThreadsTyped', Threads!Ended \subseteq Threads!Ended', Len(new) > 0,
         \A i \in DOMAIN new : new[i].type = "completed" => new[i].turn \in Threads!Ended',
         \/ Tells(new[Len(new)]) /\ Told(new[Len(new)]) = next.state
         \/ next.state = truth.state /\ \A i \in DOMAIN new : ~Tells(new[i])
  PROVE  ThreadsInv'
<1> USE DEF ThreadsInv
<1>1. /\ truth' = next /\ Threads!Emit(new)
      /\ UNCHANGED <<phase, rebuilt, mem, threadRow, fresh, aged, quiet, threadLive,
                     debounce, threadShown>>
  BY DEF Threads!Server, Threads!memory, Threads!view
<1>2. AllExact' /\ RowBehind'
  BY <1>1 DEF AllExact, RowBehind
<1>3. /\ events' \in Seq(Notices)
      /\ phase = "down" => events' = events
      /\ phase # "down" =>
           /\ DOMAIN events' = 1..Len(events) + Len(new)
           /\ \A i \in DOMAIN events : events'[i] = events[i]
           /\ \A i \in DOMAIN new : events'[Len(events) + i] = new[i]
           /\ \A i \in DOMAIN events' : i \notin DOMAIN events => i - Len(events) \in DOMAIN new
  BY <1>1, Emission DEF ThreadsTyped
<1>4. /\ Len(events) \in Nat /\ DOMAIN events = 1..Len(events)
      /\ Len(new) \in Nat /\ DOMAIN new = 1..Len(new)
  BY LenProperties DEF ThreadsTyped
<1>5. phase = "down" => DOMAIN events' = {} /\ DOMAIN events = {}
  BY <1>3, <1>4 DEF ThreadsTyped
<1>6. \A i \in DOMAIN events' :
         \/ i \in DOMAIN events /\ events'[i] = events[i]
         \/ i - Len(events) \in DOMAIN new /\ events'[i] = new[i - Len(events)] /\ i > Len(events)
  <2>1. SUFFICES ASSUME NEW i \in DOMAIN events', i \notin DOMAIN events, phase # "down"
                 PROVE  /\ i - Len(events) \in DOMAIN new /\ i > Len(events)
                        /\ events'[i] = new[i - Len(events)]
    BY <1>3, <1>5
  <2> DEFINE k == i - Len(events)
  <2>2. k \in DOMAIN new
    BY <1>3, <2>1
  <2>3. i \in Nat /\ Len(events) + k = i /\ i > Len(events)
    BY <1>3, <1>4, <2>1, <2>2
  <2>4. QED
    BY <1>3, <2>1, <2>2, <2>3
<1>7. CountsEnded'
  <2>1. /\ \A p \in {rebuilt, mem, threadRow} : p.counted \subseteq Threads!Ended'
        /\ \A i \in DOMAIN events : events[i].type = "completed" =>
                 events[i].turn \in Threads!Ended'
    BY DEF CountsEnded
  <2>2. QED
    BY <1>1, <1>6, <2>1 DEF CountsEnded
<1> DEFINE last == Len(events) + Len(new)
<1>8. CASE phase = "down"
  <2>1. LastTells'
    BY <1>5, <1>8 DEF LastTells
  <2>2. ~threadLive /\ phase' = "down" /\ threadLive' = threadLive
    BY <1>1, <1>8 DEF UpToDate
  <2>3. UpToDate'
    BY <2>2 DEF UpToDate
  <2>4. QED
    BY <1>2, <1>7, <2>1, <2>3
<1>9. CASE phase # "down" /\ Tells(new[Len(new)]) /\ Told(new[Len(new)]) = next.state
  <2>1. last \in DOMAIN events' /\ events'[last] = new[Len(new)]
    BY <1>3, <1>4, <1>9
  <2>2. \A i \in DOMAIN events' : i # last => last > i
    <3>1. DOMAIN events' = 1..last /\ last \in Nat
      BY <1>3, <1>4, <1>9
    <3> HIDE DEF last
    <3>2. QED
      BY <3>1
  <2> HIDE DEF last
  <2>3. LastTells'
    BY <1>1, <1>9, <2>1, <2>2 DEF LastTells
  <2>4. ~Silent'
    BY <1>9, <2>1 DEF Silent
  <2>5. UpToDate'
    BY <1>1, <2>4 DEF UpToDate
  <2>6. QED
    BY <1>2, <1>7, <2>3, <2>5
<1>10. CASE phase # "down" /\ next.state = truth.state /\ \A i \in DOMAIN new : ~Tells(new[i])
  <2>1. \A i \in DOMAIN events' : Tells(events'[i]) => i \in DOMAIN events /\ events'[i] = events[i]
    BY <1>6, <1>10
  <2>2. \A i \in DOMAIN events : i \in DOMAIN events' /\ events'[i] = events[i]
    BY <1>3, <1>4, <1>10
  <2>3. LastTells'
    BY <1>1, <1>10, <2>1, <2>2 DEF LastTells
  <2>4. Silent' => Silent
    BY <2>2 DEF Silent
  <2>5. Threads!Load(mem)' = Threads!Load(mem)
    BY <1>1 DEF Threads!Load, Threads!LoadShell
  <2>6. UpToDate'
    BY <1>1, <1>10, <2>4, <2>5 DEF UpToDate
  <2>7. QED
    BY <1>2, <1>7, <2>3, <2>6
<1>11. QED
  BY <1>8, <1>9, <1>10

LEMMA ServerTyped ==
  ASSUME ThreadsTyped, NEW new \in Seq(Notices), NEW next, Threads!Server(new, next),
         next \in [turn : 0..MaxTurns, state : {"none", "inProgress", "completed", "failed"},
                  thread : {"healthy", "error"}],
         next.state # "none" => next.turn > 0,
         troubles' \in Nat
  PROVE  ThreadsTyped'
<1>1. /\ truth' = next /\ Threads!Emit(new)
      /\ UNCHANGED <<phase, fresh, aged, quiet, threadLive>>
  BY DEF Threads!Server, Threads!memory
<1>2. events' \in Seq(Notices) /\ (phase = "down" => events' = events)
  BY <1>1, Emission DEF ThreadsTyped
<1>3. QED
  BY <1>1, <1>2 DEF ThreadsTyped

\* The events of a step, as sequences.
LEMMA OneEvent ==
  ASSUME NEW e \in Notices
  PROVE  <<e>> \in Seq(Notices) /\ Len(<<e>>) = 1 /\ DOMAIN <<e>> = {1} /\ <<e>>[1] = e
OBVIOUS

LEMMA TroubleTyped ==
  ASSUME ThreadsTyped, Threads!Trouble
  PROVE  troubles' \in Nat
BY DEF ThreadsTyped, Threads!Trouble

\* A step that emits one event.
LEMMA OneEventStep ==
  ASSUME ThreadsInv, NEW e \in Notices, NEW next, Threads!Server(<<e>>, next), troubles' \in Nat,
         next \in [turn : 0..MaxTurns, state : {"none", "inProgress", "completed", "failed"},
                  thread : {"healthy", "error"}],
         next.state # "none" => next.turn > 0,
         \/ next = truth
         \/ next.turn = truth.turn /\ next.state # "inProgress"
         \/ next.turn = truth.turn /\ next.state = truth.state
         \/ next.turn = truth.turn + 1 /\ truth.state # "inProgress",
         e.type = "completed" => next.turn = e.turn /\ next.state # "inProgress",
         \/ Tells(e) /\ Told(e) = next.state
         \/ next.state = truth.state /\ ~Tells(e)
  PROVE  ThreadsInv'
<1>1. ThreadsTyped' /\ ThreadsTyped
  BY OneEvent, ServerTyped DEF ThreadsInv
<1>2. truth' = next
  BY DEF Threads!Server
<1>3. Threads!Ended \subseteq Threads!Ended'
  BY <1>1, <1>2, EndedGrows
<1>4. e.type = "completed" => e.turn \in Threads!Ended'
  <2>1. e.type = "completed" => e.turn \in Threads!Turns
    BY DEF Notices
  <2>2. QED
    BY <1>2, <2>1, MaxTurnsAssumption DEF Threads!Ended, Threads!Turns
<1> DEFINE new == <<e>>
<1>5. new \in Seq(Notices) /\ Len(new) = 1 /\ DOMAIN new = {1} /\ new[1] = e
  BY OneEvent
<1>6. Threads!Server(new, next)
  OBVIOUS
<1> HIDE DEF new
<1>7. /\ Len(new) > 0
      /\ \A i \in DOMAIN new : new[i].type = "completed" => new[i].turn \in Threads!Ended'
      /\ \/ Tells(new[Len(new)]) /\ Told(new[Len(new)]) = next.state
         \/ next.state = truth.state /\ \A i \in DOMAIN new : ~Tells(new[i])
  BY <1>4, <1>5
<1>8. QED
  BY <1>1, <1>3, <1>5, <1>6, <1>7, ServerStep

LEMMA StartTurnKeeps == ThreadsInv /\ Threads!StartTurn => ThreadsInv'
<1> SUFFICES ASSUME ThreadsInv, Threads!StartTurn PROVE ThreadsInv'
  OBVIOUS
<1> DEFINE e == Threads!Event("started", truth.turn + 1, "inProgress")
           next == [truth EXCEPT !.turn = @ + 1, !.state = "inProgress"]
<1>1. ThreadsTyped
  BY DEF ThreadsInv
<1>2. e \in Notices /\ e.type = "started" /\ e.state = "inProgress"
  BY <1>1, MaxTurnsAssumption DEF Threads!StartTurn, ThreadsTyped, Notices, Threads!Event,
     Threads!Turns
<1>3. /\ next \in [turn : 0..MaxTurns, state : {"none", "inProgress", "completed", "failed"},
                   thread : {"healthy", "error"}]
      /\ next.turn > 0 /\ next.state = "inProgress"
      /\ next.turn = truth.turn + 1 /\ truth.state # "inProgress"
  <2> DEFINE up == truth.turn + 1
  <2>1. up \in 0..MaxTurns /\ up > 0 /\ truth.state # "inProgress"
    BY <1>1, MaxTurnsAssumption DEF Threads!StartTurn, ThreadsTyped
  <2>2. next = [truth EXCEPT !.turn = up, !.state = "inProgress"]
    OBVIOUS
  <2> HIDE DEF up, next
  <2>3. /\ next \in [turn : 0..MaxTurns, state : {"none", "inProgress", "completed", "failed"},
                     thread : {"healthy", "error"}]
        /\ next.turn = up /\ next.state = "inProgress"
    BY <1>1, <2>1, <2>2 DEF ThreadsTyped
  <2>4. QED
    BY <2>1, <2>3 DEF up
<1>4. Threads!Server(<<e>>, next) /\ troubles' \in Nat
  BY <1>1 DEF Threads!StartTurn, ThreadsTyped
<1> HIDE DEF e, next
<1>5. Tells(e) /\ Told(e) = next.state
  BY <1>2, <1>3 DEF Tells, Told
<1>6. QED
  BY <1>2, <1>3, <1>4, <1>5, OneEventStep

LEMMA ProgressKeeps == ThreadsInv /\ Threads!Progress => ThreadsInv'
<1> SUFFICES ASSUME ThreadsInv, Threads!Progress PROVE ThreadsInv'
  OBVIOUS
<1> DEFINE e == Threads!Event("updated", truth.turn, "inProgress")
<1>1. ThreadsTyped
  BY DEF ThreadsInv
<1>2. e \in Notices /\ e.type = "updated" /\ e.state = "inProgress" /\ truth.state = "inProgress"
  BY <1>1, MaxTurnsAssumption DEF Threads!Progress, ThreadsTyped, Notices, Threads!Event,
     Threads!Turns
<1>3. Threads!Server(<<e>>, truth) /\ troubles' \in Nat
  BY <1>1 DEF Threads!Progress, ThreadsTyped
<1>4. /\ truth \in [turn : 0..MaxTurns, state : {"none", "inProgress", "completed", "failed"},
                   thread : {"healthy", "error"}]
      /\ truth.state # "none" => truth.turn > 0
  BY <1>1 DEF ThreadsTyped
<1> HIDE DEF e
<1>5. Tells(e) /\ Told(e) = truth.state
  BY <1>2 DEF Tells, Told
<1>6. QED
  BY <1>2, <1>3, <1>4, <1>5, OneEventStep

LEMMA HiccupKeeps == ThreadsInv /\ Threads!Hiccup => ThreadsInv'
<1> SUFFICES ASSUME ThreadsInv, Threads!Hiccup PROVE ThreadsInv'
  OBVIOUS
<1> DEFINE e == Threads!Event("error", truth.turn, "recoverable")
<1>1. ThreadsTyped
  BY DEF ThreadsInv
<1>2. e \in Notices /\ e.type = "error" /\ e.state = "recoverable"
  BY <1>1, MaxTurnsAssumption DEF Threads!Hiccup, ThreadsTyped, Notices, Threads!Event,
     Threads!Turns
<1>3. Threads!Server(<<e>>, truth) /\ troubles' \in Nat
  BY <1>1, TroubleTyped DEF Threads!Hiccup
<1>4. /\ truth \in [turn : 0..MaxTurns, state : {"none", "inProgress", "completed", "failed"},
                   thread : {"healthy", "error"}]
      /\ truth.state # "none" => truth.turn > 0
  BY <1>1 DEF ThreadsTyped
<1> HIDE DEF e
<1>5. ~Tells(e)
  BY <1>2 DEF Tells
<1>6. QED
  BY <1>2, <1>3, <1>4, <1>5, OneEventStep

LEMMA ChangeHealthKeeps == ThreadsInv /\ Threads!ChangeHealth => ThreadsInv'
<1> SUFFICES ASSUME ThreadsInv, Threads!ChangeHealth PROVE ThreadsInv'
  OBVIOUS
<1> DEFINE health == IF truth.thread = "healthy" THEN "error" ELSE "healthy"
           e == Threads!Event("thread", 0, health)
           next == [truth EXCEPT !.thread = health]
<1>1. ThreadsTyped
  BY DEF ThreadsInv
<1>2. e \in Notices /\ e.type = "thread" /\ e.state \in {"healthy", "error"}
  BY DEF Notices, Threads!Event
<1>3. /\ next \in [turn : 0..MaxTurns, state : {"none", "inProgress", "completed", "failed"},
                   thread : {"healthy", "error"}]
      /\ next.turn = truth.turn /\ next.state = truth.state
      /\ next.state # "none" => next.turn > 0
  BY <1>1 DEF ThreadsTyped
<1>4. Threads!Server(<<e>>, next) /\ troubles' \in Nat
  BY <1>1, TroubleTyped DEF Threads!ChangeHealth
<1> HIDE DEF e, next
<1>5. ~Tells(e)
  BY <1>2 DEF Tells
<1>6. QED
  BY <1>2, <1>3, <1>4, <1>5, OneEventStep

LEMMA ReplayKeeps == ThreadsInv /\ Threads!Replay => ThreadsInv'
<1> SUFFICES ASSUME ThreadsInv, Threads!Replay PROVE ThreadsInv'
  OBVIOUS
<1> DEFINE e == Threads!Event("completed", truth.turn, truth.state)
<1>1. ThreadsTyped
  BY DEF ThreadsInv
<1>2. /\ e \in Notices /\ e.type = "completed" /\ e.state = truth.state /\ e.turn = truth.turn
      /\ truth.state # "inProgress"
  BY <1>1, MaxTurnsAssumption DEF Threads!Replay, ThreadsTyped, Notices, Threads!Event,
     Threads!Turns
<1>3. Threads!Server(<<e>>, truth) /\ troubles' \in Nat
  BY <1>1, TroubleTyped DEF Threads!Replay
<1>4. /\ truth \in [turn : 0..MaxTurns, state : {"none", "inProgress", "completed", "failed"},
                   thread : {"healthy", "error"}]
      /\ truth.state # "none" => truth.turn > 0
  BY <1>1 DEF ThreadsTyped
<1> HIDE DEF e
<1>5. Tells(e) /\ Told(e) = truth.state
  BY <1>2 DEF Tells, Told
<1>6. QED
  BY <1>2, <1>3, <1>4, <1>5, OneEventStep

LEMMA CompleteTurnKeeps == ThreadsInv /\ Threads!CompleteTurn => ThreadsInv'
<1> SUFFICES ASSUME ThreadsInv, Threads!CompleteTurn PROVE ThreadsInv'
  OBVIOUS
<1> DEFINE done == Threads!Event("completed", truth.turn, "completed")
           fatal == Threads!Event("error", truth.turn, "fatal")
           failed == Threads!Event("completed", truth.turn, "failed")
           next(s) == [truth EXCEPT !.state = s]
<1>1. ThreadsTyped
  BY DEF ThreadsInv
<1>2. /\ {done, fatal, failed} \subseteq Notices
      /\ done.type = "completed" /\ done.state = "completed" /\ done.turn = truth.turn
      /\ failed.type = "completed" /\ failed.state = "failed" /\ failed.turn = truth.turn
      /\ fatal.type = "error" /\ fatal.state = "fatal"
  BY <1>1, MaxTurnsAssumption
     DEF Threads!CompleteTurn, ThreadsTyped, Notices, Threads!Event, Threads!Turns
<1>3. \A s \in {"completed", "failed"} :
        /\ next(s) \in [turn : 0..MaxTurns, state : {"none", "inProgress", "completed", "failed"},
                       thread : {"healthy", "error"}]
        /\ next(s).turn = truth.turn /\ next(s).state = s /\ next(s).turn > 0
  BY <1>1, MaxTurnsAssumption DEF Threads!CompleteTurn, ThreadsTyped
<1>4. CASE Threads!Server(<<done>>, next("completed")) /\ UNCHANGED troubles
  <2> DEFINE after == next("completed")
  <2>1. /\ after \in [turn : 0..MaxTurns, state : {"none", "inProgress", "completed", "failed"},
                       thread : {"healthy", "error"}]
        /\ after.turn = truth.turn /\ after.state = "completed" /\ after.turn > 0
    BY <1>3
  <2>2. Threads!Server(<<done>>, after) /\ troubles' \in Nat
    BY <1>1, <1>4 DEF ThreadsTyped
  <2> HIDE DEF done, after, next
  <2>3. Tells(done) /\ Told(done) = after.state
    BY <1>2, <2>1 DEF Tells, Told
  <2>4. QED
    BY <1>2, <2>1, <2>2, <2>3, OneEventStep
<1>5. CASE Threads!Trouble /\ Threads!Server(<<fatal, failed>>, next("failed"))
  <2> DEFINE after == next("failed")
             new == <<fatal, failed>>
  <2>1. /\ after \in [turn : 0..MaxTurns, state : {"none", "inProgress", "completed", "failed"},
                       thread : {"healthy", "error"}]
        /\ after.turn = truth.turn /\ after.state = "failed" /\ after.turn > 0
    BY <1>3
  <2>2. Threads!Server(new, after) /\ troubles' \in Nat
    BY <1>1, <1>5, TroubleTyped
  <2> HIDE DEF done, fatal, failed, after, next
  <2>3. /\ new \in Seq(Notices) /\ Len(new) = 2 /\ DOMAIN new = {1, 2}
        /\ new[1] = fatal /\ new[2] = failed
    BY <1>2
  <2> HIDE DEF new
  <2>4. ThreadsTyped'
    BY <1>1, <2>1, <2>2, <2>3, ServerTyped
  <2>5. truth' = after
    BY <2>2 DEF Threads!Server
  <2>6. Threads!Ended \subseteq Threads!Ended'
    BY <1>1, <2>1, <2>4, <2>5, EndedGrows
  <2>7. \A i \in DOMAIN new : new[i].type = "completed" => new[i].turn \in Threads!Ended'
    <3>1. after.turn \in Threads!Turns
      BY <2>1, MaxTurnsAssumption DEF Threads!Turns
    <3>2. after.turn \in Threads!Ended'
      BY <2>1, <2>5, <3>1, MaxTurnsAssumption DEF Threads!Ended, Threads!Turns
    <3>3. QED
      BY <1>2, <2>1, <2>3, <3>2
  <2>8. Tells(new[Len(new)]) /\ Told(new[Len(new)]) = after.state
    BY <1>2, <2>1, <2>3 DEF Tells, Told
  <2>9. QED
    BY <2>2, <2>3, <2>4, <2>6, <2>7, <2>8, ServerStep, SMTT(30)
<1>6. QED
  BY <1>4, <1>5 DEF Threads!CompleteTurn

\* The start of the bridge.
LEMMA SilentRebuilt ==
  ASSUME ThreadsTyped
  PROVE  /\ Exact(Threads!FromRead) /\ Threads!FromRead.counted = Threads!Ended
         /\ Threads!FromRead.status = truth.state /\ Threads!FromRead # Threads!Absent
<1>1. Threads!Ended \in SUBSET Threads!Turns /\ Cardinality(Threads!Ended) \in Nat
  BY FiniteTurns DEF Threads!Ended
<1>2. /\ Threads!FromRead \in Projections /\ Threads!FromRead.counted = Threads!Ended
      /\ Threads!FromRead.total = Cardinality(Threads!Ended)
      /\ Threads!FromRead.status = truth.state
  <2>1. /\ truth.state \in {"none", "inProgress", "completed", "failed"}
        /\ truth.thread \in {"healthy", "error"}
    BY DEF ThreadsTyped
  <2>2. QED
    BY <1>1, <2>1, SameCardinality DEF Threads!FromRead, Projections
<1>3. Threads!FromRead.status # "absent" /\ Threads!Absent.status = "absent"
  BY <1>2 DEF ThreadsTyped, Threads!Absent, Threads!Shell
<1>4. QED
  BY <1>2, <1>3 DEF Exact

LEMMA AgeTyped ==
  ASSUME NEW p, Threads!Age(p)
  PROVE  aged' \in BOOLEAN /\ quiet' \in BOOLEAN
BY DEF Threads!Age, Threads!Over

LEMMA BootKeeps == ThreadsInv /\ Threads!Boot => ThreadsInv'
<1> SUFFICES ASSUME ThreadsInv, Threads!Boot PROVE ThreadsInv'
  OBVIOUS
<1> USE DEF ThreadsInv
<1>1. /\ phase = "down" /\ phase' = "read" /\ events' = <<>> /\ mem' = threadRow
      /\ threadShown' = Threads!ShownAtBoot /\ fresh' = FALSE
      /\ UNCHANGED <<truth, rebuilt, threadRow, threadLive, debounce, troubles>>
      /\ aged' \in BOOLEAN /\ quiet' \in BOOLEAN
  BY AgeTyped DEF Threads!Boot
<1>2. events' \in Seq(Notices) /\ DOMAIN events' = {}
  BY <1>1
<1>3. ThreadsTyped'
  BY <1>1, <1>2 DEF ThreadsTyped
<1>4. AllExact'
  BY <1>1 DEF AllExact, Threads!ShownAtBoot
<1>5. CountsEnded' /\ RowBehind' /\ LastTells'
  BY <1>1, <1>2 DEF CountsEnded, RowBehind, LastTells, Threads!Ended
<1>6. UpToDate'
  BY <1>1 DEF UpToDate
<1>7. QED
  BY <1>3, <1>4, <1>5, <1>6

LEMMA ReadKeeps == ThreadsInv /\ Threads!Read => ThreadsInv'
<1> SUFFICES ASSUME ThreadsInv, Threads!Read PROVE ThreadsInv'
  OBVIOUS
<1> USE DEF ThreadsInv
<1>1. /\ phase = "read" /\ phase' = "install" /\ rebuilt' = Threads!FromRead
      /\ UNCHANGED <<truth, events, mem, threadRow, fresh, aged, quiet, threadLive,
                     debounce, threadShown, troubles>>
  BY DEF Threads!Read, Threads!memory, Threads!view
<1>2. /\ Exact(rebuilt') /\ rebuilt'.counted = Threads!Ended /\ rebuilt'.status = truth.state
      /\ rebuilt' # Threads!Absent
  BY <1>1, SilentRebuilt
<1>3. ThreadsTyped'
  BY <1>1 DEF ThreadsTyped
<1>4. AllExact'
  BY <1>1, <1>2 DEF AllExact
<1>5. CountsEnded' /\ RowBehind' /\ LastTells'
  BY <1>1, <1>2 DEF CountsEnded, RowBehind, LastTells, Threads!Ended
<1>6. UpToDate'
  BY <1>1, <1>2 DEF UpToDate
<1>7. QED
  BY <1>3, <1>4, <1>5, <1>6

LEMMA ReadFailsKeeps == ThreadsInv /\ Threads!ReadFails => ThreadsInv'
<1> SUFFICES ASSUME ThreadsInv, Threads!ReadFails PROVE ThreadsInv'
  OBVIOUS
<1> USE DEF ThreadsInv
<1>1. /\ phase = "read" /\ phase' = "run"
      /\ UNCHANGED <<truth, events, rebuilt, mem, threadRow, fresh, aged, quiet, threadLive,
                     debounce, threadShown>>
      /\ troubles' \in Nat
  BY TroubleTyped DEF Threads!ReadFails, Threads!memory, Threads!view
<1>2. ThreadsTyped' /\ AllExact'
  BY <1>1 DEF ThreadsTyped, AllExact
<1>3. CountsEnded' /\ RowBehind' /\ LastTells'
  BY <1>1 DEF CountsEnded, RowBehind, LastTells, Threads!Ended
<1>4. UpToDate'
  BY <1>1 DEF UpToDate
<1>5. QED
  BY <1>2, <1>3, <1>4

LEMMA InstallKeeps == ThreadsInv /\ Threads!Install => ThreadsInv'
<1> SUFFICES ASSUME ThreadsInv, Threads!Install PROVE ThreadsInv'
  OBVIOUS
<1> USE DEF ThreadsInv
<1>1. /\ phase = "install" /\ phase' = "run" /\ mem' = rebuilt /\ threadRow' = rebuilt
      /\ threadShown' = rebuilt /\ rebuilt' = Threads!Absent /\ threadLive' = TRUE
      /\ UNCHANGED <<truth, events, fresh, debounce, troubles>>
      /\ aged' \in BOOLEAN /\ quiet' \in BOOLEAN
  BY AgeTyped DEF Threads!Install, Threads!InstallBoth, Threads!InstallRow
<1>2. ThreadsTyped' /\ AllExact'
  BY <1>1, ExactStart DEF ThreadsTyped, AllExact
<1>3. CountsEnded' /\ RowBehind' /\ LastTells'
  <2>1. Threads!Absent.counted = {} /\ Threads!Ended' = Threads!Ended
    BY <1>1 DEF Threads!Absent, Threads!Shell, Threads!Ended
  <2>2. QED
    BY <1>1, <2>1 DEF CountsEnded, RowBehind, LastTells
<1>4. UpToDate'
  <2>1. rebuilt # Threads!Absent /\ (Silent => rebuilt.status = truth.state)
    BY <1>1 DEF UpToDate
  <2>2. Threads!Load(mem)' = rebuilt
    BY <1>1, <2>1 DEF Threads!Load, Threads!LoadShell
  <2>3. QED
    BY <1>1, <2>1, <2>2 DEF UpToDate, Silent
<1>5. QED
  BY <1>2, <1>3, <1>4

LEMMA ThreadRestartKeeps == ThreadsInv /\ Threads!Restart => ThreadsInv'
<1> SUFFICES ASSUME ThreadsInv, Threads!Restart PROVE ThreadsInv'
  OBVIOUS
<1> USE DEF ThreadsInv
<1>1. /\ phase' = "down" /\ events' = <<>> /\ mem' = Threads!Absent /\ rebuilt' = Threads!Absent
      /\ debounce' = Threads!Absent /\ threadLive' = FALSE /\ fresh' = FALSE
      /\ UNCHANGED <<truth, threadRow, aged, quiet, threadShown>>
      /\ troubles' \in Nat
  BY TroubleTyped DEF Threads!Restart
<1>2. events' \in Seq(Notices) /\ DOMAIN events' = {}
  BY <1>1
<1>3. ThreadsTyped' /\ AllExact'
  BY <1>1, <1>2, ExactStart DEF ThreadsTyped, AllExact
<1>4. CountsEnded' /\ RowBehind' /\ LastTells'
  <2>1. Threads!Absent.counted = {} /\ Threads!Ended' = Threads!Ended
    BY <1>1 DEF Threads!Absent, Threads!Shell, Threads!Ended
  <2>2. QED
    BY <1>1, <1>2, <2>1 DEF CountsEnded, RowBehind, LastTells
<1>5. UpToDate'
  BY <1>1 DEF UpToDate
<1>6. QED
  BY <1>3, <1>4, <1>5

\* Steps that leave the projections and the events alone.
LEMMA QuietKeeps ==
  ASSUME ThreadsInv, UNCHANGED <<truth, events, phase, rebuilt, mem, threadRow, threadLive,
           troubles>>,
         fresh' \in BOOLEAN, aged' \in BOOLEAN, quiet' \in BOOLEAN,
         Exact(debounce'), Exact(threadShown')
  PROVE  ThreadsInv'
<1> USE DEF ThreadsInv
<1>1. ThreadsTyped' /\ AllExact'
  BY DEF ThreadsTyped, AllExact
<1>2. CountsEnded' /\ RowBehind' /\ LastTells'
  BY DEF CountsEnded, RowBehind, LastTells, Threads!Ended
<1>3. UpToDate'
  BY DEF UpToDate, Silent, Threads!Load, Threads!LoadShell
<1>4. QED
  BY <1>1, <1>2, <1>3

LEMMA TimeAndViewKeep ==
  ThreadsInv /\ (\/ Threads!IntervalEnds \/ Threads!HourPasses \/ Threads!Wake
                 \/ Threads!Heartbeat) => ThreadsInv'
<1> SUFFICES ASSUME ThreadsInv, \/ Threads!IntervalEnds \/ Threads!HourPasses \/ Threads!Wake
                                 \/ Threads!Heartbeat
             PROVE  ThreadsInv'
  OBVIOUS
<1>1. UNCHANGED <<truth, events, phase, rebuilt, mem, threadRow, threadLive, troubles>>
  BY DEF Threads!IntervalEnds, Threads!HourPasses, Threads!Wake, Threads!Heartbeat, Threads!view,
         Threads!memory
<1>2. fresh' \in BOOLEAN /\ aged' \in BOOLEAN /\ quiet' \in BOOLEAN
  <2>1. fresh \in BOOLEAN /\ aged \in BOOLEAN /\ quiet \in BOOLEAN /\ Threads!Over(mem) \in BOOLEAN
    BY DEF ThreadsInv, ThreadsTyped, Threads!Over
  <2>2. CASE Threads!IntervalEnds
    BY <2>1, <2>2, Zenon DEF Threads!IntervalEnds
  <2>3. CASE Threads!HourPasses
    BY <2>1, <2>3, Zenon DEF Threads!HourPasses
  <2>4. CASE Threads!Wake
    BY <2>1, <2>4, Zenon DEF Threads!Wake, Threads!memory
  <2>5. CASE Threads!Heartbeat
    BY <2>1, <2>5, Zenon DEF Threads!Heartbeat, Threads!memory
  <2>6. QED
    BY <2>2, <2>3, <2>4, <2>5
<1>3. Exact(debounce') /\ Exact(threadShown')
  BY Zenon, ExactStart DEF Threads!IntervalEnds, Threads!HourPasses, Threads!Wake,
     Threads!Heartbeat,
         Threads!view, ThreadsInv, AllExact
<1>4. QED
  BY <1>1, <1>2, <1>3, QuietKeeps

LEMMA EvictKeeps == ThreadsInv /\ Threads!Evict => ThreadsInv'
<1> SUFFICES ASSUME ThreadsInv, Threads!Evict PROVE ThreadsInv'
  OBVIOUS
<1> USE DEF ThreadsInv
<1>1. /\ mem' = Threads!Absent /\ mem # Threads!Absent /\ mem.status # "inProgress"
      /\ UNCHANGED <<truth, events, phase, rebuilt, threadRow, fresh, aged, quiet, threadLive,
                     debounce, threadShown, troubles>>
      /\ phase = "run"
  BY DEF Threads!Evict, Threads!Evictable, Threads!view
<1>2. ThreadsTyped' /\ AllExact'
  BY <1>1, ExactStart DEF ThreadsTyped, AllExact
<1>3. CountsEnded' /\ RowBehind' /\ LastTells'
  <2>1. Threads!Absent.counted = {} /\ Threads!Ended' = Threads!Ended
    BY <1>1 DEF Threads!Absent, Threads!Shell, Threads!Ended
  <2>2. QED
    BY <1>1, <2>1 DEF CountsEnded, RowBehind, LastTells
<1>4. UpToDate'
  <2>1. threadLive => /\ Threads!Load(mem)' = threadRow /\ Threads!Load(mem) = mem
                      /\ threadRow.status = mem.status
    BY <1>1 DEF UpToDate, Threads!Load, Threads!LoadShell
  <2>2. QED
    BY <1>1, <2>1 DEF UpToDate, Silent
<1>5. QED
  BY <1>2, <1>3, <1>4

\* The next event is applied, and the row is written or not.
LEMMA HandleKeeps == ThreadsInv /\ Threads!Handle => ThreadsInv'
<1> SUFFICES ASSUME ThreadsInv, Threads!Handle PROVE ThreadsInv'
  OBVIOUS
<1> USE DEF ThreadsInv
<1> DEFINE e == Head(events)
           old == Threads!Load(mem)
           p == Threads!Applied(old, e)
<1>1. /\ phase = "run" /\ events # <<>> /\ events' = Tail(events) /\ mem' = p
      /\ Threads!Persist(e, p) /\ Threads!Aging(e) /\ Threads!Display(e, p)
      /\ UNCHANGED <<truth, phase, rebuilt>>
  BY DEF Threads!Handle
<1>2. /\ events \in Seq(Notices) /\ e \in Notices /\ e = events[1]
      /\ events' \in Seq(Notices) /\ 1 \in DOMAIN events
      /\ \A i \in DOMAIN events' : i + 1 \in DOMAIN events /\ events'[i] = events[i + 1] /\
               i \in Nat
      /\ \A i \in DOMAIN events : i \in Nat /\ i >= 1 /\ (i # 1 => i - 1 \in DOMAIN events')
  <2>1. events \in Seq(Notices) /\ events # <<>>
    BY <1>1 DEF ThreadsTyped
  <2>2. /\ Head(events) \in Notices /\ Tail(events) \in Seq(Notices) /\ Head(events) = events[1]
        /\ Len(events) \in Nat /\ Len(events) > 0 /\ DOMAIN events = 1..Len(events)
        /\ DOMAIN Tail(events) = 1..Len(events) - 1
        /\ \A i \in 1..Len(events) - 1 : Tail(events)[i] = events[i + 1]
    BY <2>1
  <2>3. QED
    BY <1>1, <2>1, <2>2
<1>3. /\ Exact(old) /\ old.status # "absent" /\ old.counted \subseteq Threads!Ended
      /\ threadRow.counted \subseteq old.counted
  BY LoadedProjection
<1> HIDE DEF e, old, p
<1>4. /\ Exact(p) /\ p.status # "absent" /\ old.counted \subseteq p.counted
      /\ p.counted \subseteq old.counted \cup (IF e.type = "completed" THEN {e.turn} ELSE {})
      /\ p.status = IF Tells(e) THEN Told(e) ELSE old.status
  BY <1>2, <1>3, AppliedProjection DEF p
<1>5. p # Threads!Absent /\ Threads!Ended' = Threads!Ended
  BY <1>1, <1>4 DEF Threads!Absent, Threads!Shell, Threads!Ended
<1>6. p.counted \subseteq Threads!Ended /\ threadRow.counted \subseteq p.counted
  <2>1. e.type = "completed" => e.turn \in Threads!Ended
    BY <1>2 DEF CountsEnded
  <2>2. QED
    BY <1>3, <1>4, <2>1
<1>7. /\ threadRow' = p \/ threadRow' = threadRow
      /\ threadLive' = threadLive \/ ~threadLive'
      /\ threadLive' => threadLive
      /\ threadRow' = p \/ ~Threads!Terminal(e) \/ ~threadLive'
      /\ fresh' \in BOOLEAN /\ troubles' \in Nat
  <2>1. fresh \in BOOLEAN /\ troubles \in Nat
    BY DEF ThreadsTyped
  <2>2. Threads!Trouble => troubles' \in Nat
    BY <2>1 DEF Threads!Trouble
  <2>3. fresh' \in BOOLEAN /\ troubles' \in Nat
    <3>1. fresh' = TRUE \/ fresh' = fresh
      BY <1>1, Zenon DEF Threads!Persist
    <3>2. troubles' = troubles \/ Threads!Trouble
      BY <1>1, Zenon DEF Threads!Persist
    <3>3. QED
      BY <2>1, <2>2, <3>1, <3>2
  <2>4. /\ threadRow' = p \/ threadRow' = threadRow
        /\ threadLive' = threadLive \/ ~threadLive'
        /\ threadLive' => threadLive
        /\ threadRow' = p \/ ~Threads!Terminal(e) \/ ~threadLive'
    <3>1. \/ threadRow' = p /\ threadLive' = threadLive
          \/ threadRow' = threadRow /\ threadLive' = threadLive /\ ~Threads!Terminal(e)
          \/ threadRow' = threadRow /\ threadLive' = (threadLive /\ ~Threads!Terminal(e))
      BY <1>1, Zenon DEF Threads!Persist
    <3> DEFINE done == Threads!Terminal(e)
    <3>2. threadLive \in BOOLEAN /\ done \in BOOLEAN
      BY DEF ThreadsTyped, Threads!Terminal
    <3> HIDE DEF done
    <3>3. CASE threadRow' = p /\ threadLive' = threadLive
      BY <3>3
    <3>4. CASE threadRow' = threadRow /\ threadLive' = threadLive /\ ~Threads!Terminal(e)
      BY <3>4
    <3>5. CASE threadRow' = threadRow /\ threadLive' = (threadLive /\ ~done)
      BY <3>2, <3>5 DEF done
    <3>6. QED
      BY <3>1, <3>3, <3>4, <3>5 DEF done
  <2>5. QED
    BY <2>3, <2>4
<1>8. aged' \in BOOLEAN /\ quiet' \in BOOLEAN
  BY <1>1 DEF Threads!Aging, ThreadsTyped
<1>9. threadLive' \in BOOLEAN
  <2>1. threadLive \in BOOLEAN
    BY DEF ThreadsTyped
  <2>2. QED
    BY <1>1, <2>1 DEF Threads!Persist
<1>10. ThreadsTyped'
  BY <1>1, <1>2, <1>7, <1>8, <1>9 DEF ThreadsTyped
<1>11. AllExact'
  BY <1>1, <1>4, <1>7, ExactStart DEF AllExact, Threads!Display
<1>12. CountsEnded'
  BY <1>1, <1>2, <1>5, <1>6, <1>7 DEF CountsEnded
<1>13. RowBehind'
  BY <1>1, <1>6, <1>7 DEF RowBehind
<1>14. LastTells'
  <2>1. SUFFICES ASSUME NEW i \in DOMAIN events', Tells(events'[i]),
                        \A j \in DOMAIN events' : j > i => ~Tells(events'[j])
                 PROVE  Told(events'[i]) = truth.state
    BY <1>1 DEF LastTells
  <2>2. i + 1 \in DOMAIN events /\ events[i + 1] = events'[i] /\ i \in Nat
    BY <1>2
  <2>3. ASSUME NEW j \in DOMAIN events, j > i + 1
        PROVE  ~Tells(events[j])
    <3> DEFINE k == j - 1
    <3>1. k \in DOMAIN events' /\ k > i /\ j = k + 1
      BY <1>2, <2>2, <2>3
    <3>2. events[j] = events'[k]
      BY <1>2, <3>1
    <3>3. QED
      BY <2>1, <3>1, <3>2
  <2>4. QED
    BY <2>1, <2>2, <2>3 DEF LastTells
<1>15. Silent' => p.status = truth.state \/ (~Tells(e) /\ Silent)
  <2>1. SUFFICES ASSUME Silent' PROVE p.status = truth.state \/ (~Tells(e) /\ Silent)
    OBVIOUS
  <2>2. \A i \in DOMAIN events : i # 1 => ~Tells(events[i])
    <3>1. SUFFICES ASSUME NEW i \in DOMAIN events, i # 1 PROVE ~Tells(events[i])
      OBVIOUS
    <3> DEFINE k == i - 1
    <3>2. k \in DOMAIN events' /\ i = k + 1
      BY <1>2, <3>1
    <3>3. events[i] = events'[k]
      BY <1>2, <3>2
    <3>4. QED
      BY <2>1, <3>2, <3>3 DEF Silent
  <2>3. CASE Tells(e)
    <3>1. Told(e) = truth.state
      <4>1. \A j \in DOMAIN events : j > 1 => ~Tells(events[j])
        BY <1>2, <2>2
      <4>2. QED
        BY <1>2, <2>3, <4>1 DEF LastTells
    <3>2. QED
      BY <1>4, <2>3, <3>1
  <2>4. CASE ~Tells(e)
    BY <1>2, <2>2, <2>4 DEF Silent
  <2>5. QED
    BY <2>3, <2>4
<1>16. UpToDate'
  <2>1. phase' = "run" /\ mem' # Threads!Absent
    BY <1>1, <1>5
  <2>2. SUFFICES ASSUME threadLive'
                 PROVE  /\ threadRow' # Threads!Absent
                        /\ p.status # "inProgress" => threadRow'.status = p.status
                        /\ Silent' => p.status = truth.state
    <3>1. Threads!Load(mem)' = p
      BY <1>1, <1>5 DEF Threads!Load, Threads!LoadShell
    <3>2. QED
      BY <1>1, <2>1, <3>1 DEF UpToDate
  <2>3. threadLive /\ threadRow # Threads!Absent /\ (Silent => old.status = truth.state)
    BY <1>7, <2>2 DEF UpToDate, old
  <2>4. Silent' => p.status = truth.state
    BY <1>4, <1>15, <2>3
  <2>5. p.status # "inProgress" => threadRow'.status = p.status
    <3>1. SUFFICES ASSUME p.status # "inProgress", threadRow' = threadRow, ~Threads!Terminal(e)
                   PROVE  threadRow.status = p.status
      BY <1>7, <2>2
    <3>2. ~Tells(e)
      <4>1. e.type \notin {"started", "updated"}
        BY <1>2, <1>4, <3>1 DEF Notices, Tells, Told
      <4>2. QED
        BY <3>1, <4>1 DEF Tells, Threads!Terminal
    <3>3. p.status = old.status
      BY <1>4, <3>2
    <3>4. CASE mem # Threads!Absent
      <4>1. old = mem
        BY <3>4 DEF old, Threads!Load, Threads!LoadShell
      <4>2. QED
        BY <2>3, <3>1, <3>3, <3>4, <4>1 DEF UpToDate
    <3>5. CASE mem = Threads!Absent
      <4>1. old = threadRow
        BY <2>3, <3>5 DEF old, Threads!Load
      <4>2. QED
        BY <3>3, <4>1
    <3>6. QED
      BY <3>4, <3>5
  <2>6. QED
    BY <1>5, <1>7, <2>3, <2>4, <2>5
<1>17. QED
  BY <1>10, <1>11, <1>12, <1>13, <1>14, <1>16

LEMMA ThreadStutter == ThreadsInv /\ UNCHANGED threadVars => ThreadsInv'
BY DEF threadVars, ThreadsInv, ThreadsTyped, AllExact, CountsEnded, RowBehind, LastTells, UpToDate,
       Silent, Threads!Ended, Threads!Load, Threads!LoadShell

LEMMA ThreadStart == Threads!Init => ThreadsInv
<1> SUFFICES ASSUME Threads!Init PROVE ThreadsInv
  OBVIOUS
<1>1. /\ events = <<>> /\ rebuilt = Threads!Absent /\ mem = Threads!Absent
      /\ threadRow = Threads!Absent /\ debounce = Threads!Absent
      /\ threadShown = Threads!Absent /\ phase = "down" /\ threadLive = FALSE
  BY DEF Threads!Init
<1>2. events \in Seq(Notices) /\ DOMAIN events = {} /\ Threads!Absent.counted = {}
  BY <1>1 DEF Threads!Absent, Threads!Shell
<1>3. ThreadsTyped
  <2>1. truth \in [turn : 0..MaxTurns, state : {"none", "inProgress", "completed", "failed"},
                  thread : {"healthy", "error"}]
    BY MaxTurnsAssumption DEF Threads!Init
  <2>2. truth.state = "none" /\ fresh = FALSE /\ aged = FALSE /\ quiet = FALSE /\ threadLive = FALSE
    BY DEF Threads!Init
  <2>3. troubles = 0
    BY DEF Threads!Init
  <2>4. QED
    BY <1>1, <1>2, <2>1, <2>2, <2>3 DEF ThreadsTyped
<1>4. AllExact /\ CountsEnded /\ RowBehind /\ LastTells /\ UpToDate
  BY <1>1, <1>2, ExactStart DEF AllExact, CountsEnded, RowBehind, LastTells, UpToDate
<1>5. QED
  BY <1>3, <1>4 DEF ThreadsInv

LEMMA ThreadsNext == ThreadsInv /\ [Threads!Next]_threadVars => ThreadsInv'
<1>1. ThreadsInv /\ Threads!Next => ThreadsInv'
  BY StartTurnKeeps, ProgressKeeps, CompleteTurnKeeps, HiccupKeeps, ChangeHealthKeeps, ReplayKeeps,
     BootKeeps, ReadKeeps, ReadFailsKeeps, InstallKeeps, ThreadRestartKeeps, HandleKeeps,
              EvictKeeps,
     TimeAndViewKeep
  DEF Threads!Next
<1>2. QED
  BY <1>1, ThreadStutter

LEMMA ThreadParts ==
  ASSUME [ChatNext]_allVars PROVE [Threads!Next]_threadVars
BY DEF ChatNext, allVars

LEMMA ThreadsInvariant == ChatSpec => []ThreadsInv
<1>1. ChatInit => ThreadsInv
  BY ThreadStart DEF ChatInit
<1>2. ThreadsInv /\ [ChatNext]_allVars => ThreadsInv'
  BY ThreadParts, ThreadsNext
<1>3. QED
  BY <1>1, <1>2, PTL DEF ChatSpec

\* The token totals count each turn that ended once, and when the events are drained
\* the projection in memory says what the app-server says of the turn, however often
\* the connection drops and the projection is evicted, rebuilt or replaced by its row
\* (hydrate_thread_projections, EventProjector::apply).
THEOREM ProjectionsAlwaysAgree == ChatSpec => []ProjectionAgrees
<1>1. ThreadsInv => ProjectionAgrees
  <2>1. SUFFICES ASSUME ThreadsInv PROVE Threads!CountedOnce /\ Threads!Agrees
    BY DEF ProjectionAgrees
  <2>2. Threads!CountedOnce
    BY <2>1, SameCardinality DEF ThreadsInv, AllExact, Exact, Threads!CountedOnce
  <2>3. ASSUME threadLive, events = <<>>, mem # Threads!Absent PROVE mem.status = truth.state
    <3>1. Silent
      BY <2>3 DEF Silent
    <3>2. Threads!Load(mem) = mem
      BY <2>3 DEF Threads!Load, Threads!LoadShell
    <3>3. QED
      BY <2>1, <2>3, <3>1, <3>2 DEF ThreadsInv, UpToDate
  <2>4. QED
    BY <2>2, <2>3 DEF Threads!Agrees
<1>2. QED
  BY <1>1, ThreadsInvariant, PTL

\* A turn the row counts stays counted.
LEMMA TotalsKept == ThreadsInv /\ [Threads!Next]_threadVars => Threads!KeepsTotals
<1> SUFFICES ASSUME ThreadsInv, [Threads!Next]_threadVars PROVE Threads!KeepsTotals
  OBVIOUS
<1>1. threadRow' = threadRow \/ Threads!Install \/ Threads!Handle
  BY Zenon DEF threadVars, Threads!Next, Threads!StartTurn, Threads!Progress, Threads!CompleteTurn,
     Threads!Hiccup, Threads!ChangeHealth, Threads!Replay, Threads!Server, Threads!Boot,
              Threads!Read,
     Threads!ReadFails, Threads!Restart, Threads!IntervalEnds, Threads!HourPasses, Threads!Evict,
     Threads!Wake, Threads!Heartbeat, Threads!memory
<1>2. CASE threadRow' = threadRow
  BY <1>2 DEF Threads!KeepsTotals
<1>3. CASE Threads!Install
  <2>1. threadRow' = rebuilt /\ phase = "install"
    BY <1>3 DEF Threads!Install, Threads!InstallBoth, Threads!InstallRow
  <2>2. QED
    BY <2>1 DEF ThreadsInv, RowBehind, Threads!KeepsTotals
<1>4. CASE Threads!Handle /\ threadRow' # threadRow
  <2>1. threadRow' = mem' /\ phase' = "run"
    BY <1>4, Zenon DEF Threads!Handle, Threads!Persist
  <2>3. /\ threadRow.counted \subseteq Threads!Load(mem).counted
        /\ Exact(Threads!Load(mem)) /\ Threads!Load(mem).status # "absent"
    BY LoadedProjection DEF ThreadsInv
  <2>4. Head(events) \in Notices
    BY <1>4 DEF ThreadsInv, ThreadsTyped, Threads!Handle
  <2>5. mem' = Threads!Applied(Threads!Load(mem), Head(events))
    BY <1>4 DEF Threads!Handle
  <2>6. QED
    BY <2>1, <2>3, <2>4, <2>5, AppliedProjection DEF Threads!KeepsTotals
<1>5. QED
  BY <1>1, <1>2, <1>3, <1>4

------------------------------------------------------------------------------
(* Recursion over the items of a history.  The least element of a set takes    *)
(* the place of induction, whose theorem has an operator for a parameter.      *)

\* What rebuilding a projection has made of the first n items.
LEMMA ReplayUnfolds ==
  ASSUME Len(history) \in Nat
  PROVE  Items!Replayed = [n \in 0..Len(history) |->
           IF n = 0 THEN Items!Default
           ELSE Items!WithItem(Items!Replayed[n - 1], n, history[n], TRUE, clock)]
<1> DEFINE Step(g, n) == IF n = 0 THEN Items!Default
                         ELSE Items!WithItem(g[n - 1], n, history[n], TRUE, clock)
           Bad == {k \in 0..Len(history) : ~ \E g : g = [n \in 0..k |-> Step(g, n)]}
<1>1. /\ \A g : Step(g, 0) = Items!Default
      /\ \A g, e, n : g[n - 1] = e[n - 1] => Step(g, n) = Step(e, n)
  OBVIOUS
<1> HIDE DEF Step
<1>2. ASSUME Bad # {} PROVE FALSE
  <2>1. PICK k \in Bad : \A j \in Bad : k <= j
    <3>1. Bad \subseteq Nat
      OBVIOUS
    <3>2. QED
      BY <1>2, <3>1, LeastElement
  <2>2. k # 0
    <3> DEFINE g == [n \in 0..0 |-> Items!Default]
    <3>1. g = [n \in 0..0 |-> Step(g, n)]
      BY <1>1, \A n \in 0..0 : n = 0
    <3>2. QED
      BY <3>1
  <2>3. k - 1 \in 0..Len(history) /\ k - 1 \notin Bad
    BY <2>1, <2>2
  <2>4. PICK g : g = [n \in 0..k-1 |-> Step(g, n)]
    BY <2>3
  <2> DEFINE e == [n \in 0..k |-> IF n = k THEN Step(g, k) ELSE g[n]]
  <2>5. \A n \in 0..k : e[n] = Step(e, n)
    <3> SUFFICES ASSUME NEW n \in 0..k PROVE e[n] = Step(e, n)
      OBVIOUS
    <3>1. n # 0 => n - 1 \in 0..k-1 /\ e[n - 1] = g[n - 1]
      BY <2>1, <2>2
    <3>2. Step(e, n) = Step(g, n)
      BY <1>1, <3>1
    <3>3. CASE n = k
      BY <3>2, <3>3
    <3>4. CASE n # k
      <4>1. n \in 0..k-1
        BY <3>4, <2>1
      <4>2. g[n] = Step(g, n)
        BY <4>1, <2>4
      <4>3. QED
        BY <4>2, <3>2, <3>4
    <3>5. QED
      BY <3>3, <3>4
  <2>6. e = [n \in 0..k |-> Step(e, n)]
    BY <2>5
  <2>7. QED
    BY <2>1, <2>6
<1>3. \E g : g = [n \in 0..Len(history) |-> Step(g, n)]
  BY <1>2
<1>4. Items!Replayed = CHOOSE g : g = [n \in 0..Len(history) |-> Step(g, n)]
  BY DEF Items!Replayed, Step
<1>5. Items!Replayed = [n \in 0..Len(history) |-> Step(Items!Replayed, n)]
  BY <1>3, <1>4
<1>6. QED
  BY <1>5 DEF Step

------------------------------------------------------------------------------
\* ThreadItems: the items of a history, and a task with an end while it is ended.
ItemRecords ==
    [kind : {"call", "interacted", "interrupted", "other"},
     states : UNION {[S -> Items!Raw] : S \in SUBSET Agents}, open : BOOLEAN]
Times == 0..MaxSeconds
WellEnded(task) ==
    task \in Items!Task /\ (task.finished # 0 <=> task.status \in Items!Terminal)
TaskTables == {tasks \in [Agents -> Items!Task] : \A a \in Agents : WellEnded(tasks[a])}
IsEnded(tasks, a) == tasks[a].status \in Items!Terminal
\* An item that shows the end of a subagent.
ShowsEnd(item, a) ==
    /\ a \in DOMAIN item.states
    /\ \/ item.kind = "call" /\ item.states[a] \in {"errored", "interrupted"}
       \/ item.kind = "interrupted"

LEMMA CallEffect ==
  ASSUME NEW task, WellEnded(task), NEW raw \in Items!Raw, NEW historical \in BOOLEAN,
         NEW time \in 1..MaxSeconds
  PROVE  LET t == Items!FromCall(task, raw, historical, time)
             ended == raw \in {"errored", "interrupted"} IN
         /\ WellEnded(t) /\ t.status # "none"
         /\ t.status \in Items!Terminal => ended \/ task.status \in Items!Terminal
         /\ ~historical /\ t.status \in Items!Terminal => ended
         /\ ended => t.status \in Items!Terminal
         /\ historical /\ task.status \in Items!Terminal => t.status \in Items!Terminal
<1> DEFINE s == Items!Seen(task, Items!Normalized(raw), historical)
           t == Items!FromCall(task, raw, historical, time)
<1>1. Items!Normalized(raw) \in {"pending", "inProgress", "failed", "interrupted"}
  BY DEF Items!Raw, Items!Normalized
<1>2. raw \in {"errored", "interrupted"} <=> Items!Normalized(raw) \in Items!Terminal
  BY DEF Items!Raw, Items!Normalized, Items!Terminal
<1>3. s \in {"pending", "inProgress", "failed", "interrupted"}
  BY <1>1 DEF Items!Seen, Items!Latest, Items!Terminal, Items!Active
<1>4. /\ s \in Items!Terminal =>
              Items!Normalized(raw) \in Items!Terminal
                \/ (historical /\ task.status \in Items!Terminal)
      /\ Items!Normalized(raw) \in Items!Terminal => s \in Items!Terminal
      /\ historical /\ task.status \in Items!Terminal => s \in Items!Terminal
  BY <1>1 DEF Items!Seen, Items!Latest, Items!Terminal, Items!Active
<1>5. t = [status |-> s,
           started |-> IF task.started = 0 /\ s \in Items!Active THEN time ELSE task.started,
           finished |-> Items!Finish(task, s, time), updated |-> time]
  BY DEF Items!FromCall
<1>6. /\ task.started \in Times /\ task.finished \in Times /\ time \in Times
      /\ time # 0
  BY DEF WellEnded, Items!Task, Times
<1>7. /\ Items!Finish(task, s, time) \in Times
      /\ Items!Finish(task, s, time) # 0 <=> s \in Items!Terminal
  BY <1>3, <1>6, ItemsAssumption
  DEF Times, Items!Finish, Items!Ended, Items!FirstEnd, Items!Terminal, Items!Active
<1> HIDE DEF s
<1>8. WellEnded(t)
  BY <1>3, <1>5, <1>6, <1>7 DEF WellEnded, Items!Task, Times, Items!Active, Items!Terminal
<1>9. QED
  BY <1>2, <1>3, <1>4, <1>5, <1>8

LEMMA ActivityEffect ==
  ASSUME NEW task, WellEnded(task), NEW kind \in {"interacted", "interrupted", "other"},
         NEW historical \in BOOLEAN, NEW time \in 1..MaxSeconds
  PROVE  LET t == Items!FromActivity(task, kind, historical, time) IN
         /\ WellEnded(t) /\ t.status # "none"
         /\ t.status \in Items!Terminal => kind = "interrupted" \/ task.status \in Items!Terminal
         /\ kind = "interrupted" => t.status \in Items!Terminal
         /\ historical /\ task.status \in Items!Terminal => t.status \in Items!Terminal
<1> DEFINE s == Items!ActivityStatus(task, kind, historical)
           t == Items!FromActivity(task, kind, historical, time)
<1>1. task.status \in {"pending", "inProgress", "failed", "interrupted", "none"}
  BY DEF WellEnded, Items!Task, Items!Active, Items!Terminal
<1>2. /\ s \in {"pending", "inProgress", "failed", "interrupted"}
      /\ s \in Items!Terminal => kind = "interrupted" \/ task.status \in Items!Terminal
      /\ kind = "interrupted" => s \in Items!Terminal
      /\ historical /\ task.status \in Items!Terminal => s \in Items!Terminal
  BY <1>1 DEF Items!ActivityStatus, Items!Seen, Items!Latest, Items!Terminal, Items!Active
<1>3. t = [status |-> s,
           started |-> IF task.started > 0 THEN task.started ELSE time,
           finished |-> Items!Finish(task, s, time), updated |-> time]
  BY DEF Items!FromActivity
<1>4. /\ task.started \in Times /\ task.finished \in Times /\ time \in Times
      /\ time # 0
  BY DEF WellEnded, Items!Task, Times
<1> HIDE DEF s
<1>5. /\ Items!Finish(task, s, time) \in Times
      /\ Items!Finish(task, s, time) # 0 <=> s \in Items!Terminal
  BY <1>2, <1>4, ItemsAssumption
  DEF Times, Items!Finish, Items!Ended, Items!FirstEnd, Items!Terminal, Items!Active
<1>6. WellEnded(t)
  BY <1>2, <1>3, <1>4, <1>5 DEF WellEnded, Items!Task, Times, Items!Active, Items!Terminal
<1>7. QED
  BY <1>2, <1>3, <1>6

\* What an item makes of the tasks (project_item_subagents).
LEMMA ProjectedEffect ==
  ASSUME NEW tasks \in TaskTables, NEW item \in ItemRecords, NEW historical \in BOOLEAN,
         NEW time \in 1..MaxSeconds
  PROVE  LET new == Items!Projected(tasks, item, historical, time) IN
         /\ new \in TaskTables
         /\ \A a \in Agents :
              /\ a \notin DOMAIN item.states => new[a] = tasks[a]
              /\ IsEnded(new, a) => IsEnded(tasks, a) \/ ShowsEnd(item, a)
              /\ ShowsEnd(item, a) => IsEnded(new, a)
              /\ historical /\ IsEnded(tasks, a) => IsEnded(new, a)
<1> DEFINE new == Items!Projected(tasks, item, historical, time)
<1>1. /\ new = [a \in Agents |->
           IF a \notin DOMAIN item.states THEN tasks[a]
           ELSE IF item.kind = "call"
                THEN Items!FromCall(tasks[a], item.states[a], historical, time)
           ELSE Items!FromActivity(tasks[a], item.kind, historical, time)]
  BY DEF Items!Projected
<1>2. \A a \in DOMAIN item.states : item.states[a] \in Items!Raw
  BY DEF ItemRecords
<1>3. item.kind \in {"call", "interacted", "interrupted", "other"}
  BY DEF ItemRecords
<1> HIDE DEF new
<1>4. ASSUME NEW a \in Agents
      PROVE  /\ WellEnded(new[a])
             /\ a \notin DOMAIN item.states => new[a] = tasks[a]
             /\ IsEnded(new, a) => IsEnded(tasks, a) \/ ShowsEnd(item, a)
             /\ ShowsEnd(item, a) => IsEnded(new, a)
             /\ historical /\ IsEnded(tasks, a) => IsEnded(new, a)
  <2>1. WellEnded(tasks[a])
    BY DEF TaskTables
  <2>2. CASE a \notin DOMAIN item.states
    BY <1>1, <2>1, <2>2 DEF ShowsEnd, IsEnded
  <2>3. CASE a \in DOMAIN item.states /\ item.kind = "call"
    <3>1. new[a] = Items!FromCall(tasks[a], item.states[a], historical, time)
      BY <1>1, <2>3
    <3>2. item.states[a] \in Items!Raw
      BY <1>2, <2>3
    <3>3. QED
      BY <2>1, <2>3, <3>1, <3>2, CallEffect DEF ShowsEnd, IsEnded
  <2>4. CASE a \in DOMAIN item.states /\ item.kind # "call"
    <3>1. new[a] = Items!FromActivity(tasks[a], item.kind, historical, time)
      BY <1>1, <2>4
    <3>2. item.kind \in {"interacted", "interrupted", "other"}
      BY <1>3, <2>4
    <3>3. QED
      BY <2>1, <2>4, <3>1, <3>2, ActivityEffect DEF ShowsEnd, IsEnded
  <2>5. QED
    BY <2>2, <2>3, <2>4
<1>5. new \in [Agents -> Items!Task]
  BY <1>1, <1>4 DEF WellEnded
<1>6. QED
  BY <1>4, <1>5 DEF TaskTables, new

LEMMA ItemsCardinality == \A S : Items!Cardinality(S) = Cardinality(S)
BY DEF Items!Cardinality, Cardinality

\* Dropping tasks (trim_subagent_tasks): a task stays or is gone, and while no more
\* agents are known than tasks are kept, an ended one stays.
LEMMA TrimmedEffect ==
  ASSUME NEW tasks \in TaskTables
  PROVE  /\ Items!Trimmed(tasks) \in TaskTables
         /\ \A a \in Agents : IsEnded(Items!Trimmed(tasks), a) => IsEnded(tasks, a)
         /\ \A S \in SUBSET Agents :
              Items!Known(tasks) \subseteq S /\ Cardinality(S) <= MaxTasks =>
                /\ Items!Known(Items!Trimmed(tasks)) \subseteq S
                /\ \A a \in Agents : IsEnded(tasks, a) => IsEnded(Items!Trimmed(tasks), a)
<1> DEFINE new == Items!Trimmed(tasks)
<1>1. new = [a \in Agents |->
               IF Cardinality(Items!Later(tasks, a)) < MaxTasks THEN tasks[a] ELSE Items!NoTask]
  BY ItemsCardinality DEF Items!Trimmed
<1>2. WellEnded(Items!NoTask) /\ Items!NoTask.status = "none"
  BY ItemsAssumption DEF WellEnded, Items!NoTask, Items!Task, Items!Terminal
<1>3. \A a \in Agents : WellEnded(tasks[a]) /\ tasks[a] \in Items!Task
  BY DEF TaskTables, WellEnded
<1> HIDE DEF new
<1>4. \A a \in Agents : new[a] = tasks[a] \/ new[a] = Items!NoTask
  BY <1>1
<1>5. new \in [Agents -> Items!Task] /\ \A a \in Agents : WellEnded(new[a])
  BY <1>1, <1>2, <1>3, <1>4 DEF WellEnded
<1>6. \A a \in Agents : IsEnded(new, a) => IsEnded(tasks, a)
  BY <1>2, <1>4 DEF IsEnded, Items!Terminal
<1>7. ASSUME NEW S \in SUBSET Agents, Items!Known(tasks) \subseteq S, Cardinality(S) <= MaxTasks
      PROVE  /\ Items!Known(new) \subseteq S
             /\ \A a \in Agents : IsEnded(tasks, a) => IsEnded(new, a)
  <2>1. Items!Known(new) \subseteq S
    BY <1>2, <1>4, <1>7 DEF Items!Known
  <2>2. ASSUME NEW a \in Agents, IsEnded(tasks, a) PROVE IsEnded(new, a)
    <3>1. a \in S
      BY <1>7, <2>2 DEF IsEnded, Items!Known, Items!Terminal
    <3>2. tasks[a].updated \in Nat /\ a \in Nat
      BY <1>3, ItemsAssumption DEF Items!Task
    <3>3. a \notin Items!Later(tasks, a)
      BY <3>2 DEF Items!Later
    <3>4. Items!Later(tasks, a) \subseteq S \ {a}
      BY <1>7, <3>3 DEF Items!Later
    <3>5. IsFiniteSet(S) /\ Cardinality(S) \in Nat
      BY FS_Subset, FS_CardinalityType, ItemsAssumption
    <3>6. /\ IsFiniteSet(S \ {a}) /\ Cardinality(S \ {a}) = Cardinality(S) - 1
          /\ Cardinality(S \ {a}) \in Nat
      BY <3>1, <3>5, FS_RemoveElement, FS_CardinalityType
    <3>7. /\ Cardinality(Items!Later(tasks, a)) \in Nat
          /\ Cardinality(Items!Later(tasks, a)) <= Cardinality(S \ {a})
      BY <3>4, <3>6, FS_Subset, FS_CardinalityType
    <3>8. Cardinality(Items!Later(tasks, a)) < MaxTasks
      BY <1>7, <3>5, <3>6, <3>7, ItemsAssumption
    <3>9. QED
      BY <1>1, <2>2, <3>8 DEF IsEnded
  <2>3. QED
    BY <2>1, <2>2
<1>8. QED
  BY <1>5, <1>6, <1>7 DEF TaskTables, new

\* A projection with the items of a history of n items.
ItemProjections(n) ==
    [item_order : Seq(1..n), items : SUBSET (1..n), subagents : TaskTables]
InOrder(p) == p.items = Items!Range(p.item_order) /\ Items!IsInjective(p.item_order)

LEMMA FiledEffect ==
  ASSUME NEW n \in Nat, NEW p \in ItemProjections(n), InOrder(p), NEW k \in 1..n
  PROVE  LET q == Items!Filed(p, k) IN
         q \in ItemProjections(n) /\ InOrder(q) /\ q.subagents = p.subagents
<1>1. CASE k \in p.items
  BY <1>1 DEF Items!Filed
<1>2. CASE k \notin p.items
  <2> DEFINE order == Append(p.item_order, k)
             q == [p EXCEPT !.items = p.items \cup {k}, !.item_order = order]
  <2>1. Items!Filed(p, k) = q
    BY <1>2 DEF Items!Filed, Items!FiledAgain
  <2>2. p.item_order \in Seq(1..n) /\ p.items \in SUBSET (1..n) /\ p.subagents \in TaskTables
    BY DEF ItemProjections
  <2> DEFINE len == Len(p.item_order)
  <2>3. /\ order \in Seq(1..n) /\ len \in Nat
        /\ DOMAIN order = 1..len + 1 /\ DOMAIN p.item_order = 1..len
        /\ order[len + 1] = k /\ \A i \in 1..len : order[i] = p.item_order[i]
    BY <2>2
  <2>4. /\ q.item_order = order /\ q.items = p.items \cup {k} /\ q.subagents = p.subagents
        /\ q \in ItemProjections(n)
    BY <2>2, <2>3 DEF ItemProjections
  <2> HIDE DEF order, q, len
  <2>5. p.items = {p.item_order[i] : i \in 1..len}
    BY <2>3 DEF InOrder, Items!Range
  <2>6. Items!Range(order) = {order[i] : i \in 1..len + 1}
    BY <2>3 DEF Items!Range
  <2>7. Items!Range(order) = p.items \cup {k}
    BY <2>3, <2>5, <2>6
  <2>8. Items!IsInjective(order)
    <3>1. \A i, j \in 1..len : p.item_order[i] = p.item_order[j] => i = j
      BY <2>3 DEF InOrder, Items!IsInjective
    <3>2. \A i \in 1..len : p.item_order[i] # k
      BY <1>2, <2>5
    <3>3. \A i, j \in 1..len + 1 : order[i] = order[j] => i = j
      <4>1. \A i \in 1..len + 1 : i \in 1..len \/ i = len + 1
        BY <2>3
      <4>2. QED
        BY <2>3, <3>1, <3>2, <4>1
    <3>4. QED
      BY <2>3, <3>3 DEF Items!IsInjective
  <2>9. QED
    BY <2>1, <2>4, <2>7, <2>8 DEF InOrder
<1>3. QED
  BY <1>1, <1>2

\* What an item makes of a projection, live or from the history.
LEMMA WithItemEffect ==
  ASSUME NEW n \in Nat, NEW p \in ItemProjections(n), InOrder(p), NEW k \in 1..n,
         NEW item \in ItemRecords, NEW historical \in BOOLEAN, NEW time \in 1..MaxSeconds
  PROVE  LET q == Items!WithItem(p, k, item, historical, time)
             new == Items!Projected(p.subagents, item, historical, time) IN
         /\ q \in ItemProjections(n) /\ InOrder(q)
         /\ q.subagents = Items!Trimmed(new) /\ new \in TaskTables
         /\ \A a \in Agents : IsEnded(q.subagents, a) =>
                                IsEnded(p.subagents, a) \/ ShowsEnd(item, a)
<1> DEFINE f == Items!Filed(p, k)
           new == Items!Projected(p.subagents, item, historical, time)
           q == Items!WithItem(p, k, item, historical, time)
<1>1. q = [f EXCEPT !.subagents = Items!Trimmed(new)]
  BY DEF Items!WithItem
<1>2. f \in ItemProjections(n) /\ InOrder(f) /\ p.subagents \in TaskTables
  BY FiledEffect DEF ItemProjections
<1>3. /\ new \in TaskTables
      /\ \A a \in Agents : IsEnded(new, a) => IsEnded(p.subagents, a) \/ ShowsEnd(item, a)
  BY <1>2, ProjectedEffect
<1> HIDE DEF f, new, q
<1>4. /\ Items!Trimmed(new) \in TaskTables
      /\ \A a \in Agents : IsEnded(Items!Trimmed(new), a) => IsEnded(new, a)
  BY <1>3, TrimmedEffect
<1>5. /\ q \in ItemProjections(n) /\ q.subagents = Items!Trimmed(new)
      /\ q.items = f.items /\ q.item_order = f.item_order
  BY <1>1, <1>2, <1>4 DEF ItemProjections
<1>6. InOrder(q)
  BY <1>2, <1>5 DEF InOrder
<1>7. QED
  BY <1>3, <1>4, <1>5, <1>6 DEF q, new

\* The oldest items are dropped (truncate_items).
LEMMA TruncatedEffect ==
  ASSUME NEW n \in Nat, NEW p \in ItemProjections(n), InOrder(p)
  PROVE  LET q == Items!Truncated(p) IN
         /\ q \in ItemProjections(n) /\ InOrder(q) /\ q.subagents = p.subagents
         /\ Len(q.item_order) <= MaxItems
<1> DEFINE old == p.item_order
           order == Items!LastOf(old, MaxItems)
           q == Items!Truncated(p)
<1>1. q = [p EXCEPT !.item_order = order, !.items = Items!Range(order)]
  BY DEF Items!Truncated, Items!Keep
<1>2. /\ old \in Seq(1..n) /\ Len(old) \in Nat /\ DOMAIN old = 1..Len(old) /\ MaxItems \in Nat
      /\ \A i, j \in DOMAIN old : old[i] = old[j] => i = j
  BY ItemsAssumption DEF ItemProjections, InOrder, Items!IsInjective
<1>3. /\ order \in Seq(1..n) /\ Len(order) <= MaxItems
      /\ \A i, j \in DOMAIN order : order[i] = order[j] => i = j
  <2>1. CASE Len(old) <= MaxItems
    BY <1>2, <2>1 DEF Items!LastOf
  <2>2. CASE ~(Len(old) <= MaxItems)
    <3> DEFINE low == Len(old) - MaxItems + 1
    <3>1. low \in Int /\ Len(old) \in Int /\ \A i \in low..Len(old) : old[i] \in 1..n
      BY <1>2, <2>2
    <3>2. order = SubSeq(old, low, Len(old))
      BY <2>2 DEF Items!LastOf
    <3> HIDE DEF order, old
    <3>3. /\ order \in Seq(1..n)
          /\ Len(order) = IF low <= Len(old) THEN Len(old) - low + 1 ELSE 0
          /\ \A i \in 1..Len(old) - low + 1 : order[i] = old[low + i - 1]
      BY <3>1, <3>2, SubSeqProperties
    <3>4. Len(order) = MaxItems /\ DOMAIN order = 1..MaxItems
      BY <1>2, <2>2, <3>3
    <3>5. \A i \in 1..MaxItems : order[i] = old[low + i - 1] /\ low + i - 1 \in DOMAIN old
      <4>1. \A i \in 1..MaxItems : i \in 1..Len(old) - low + 1 /\ low + i - 1 \in 1..Len(old)
        BY <1>2, <2>2
      <4>2. QED
        BY <1>2, <3>3, <4>1
    <3>6. ASSUME NEW i \in 1..MaxItems, NEW j \in 1..MaxItems, order[i] = order[j]
          PROVE  i = j
      <4>1. low + i - 1 = low + j - 1
        BY <1>2, <3>5, <3>6
      <4>2. QED
        BY <3>1, <4>1
    <3>7. QED
      BY <1>2, <3>3, <3>4, <3>6
  <2>3. QED
    BY <2>1, <2>2
<1> HIDE DEF q, order
<1>4. Items!Range(order) \in SUBSET (1..n)
  BY <1>3 DEF Items!Range
<1>5. /\ q \in ItemProjections(n) /\ q.subagents = p.subagents
      /\ q.item_order = order /\ q.items = Items!Range(order)
  BY <1>1, <1>3, <1>4 DEF ItemProjections
<1>6. InOrder(q)
  BY <1>3, <1>5 DEF InOrder, Items!IsInjective
<1>7. QED
  BY <1>3, <1>5, <1>6 DEF q

------------------------------------------------------------------------------
\* The invariant.
ItemsTyped ==
    /\ agent \in [Agents -> Items!Raw \cup {"none"}] /\ changes \in 0..MaxAgentChanges
    /\ resumed \subseteq Agents /\ clock \in 1..MaxSeconds
    /\ history \in Seq(ItemRecords) /\ Len(history) <= MaxHistory
    /\ itemProjection \in ItemProjections(Len(history))
    /\ Len(itemProjection.item_order) <= MaxItems

\* Only calls are completed later.
OpenCalls == \A i \in DOMAIN history : history[i].open => history[i].kind = "call"
\* Items name subagents that were spawned; one whose end an item shows is ended
\* still, unless it was resumed.
EndsLast ==
    \A i \in DOMAIN history : \A a \in DOMAIN history[i].states :
      /\ agent[a] # "none"
      /\ a \notin resumed /\ history[i].states[a] \in {"errored", "interrupted"} =>
           agent[a] = history[i].states[a]
\* What the projection shows as ended, an item of the history shows as ended.
EndsMarked ==
    \A a \in Agents \ resumed :
      IsEnded(itemProjection.subagents, a) => \E i \in DOMAIN history : ShowsEnd(history[i], a)
ItemsInv == ItemsTyped /\ InOrder(itemProjection) /\ OpenCalls /\ EndsLast /\ EndsMarked

\* The agents that the items of the history name.
Named == UNION {DOMAIN history[i].states : i \in DOMAIN history}

\* Rebuilding: the items stay in order, and while no task is dropped, a task is ended
\* exactly when an item shows its end.
LEMMA ReplayHolds ==
  ASSUME history \in Seq(ItemRecords), clock \in 1..MaxSeconds
  PROVE  LET p == Items!Replayed[Len(history)] IN
         /\ p \in ItemProjections(Len(history)) /\ InOrder(p)
         /\ \A a \in Agents :
              IsEnded(p.subagents, a) => \E i \in DOMAIN history : ShowsEnd(history[i], a)
         /\ Cardinality(Named) <= MaxTasks =>
              \A a \in Agents : \A i \in DOMAIN history :
                ShowsEnd(history[i], a) => IsEnded(p.subagents, a)
<1> DEFINE R == Items!Replayed
           Small == Cardinality(Named) <= MaxTasks
           Good(n) ==
             /\ R[n] \in ItemProjections(Len(history)) /\ InOrder(R[n])
             /\ \A a \in Agents :
                  IsEnded(R[n].subagents, a) => \E i \in 1..n : ShowsEnd(history[i], a)
             /\ Small => Items!Known(R[n].subagents) \subseteq Named
             /\ Small => \A a \in Agents : \A i \in 1..n :
                           ShowsEnd(history[i], a) => IsEnded(R[n].subagents, a)
<1>1. Len(history) \in Nat /\ DOMAIN history = 1..Len(history)
  OBVIOUS
<1>2. /\ R[0] = Items!Default
      /\ \A n \in 1..Len(history) : R[n] = Items!WithItem(R[n - 1], n, history[n], TRUE, clock)
  <2>1. R = [n \in 0..Len(history) |->
              IF n = 0 THEN Items!Default
              ELSE Items!WithItem(R[n - 1], n, history[n], TRUE, clock)]
    BY <1>1, ReplayUnfolds
  <2> HIDE DEF R
  <2>2. 0 \in 0..Len(history) /\ \A n \in 1..Len(history) : n \in 0..Len(history) /\ n # 0
    BY <1>1
  <2>3. QED
    BY <2>1, <2>2
<1> HIDE DEF R
<1>3. Good(0)
  <2>1. /\ Items!NoTask \in Items!Task /\ WellEnded(Items!NoTask)
        /\ Items!NoTask.status = "none"
    BY ItemsAssumption DEF WellEnded, Items!NoTask, Items!Task, Items!Terminal
  <2>2. [a \in Agents |-> Items!NoTask] \in TaskTables
    BY <2>1 DEF TaskTables
  <2>3. /\ R[0].item_order = <<>> /\ R[0].items = {}
        /\ R[0].subagents = [a \in Agents |-> Items!NoTask]
        /\ R[0] \in ItemProjections(Len(history))
    BY <1>2, <2>2 DEF Items!Default, ItemProjections
  <2>4. InOrder(R[0])
    BY <2>3 DEF InOrder, Items!Range, Items!IsInjective
  <2>5. \A a \in Agents : ~IsEnded(R[0].subagents, a)
    BY <2>1, <2>3 DEF IsEnded, Items!Terminal
  <2>6. Items!Known(R[0].subagents) = {}
    BY <2>1, <2>3 DEF Items!Known
  <2>7. QED
    BY <2>3, <2>4, <2>5, <2>6
<1>4. ASSUME NEW n \in 1..Len(history), Good(n - 1) PROVE Good(n)
  <2> DEFINE p == R[n - 1]
             item == history[n]
             new == Items!Projected(p.subagents, item, TRUE, clock)
  <2>1. /\ n \in 1..n /\ 1..n-1 \subseteq 1..n
        /\ \A i \in 1..n : i \in 1..n-1 \/ i = n
    BY <1>1
  <2>2. item \in ItemRecords /\ p \in ItemProjections(Len(history)) /\ InOrder(p)
    BY <1>1, <1>4
  <2>3. R[n] = Items!WithItem(p, n, item, TRUE, clock)
    BY <1>2
  <2>4. /\ \A a \in Agents : IsEnded(p.subagents, a) => \E i \in 1..n-1 : ShowsEnd(history[i], a)
        /\ Small => Items!Known(p.subagents) \subseteq Named
        /\ Small => \A a \in Agents : \A i \in 1..n-1 :
                      ShowsEnd(history[i], a) => IsEnded(p.subagents, a)
    BY <1>4
  <2>5. item = history[n]
    OBVIOUS
  <2> HIDE DEF p, item
  <2>6. /\ R[n] \in ItemProjections(Len(history)) /\ InOrder(R[n])
        /\ R[n].subagents = Items!Trimmed(new) /\ new \in TaskTables
        /\ \A a \in Agents : IsEnded(R[n].subagents, a) =>
                               IsEnded(p.subagents, a) \/ ShowsEnd(item, a)
    <3> DEFINE q == Items!WithItem(p, n, item, TRUE, clock)
    <3> HIDE DEF Good
    <3>1. q \in ItemProjections(Len(history)) /\ InOrder(q)
      BY <1>1, <2>2, WithItemEffect
    <3>2. q.subagents = Items!Trimmed(new) /\ new \in TaskTables
      BY <1>1, <2>2, WithItemEffect
    <3>3. \A a \in Agents : IsEnded(q.subagents, a) => IsEnded(p.subagents, a) \/ ShowsEnd(item, a)
      BY <1>1, <2>2, WithItemEffect
    <3>4. QED
      BY <2>3, <3>1, <3>2, <3>3
  <2>7. \A a \in Agents : IsEnded(R[n].subagents, a) => \E i \in 1..n : ShowsEnd(history[i], a)
    BY <2>1, <2>4, <2>5, <2>6
  <2>8. ASSUME Small
        PROVE  /\ Items!Known(R[n].subagents) \subseteq Named
               /\ \A a \in Agents : \A i \in 1..n :
                    ShowsEnd(history[i], a) => IsEnded(R[n].subagents, a)
    <3>1. p.subagents \in TaskTables
      BY <2>2 DEF ItemProjections
    <3>2. \A a \in Agents :
            /\ a \notin DOMAIN item.states => new[a] = p.subagents[a]
            /\ IsEnded(p.subagents, a) \/ ShowsEnd(item, a) => IsEnded(new, a)
      BY <2>2, <3>1, ProjectedEffect
    <3>3. DOMAIN item.states \subseteq Named /\ Named \in SUBSET Agents
      <4>1. \A r \in ItemRecords : DOMAIN r.states \subseteq Agents
        BY DEF ItemRecords
      <4>2. \A i \in DOMAIN history : DOMAIN history[i].states \subseteq Agents
        BY <1>1, <4>1
      <4>3. QED
        BY <1>1, <2>5, <4>2 DEF Named
    <3>4. Items!Known(new) \subseteq Named
      BY <2>4, <2>8, <3>2, <3>3 DEF Items!Known
    <3>5. /\ Items!Known(R[n].subagents) \subseteq Named
          /\ \A a \in Agents : IsEnded(new, a) => IsEnded(R[n].subagents, a)
      BY <2>6, <2>8, <3>3, <3>4, TrimmedEffect
    <3>6. \A a \in Agents : \A i \in 1..n : ShowsEnd(history[i], a) => IsEnded(new, a)
      BY <2>1, <2>4, <2>5, <2>8, <3>2
    <3>7. QED
      BY <3>5, <3>6
  <2>9. QED
    BY <2>6, <2>7, <2>8
<1> HIDE DEF Good
<1>5. \A n \in 0..Len(history) : Good(n)
  <2> DEFINE Bad == {n \in 0..Len(history) : ~Good(n)}
  <2>1. ASSUME Bad # {} PROVE FALSE
    <3>1. PICK n \in Bad : \A k \in Bad : n <= k
      <4>1. Bad \subseteq Nat
        BY <1>1
      <4>2. QED
        BY <2>1, <4>1, LeastElement
    <3>2. n \in 1..Len(history) /\ n - 1 \in 0..Len(history)
      BY <1>1, <1>3, <3>1
    <3>3. Good(n - 1)
      BY <3>1, <3>2
    <3>4. QED
      BY <1>4, <3>1, <3>2, <3>3
  <2>2. QED
    BY <2>1
<1>6. Good(Len(history))
  BY <1>1, <1>5
<1>7. QED
  BY <1>1, <1>6 DEF Good, R

LEMMA LiveEffect ==
  ASSUME NEW n \in Nat, NEW p \in ItemProjections(n), InOrder(p), NEW k \in 1..n,
         NEW item \in ItemRecords, clock \in 1..MaxSeconds
  PROVE  LET q == Items!Live(p, k, item) IN
         /\ q \in ItemProjections(n) /\ InOrder(q) /\ Len(q.item_order) <= MaxItems
         /\ \A a \in Agents : IsEnded(q.subagents, a) =>
                                IsEnded(p.subagents, a) \/ ShowsEnd(item, a)
<1> DEFINE w == Items!WithItem(p, k, item, FALSE, clock)
           q == Items!Live(p, k, item)
<1>1. /\ w \in ItemProjections(n) /\ InOrder(w)
      /\ \A a \in Agents : IsEnded(w.subagents, a) => IsEnded(p.subagents, a) \/ ShowsEnd(item, a)
  BY WithItemEffect
<1>2. q = Items!Truncated(w)
  BY DEF Items!Live
<1> HIDE DEF w, q
<1>3. /\ q \in ItemProjections(n) /\ InOrder(q) /\ q.subagents = w.subagents
      /\ Len(q.item_order) <= MaxItems
  BY <1>1, <1>2, TruncatedEffect
<1>4. QED
  BY <1>1, <1>3 DEF q

LEMMA MoreItems ==
  ASSUME NEW n \in Nat, NEW p \in ItemProjections(n)
  PROVE  p \in ItemProjections(n + 1)
<1>1. 1..n \subseteq 1..n + 1
  OBVIOUS
<1>2. Seq(1..n) \subseteq Seq(1..n + 1) /\ SUBSET (1..n) \subseteq SUBSET (1..n + 1)
  BY <1>1
<1>3. QED
  BY <1>2 DEF ItemProjections

LEMMA ItemsInit == Items!Init => ItemsInv
<1> SUFFICES ASSUME Items!Init PROVE ItemsInv
  OBVIOUS
<1>1. /\ agent = [a \in Agents |-> "none"] /\ changes = 0 /\ resumed = {}
      /\ history = <<>> /\ clock = 1 /\ itemProjection = Items!Default
  BY DEF Items!Init
<1>2. /\ Items!NoTask \in Items!Task /\ WellEnded(Items!NoTask) /\ Items!NoTask.status = "none"
  BY ItemsAssumption DEF WellEnded, Items!NoTask, Items!Task, Items!Terminal
<1>3. /\ itemProjection.item_order = <<>> /\ itemProjection.items = {}
      /\ itemProjection.subagents = [a \in Agents |-> Items!NoTask]
      /\ itemProjection \in ItemProjections(Len(history))
  BY <1>1, <1>2 DEF Items!Default, ItemProjections, TaskTables
<1>4. InOrder(itemProjection)
  BY <1>3 DEF InOrder, Items!Range, Items!IsInjective
<1>5. ItemsTyped
  BY <1>1, <1>3, ItemsAssumption DEF ItemsTyped
<1>6. OpenCalls /\ EndsLast
  BY <1>1 DEF OpenCalls, EndsLast
<1>7. EndsMarked
  BY <1>2, <1>3 DEF EndsMarked, IsEnded, Items!Terminal
<1>8. QED
  BY <1>4, <1>5, <1>6, <1>7 DEF ItemsInv

\* A subagent starts, ends or is resumed.
LEMMA ChangeKeeps == ASSUME ItemsInv, NEW a \in Agents, Items!Change(a) PROVE ItemsInv'
<1>1. PICK status_ \in Items!Raw :
        /\ agent' = [agent EXCEPT ![a] = status_]
        /\ resumed' = resumed \/ (resumed' = resumed \cup {a})
        /\ agent[a] \in {"errored", "interrupted"} => resumed' = resumed \cup {a}
  BY DEF Items!Change, Items!Running, Items!Raw
<1>2. /\ changes < MaxAgentChanges /\ changes' = changes + 1
      /\ UNCHANGED <<history, clock, itemProjection>>
  BY DEF Items!Change
<1>3. ItemsTyped' /\ InOrder(itemProjection)' /\ OpenCalls'
  <2>1. agent' \in [Agents -> Items!Raw \cup {"none"}] /\ resumed' \subseteq Agents
    BY <1>1 DEF ItemsInv, ItemsTyped
  <2>2. changes' \in 0..MaxAgentChanges
    BY <1>2, ItemsAssumption DEF ItemsInv, ItemsTyped
  <2>3. /\ clock' \in 1..MaxSeconds /\ history' \in Seq(ItemRecords) /\ Len(history') <= MaxHistory
        /\ itemProjection' \in ItemProjections(Len(history'))
        /\ Len(itemProjection'.item_order) <= MaxItems
    BY <1>2 DEF ItemsInv, ItemsTyped
  <2>4. InOrder(itemProjection') /\ OpenCalls'
    BY <1>2 DEF ItemsInv, OpenCalls
  <2>5. QED
    BY <2>1, <2>2, <2>3, <2>4 DEF ItemsTyped, InOrder
<1>4. agent \in [Agents -> Items!Raw \cup {"none"}] /\ "none" \notin Items!Raw
  BY DEF ItemsInv, ItemsTyped, Items!Raw
<1>5. \A i \in DOMAIN history : DOMAIN history[i].states \subseteq Agents
  <2>1. \A r \in ItemRecords : DOMAIN r.states \subseteq Agents
    BY DEF ItemRecords
  <2>2. QED
    BY <2>1 DEF ItemsInv, ItemsTyped
<1>6. EndsLast'
  BY <1>1, <1>2, <1>4, <1>5 DEF ItemsInv, EndsLast
<1>7. EndsMarked'
  BY <1>1, <1>2 DEF ItemsInv, EndsMarked
<1>8. QED
  BY <1>3, <1>6, <1>7 DEF ItemsInv

\* An item begins.
LEMMA BeginKeeps == ItemsInv /\ Items!Begin => ItemsInv'
<1> SUFFICES ASSUME ItemsInv, Items!Begin PROVE ItemsInv'
  OBVIOUS
<1> DEFINE n == Len(history)
<1>1. PICK item :
        /\ \E S \in SUBSET Items!Spawned :
           \E kind \in {"call", "interacted", "interrupted", "other"} :
             item = [kind |-> kind, states |-> [a \in S |-> agent[a]], open |-> kind = "call"]
        /\ history' = Append(history, item)
        /\ itemProjection' = Items!Live(itemProjection, n + 1, item)
             \/ itemProjection' = itemProjection
        /\ n < MaxHistory
        /\ UNCHANGED <<agent, changes, resumed, clock>>
  <2>1. PICK S \in SUBSET Items!Spawned, kind \in {"call", "interacted", "interrupted", "other"} :
          LET item == [kind |-> kind, states |-> Items!States(S), open |-> kind = "call"] IN
          history' = Append(history, item) /\ Items!Report(n + 1, item)
    BY Zenon DEF Items!Begin
  <2> DEFINE item == [kind |-> kind, states |-> [a \in S |-> agent[a]], open |-> kind = "call"]
  <2>2. history' = Append(history, item) /\ Items!Report(n + 1, item)
    BY <2>1, Zenon DEF Items!States
  <2>3. itemProjection' = Items!Live(itemProjection, n + 1, item)
          \/ itemProjection' = itemProjection
    BY <2>2, Zenon DEF Items!Report
  <2>4. n < MaxHistory /\ UNCHANGED <<agent, changes, resumed>>
    BY DEF Items!Begin
  <2>5. UNCHANGED clock
    BY <2>2, Zenon DEF Items!Report
  <2>6. QED
    BY <2>2, <2>3, <2>4, <2>5
<1>2. /\ history \in Seq(ItemRecords) /\ n \in Nat /\ DOMAIN history = 1..n
      /\ clock \in 1..MaxSeconds /\ itemProjection \in ItemProjections(n)
      /\ agent \in [Agents -> Items!Raw \cup {"none"}] /\ InOrder(itemProjection)
      /\ Len(itemProjection.item_order) <= MaxItems
  BY DEF ItemsInv, ItemsTyped
<1>3. /\ item \in ItemRecords /\ (item.open => item.kind = "call")
      /\ \A a \in DOMAIN item.states : agent[a] # "none" /\ item.states[a] = agent[a]
  <2>1. PICK S \in SUBSET Items!Spawned, kind \in {"call", "interacted", "interrupted", "other"} :
          item = [kind |-> kind, states |-> [a \in S |-> agent[a]], open |-> kind = "call"]
    BY <1>1
  <2>2. S \in SUBSET Agents /\ \A a \in S : agent[a] \in Items!Raw /\ agent[a] # "none"
    BY <1>2, <2>1 DEF Items!Spawned
  <2>3. [a \in S |-> agent[a]] \in [S -> Items!Raw]
    BY <2>2
  <2>4. [a \in S |-> agent[a]] \in UNION {[T -> Items!Raw] : T \in SUBSET Agents}
    BY <2>2, <2>3
  <2>5. item \in ItemRecords
    BY <2>1, <2>4 DEF ItemRecords
  <2>6. QED
    BY <2>1, <2>2, <2>5
<1>4. /\ history' \in Seq(ItemRecords) /\ Len(history') = n + 1 /\ DOMAIN history' = 1..n + 1
      /\ \A i \in 1..n : history'[i] = history[i]
      /\ history'[n + 1] = item
  BY <1>1, <1>2, <1>3
<1>5. n + 1 \in Nat /\ n + 1 \in 1..n + 1 /\ \A i \in 1..n + 1 : i \in 1..n \/ i = n + 1
  BY <1>2
<1>6. itemProjection \in ItemProjections(n + 1)
  BY <1>2, MoreItems
<1> HIDE DEF n
<1>7. /\ itemProjection' \in ItemProjections(n + 1) /\ InOrder(itemProjection')
      /\ Len(itemProjection'.item_order) <= MaxItems
      /\ \A a \in Agents : IsEnded(itemProjection'.subagents, a) =>
                             IsEnded(itemProjection.subagents, a) \/ ShowsEnd(item, a)
  <2>1. CASE itemProjection' = itemProjection
    BY <1>2, <1>6, <2>1
  <2>2. CASE itemProjection' = Items!Live(itemProjection, n + 1, item)
    BY <1>2, <1>3, <1>5, <1>6, <2>2, LiveEffect
  <2>3. QED
    BY <1>1, <2>1, <2>2
<1>8. ItemsTyped'
  BY <1>1, <1>2, <1>4, <1>7, ItemsAssumption DEF ItemsInv, ItemsTyped
<1>9. OpenCalls' /\ EndsLast'
  BY <1>1, <1>2, <1>3, <1>4, <1>5 DEF ItemsInv, OpenCalls, EndsLast
<1>10. EndsMarked'
  <2>1. ASSUME NEW a \in Agents \ resumed, NEW i \in 1..n, ShowsEnd(history[i], a)
        PROVE  \E j \in DOMAIN history' : ShowsEnd(history'[j], a)
    <3>1. i \in 1..n + 1 /\ history'[i] = history[i]
      BY <1>2, <1>4
    <3>2. QED
      BY <1>4, <2>1, <3>1
  <2>2. ASSUME NEW a \in Agents \ resumed, ShowsEnd(item, a)
        PROVE  \E j \in DOMAIN history' : ShowsEnd(history'[j], a)
    BY <1>4, <1>5, <2>2
  <2>3. \A a \in Agents \ resumed : IsEnded(itemProjection.subagents, a) =>
                                      \E i \in 1..n : ShowsEnd(history[i], a)
    BY <1>2 DEF ItemsInv, EndsMarked
  <2>4. QED
    BY <1>1, <1>7, <2>1, <2>2, <2>3 DEF EndsMarked
<1>11. QED
  BY <1>7, <1>8, <1>9, <1>10 DEF ItemsInv, InOrder

\* A call is completed: its item shows what its agents are by now.
LEMMA CompleteKeeps == ASSUME ItemsInv, NEW k \in Items!Ids, Items!Complete(k) PROVE ItemsInv'
<1> DEFINE n == Len(history)
           item == [history[k] EXCEPT !.open = FALSE,
                                      !.states = Items!States(DOMAIN history[k].states)]
<1>1. /\ k \in DOMAIN history /\ history[k].open
      /\ history' = [history EXCEPT ![k] = item]
      /\ itemProjection' = Items!Live(itemProjection, k, item) \/ itemProjection' = itemProjection
      /\ UNCHANGED <<agent, changes, resumed, clock>>
  BY DEF Items!Complete, Items!Report
<1>2. /\ history \in Seq(ItemRecords) /\ n \in Nat /\ DOMAIN history = 1..n
      /\ clock \in 1..MaxSeconds /\ itemProjection \in ItemProjections(n)
      /\ agent \in [Agents -> Items!Raw \cup {"none"}] /\ InOrder(itemProjection)
      /\ Len(itemProjection.item_order) <= MaxItems
  BY DEF ItemsInv, ItemsTyped
<1>3. /\ item \in ItemRecords /\ ~item.open /\ item.kind = "call" /\ history[k].kind = "call"
      /\ DOMAIN item.states = DOMAIN history[k].states
      /\ \A a \in DOMAIN item.states : agent[a] # "none" /\ item.states[a] = agent[a]
  <2>1. history[k] \in ItemRecords /\ history[k].kind = "call"
    BY <1>1, <1>2 DEF ItemsInv, OpenCalls
  <2> DEFINE S == DOMAIN history[k].states
  <2>2. S \in SUBSET Agents
    BY <2>1 DEF ItemRecords
  <2>3. \A a \in S : agent[a] \in Items!Raw /\ agent[a] # "none"
    BY <1>1, <1>2, <2>2 DEF ItemsInv, EndsLast
  <2>4. Items!States(S) = [a \in S |-> agent[a]]
    BY DEF Items!States
  <2>5. Items!States(S) \in UNION {[T -> Items!Raw] : T \in SUBSET Agents}
    BY <2>2, <2>3, <2>4
  <2> HIDE DEF S
  <2>6. /\ item \in ItemRecords /\ ~item.open /\ item.kind = "call"
        /\ item.states = Items!States(S)
    BY <2>1, <2>5 DEF ItemRecords, S
  <2>7. QED
    BY <2>1, <2>3, <2>4, <2>6 DEF S
<1> HIDE DEF item
<1>4. /\ history' \in Seq(ItemRecords) /\ Len(history') = n /\ DOMAIN history' = 1..n
      /\ \A i \in 1..n : history'[i] = IF i = k THEN item ELSE history[i]
  BY <1>1, <1>2, <1>3
<1> HIDE DEF n
<1>5. /\ itemProjection' \in ItemProjections(n) /\ InOrder(itemProjection')
      /\ Len(itemProjection'.item_order) <= MaxItems
      /\ \A a \in Agents : IsEnded(itemProjection'.subagents, a) =>
                             IsEnded(itemProjection.subagents, a) \/ ShowsEnd(item, a)
  <2>1. CASE itemProjection' = itemProjection
    BY <1>2, <2>1
  <2>2. CASE itemProjection' = Items!Live(itemProjection, k, item)
    BY <1>1, <1>2, <1>3, <2>2, LiveEffect
  <2>3. QED
    BY <1>1, <2>1, <2>2
<1>6. ItemsTyped'
  BY <1>1, <1>2, <1>4, <1>5 DEF ItemsInv, ItemsTyped, n
<1>7. OpenCalls' /\ EndsLast'
  BY <1>1, <1>2, <1>3, <1>4 DEF ItemsInv, OpenCalls, EndsLast
<1>8. EndsMarked'
  <2>1. ASSUME NEW a \in Agents \ resumed, ShowsEnd(history[k], a) PROVE ShowsEnd(item, a)
    BY <1>1, <1>3, <2>1 DEF ItemsInv, EndsLast, ShowsEnd
  <2>2. ASSUME NEW a \in Agents \ resumed, NEW i \in DOMAIN history, ShowsEnd(history[i], a)
        PROVE  \E j \in DOMAIN history' : ShowsEnd(history'[j], a)
    BY <1>2, <1>4, <2>1, <2>2
  <2>3. QED
    BY <1>1, <1>2, <1>4, <1>5, <2>2 DEF ItemsInv, EndsMarked
<1>9. QED
  BY <1>5, <1>6, <1>7, <1>8 DEF ItemsInv, InOrder

\* The projection is replaced by one whose ended tasks the history shows as ended.
LEMMA ProjectionReplaced ==
  ASSUME ItemsInv, UNCHANGED <<agent, changes, resumed, history, clock>>,
         itemProjection' \in ItemProjections(Len(history)), InOrder(itemProjection'),
         Len(itemProjection'.item_order) <= MaxItems,
         \A a \in Agents \ resumed : IsEnded(itemProjection'.subagents, a) =>
                                       \E i \in DOMAIN history : ShowsEnd(history[i], a)
  PROVE  ItemsInv'
<1>1. ItemsTyped'
  BY DEF ItemsInv, ItemsTyped
<1>2. OpenCalls' /\ EndsLast' /\ EndsMarked'
  BY DEF ItemsInv, OpenCalls, EndsLast, EndsMarked
<1>3. QED
  BY <1>1, <1>2 DEF ItemsInv, InOrder

\* The last item is sent again.
LEMMA ResendKeeps == ItemsInv /\ Items!Resend => ItemsInv'
<1> SUFFICES ASSUME ItemsInv, Items!Resend PROVE ItemsInv'
  OBVIOUS
<1> DEFINE n == Len(history)
           item == history[n]
<1>1. /\ n \in Nat /\ n \in 1..n /\ n \in DOMAIN history /\ item \in ItemRecords
      /\ clock \in 1..MaxSeconds /\ itemProjection \in ItemProjections(n)
      /\ InOrder(itemProjection)
  BY DEF ItemsInv, ItemsTyped, Items!Resend
<1>2. /\ itemProjection' = Items!Live(itemProjection, n, item)
      /\ UNCHANGED <<agent, changes, resumed, history, clock>>
  BY DEF Items!Resend, Items!Last
<1>3. \A a \in Agents \ resumed : IsEnded(itemProjection.subagents, a) =>
                                    \E i \in DOMAIN history : ShowsEnd(history[i], a)
  BY DEF ItemsInv, EndsMarked
<1>4. \A a : ShowsEnd(item, a) => \E i \in DOMAIN history : ShowsEnd(history[i], a)
  BY <1>1 DEF ShowsEnd
<1> HIDE DEF n, item
<1>5. /\ itemProjection' \in ItemProjections(n) /\ InOrder(itemProjection')
      /\ Len(itemProjection'.item_order) <= MaxItems
      /\ \A a \in Agents : IsEnded(itemProjection'.subagents, a) =>
                             IsEnded(itemProjection.subagents, a) \/ ShowsEnd(item, a)
  BY <1>1, <1>2, LiveEffect
<1>6. QED
  BY <1>2, <1>3, <1>4, <1>5, ProjectionReplaced DEF n

\* Rebuilding.
LEMMA RebuiltEffect ==
  ASSUME ItemsInv
  PROVE  /\ Items!Rebuilt \in ItemProjections(Len(history)) /\ InOrder(Items!Rebuilt)
         /\ Len(Items!Rebuilt.item_order) <= MaxItems
         /\ \A a \in Agents : IsEnded(Items!Rebuilt.subagents, a) =>
                                \E i \in DOMAIN history : ShowsEnd(history[i], a)
         /\ Cardinality(Named) <= MaxTasks =>
              \A a \in Agents : \A i \in DOMAIN history :
                ShowsEnd(history[i], a) => IsEnded(Items!Rebuilt.subagents, a)
<1> DEFINE p == Items!Replayed[Len(history)]
<1>1. history \in Seq(ItemRecords) /\ clock \in 1..MaxSeconds /\ Len(history) \in Nat
  BY DEF ItemsInv, ItemsTyped
<1>2. Items!Rebuilt = Items!Truncated(p)
  BY DEF Items!Rebuilt
<1>3. /\ p \in ItemProjections(Len(history)) /\ InOrder(p)
      /\ \A a \in Agents :
           IsEnded(p.subagents, a) => \E i \in DOMAIN history : ShowsEnd(history[i], a)
      /\ Cardinality(Named) <= MaxTasks =>
           \A a \in Agents : \A i \in DOMAIN history :
             ShowsEnd(history[i], a) => IsEnded(p.subagents, a)
  BY <1>1, ReplayHolds
<1> HIDE DEF p
<1>4. /\ Items!Rebuilt \in ItemProjections(Len(history)) /\ InOrder(Items!Rebuilt)
      /\ Items!Rebuilt.subagents = p.subagents
      /\ Len(Items!Rebuilt.item_order) <= MaxItems
  BY <1>1, <1>2, <1>3, TruncatedEffect
<1>5. QED
  BY <1>3, <1>4

LEMMA HydrateKeeps == ItemsInv /\ Items!Hydrate => ItemsInv'
<1> SUFFICES ASSUME ItemsInv, Items!Hydrate PROVE ItemsInv'
  OBVIOUS
<1>1. /\ itemProjection' = Items!Rebuilt
      /\ UNCHANGED <<agent, changes, resumed, history, clock>>
  BY DEF Items!Hydrate
<1>2. QED
  BY <1>1, RebuiltEffect, ProjectionReplaced

LEMMA TickKeeps == ItemsInv /\ (Items!Tick \/ UNCHANGED itemVars) => ItemsInv'
<1> SUFFICES ASSUME ItemsInv, Items!Tick \/ UNCHANGED itemVars PROVE ItemsInv'
  OBVIOUS
<1>1. UNCHANGED <<agent, changes, resumed, history, itemProjection>>
  BY DEF Items!Tick, itemVars
<1>2. clock' \in 1..MaxSeconds
  BY ItemsAssumption DEF ItemsInv, ItemsTyped, Items!Tick, itemVars
<1>3. ItemsTyped'
  BY <1>1, <1>2 DEF ItemsInv, ItemsTyped
<1>4. OpenCalls' /\ EndsLast' /\ EndsMarked'
  BY <1>1 DEF ItemsInv, OpenCalls, EndsLast, EndsMarked
<1>5. QED
  BY <1>1, <1>3, <1>4 DEF ItemsInv, InOrder

LEMMA ItemsNext == ItemsInv /\ [Items!Next]_itemVars => ItemsInv'
BY ChangeKeeps, BeginKeeps, CompleteKeeps, ResendKeeps, HydrateKeeps, TickKeeps DEF Items!Next

LEMMA ItemParts ==
  ASSUME [ChatNext]_allVars PROVE [Items!Next]_itemVars
BY DEF ChatNext, allVars

LEMMA ItemsInvariant == ChatSpec => []ItemsInv
<1>1. ChatInit => ItemsInv
  BY ItemsInit DEF ChatInit
<1>2. ItemsInv /\ [ChatNext]_allVars => ItemsInv'
  BY ItemParts, ItemsNext
<1>3. QED
  BY <1>1, <1>2, PTL DEF ChatSpec

\* The items of a thread are listed once and in order, a task has an end exactly
\* while it is ended, and a start does not bring an ended task back to life unless
\* its subagent was resumed or tasks were dropped (truncate_items,
\* project_item_subagents, projection_from_thread_read).
THEOREM ItemsAlwaysAgree == ChatSpec => []ItemsAgree
<1>1. ItemsInv => ItemsAgree
  <2> SUFFICES ASSUME ItemsInv
               PROVE  Items!ItemsInOrder /\ Items!EndsHaveTimes /\ Items!EndsSurvive
    BY DEF ItemsAgree
  <2>1. Items!ItemsInOrder
    BY DEF ItemsInv, InOrder, Items!ItemsInOrder
  <2>2. Items!EndsHaveTimes
    BY DEF ItemsInv, ItemsTyped, ItemProjections, TaskTables, WellEnded, Items!EndsHaveTimes
  <2>3. ASSUME Cardinality(Named) <= MaxTasks, NEW a \in Agents \ resumed,
               IsEnded(itemProjection.subagents, a)
        PROVE  IsEnded(Items!Rebuilt.subagents, a)
    <3>1. PICK i \in DOMAIN history : ShowsEnd(history[i], a)
      BY <2>3 DEF ItemsInv, EndsMarked
    <3>2. QED
      BY <2>3, <3>1, RebuiltEffect
  <2>4. Items!EndsSurvive
    BY <2>3, ItemsCardinality DEF Items!EndsSurvive, Named, IsEnded
  <2>5. QED
    BY <2>1, <2>2, <2>4
<1>2. QED
  BY <1>1, ItemsInvariant, PTL

------------------------------------------------------------------------------
\* No copy of a record that a task still holds undoes what another task stored: an
\* answered question stays answered, and a turn the row counts stays counted
\* (the question's record written by the presenter and by the chat's worker; the
\* projection's row written from memory and from rebuilding).
THEOREM StaleCopiesAlwaysLose == ChatSpec => StaleCopiesLose
<1>1. QuestionsInv /\ ThreadsInv /\ [ChatNext]_allVars =>
        [Questions!StaysResolved /\ Threads!KeepsTotals]_<<questionVars, threadVars>>
  <2>1. [ChatNext]_allVars => [Questions!Next]_questionVars /\ [Threads!Next]_threadVars
    BY DEF ChatNext, allVars
  <2>2. QED
    BY <2>1, RequestStaysResolved, TotalsKept
<1>2. QED
  BY <1>1, QuestionsInvariant, ThreadsInvariant, PTL DEF ChatSpec, StaleCopiesLose

------------------------------------------------------------------------------
(* Types. *)

\* What ThreadsInv leaves out of the types of ThreadProjections.
ThreadBounds == Len(events) <= MaxPending /\ troubles \in 0..MaxTroubles

LEMMA ThreadTypes == ThreadsInv /\ ThreadBounds => Threads!TypeOK
<1> SUFFICES ASSUME ThreadsInv, ThreadBounds PROVE Threads!TypeOK
  OBVIOUS
<1>1. ThreadsTyped /\ AllExact
  BY DEF ThreadsInv
<1>2. ASSUME NEW p \in {rebuilt, mem, threadRow, debounce, threadShown}
      PROVE  /\ p.status \in {"absent", "none", "inProgress", "completed", "failed"}
             /\ p.thread \in {"unknown", "healthy", "error"}
             /\ p.error \in {"none", "recoverable", "fatal"}
             /\ p.counted \subseteq Threads!Turns /\ p.total \in 0..2 * MaxTurns
  <2>1. p \in Projections /\ p.total = Cardinality(p.counted)
    BY <1>1 DEF AllExact, Exact
  <2>2. Cardinality(p.counted) \in Nat /\ Cardinality(p.counted) <= MaxTurns
    BY <2>1, FiniteTurns DEF Projections
  <2>3. p.total \in 0..2 * MaxTurns
    BY <2>1, <2>2, MaxTurnsAssumption
  <2>4. QED
    BY <2>1, <2>3 DEF Projections
<1>3. /\ truth.turn \in 0..MaxTurns /\ truth.state \in {"none", "inProgress", "completed", "failed"}
      /\ truth.thread \in {"healthy", "error"}
  BY <1>1 DEF ThreadsTyped
<1>4. QED
  BY <1>1, <1>2, <1>3 DEF Threads!TypeOK, ThreadBounds, ThreadsTyped

LEMMA TroubleBound ==
  ASSUME ThreadBounds, Threads!Trouble PROVE troubles' \in 0..MaxTroubles
BY BoundsAssumption DEF ThreadBounds, Threads!Trouble

LEMMA EmissionBound ==
  ASSUME NEW S, NEW new \in Seq(S), ThreadsTyped, ThreadBounds, Threads!Emit(new)
  PROVE  Len(events') <= MaxPending
<1>1. CASE phase = "down"
  BY <1>1 DEF Threads!Emit, ThreadBounds
<1>2. CASE phase # "down"
  <2>1. Len(events) + Len(new) <= MaxPending /\ events' = events \o new
    BY <1>2 DEF Threads!Emit
  <2>2. events \in Seq(Notices \cup S) /\ new \in Seq(Notices \cup S)
    <3>1. \A A, B : A \subseteq B => Seq(A) \subseteq Seq(B)
      OBVIOUS
    <3>2. QED
      BY <3>1 DEF ThreadsTyped
  <2>3. Len(events') = Len(events) + Len(new)
    BY <2>1, <2>2, ConcatProperties
  <2>4. QED
    BY <2>1, <2>3
<1>3. QED
  BY <1>1, <1>2

LEMMA ServerBound ==
  ASSUME ThreadsTyped, ThreadBounds, NEW e, NEW f, NEW next,
         Threads!Server(<<e>>, next) \/ Threads!Server(<<e, f>>, next)
  PROVE  Len(events') <= MaxPending
<1>1. <<e>> \in Seq({e, f}) /\ <<e, f>> \in Seq({e, f})
  OBVIOUS
<1>2. QED
  BY <1>1, EmissionBound DEF Threads!Server

LEMMA ThreadBoundsInit == Threads!Init => ThreadBounds
<1> SUFFICES ASSUME Threads!Init PROVE ThreadBounds
  OBVIOUS
<1>1. events = <<>> /\ troubles = 0
  BY DEF Threads!Init
<1>2. QED
  BY <1>1, BoundsAssumption, EmptySeq DEF ThreadBounds

LEMMA ThreadServerBounds ==
  ASSUME ThreadsTyped, ThreadBounds,
         \/ Threads!StartTurn \/ Threads!Progress \/ Threads!CompleteTurn \/ Threads!Hiccup
         \/ Threads!ChangeHealth \/ Threads!Replay
  PROVE  ThreadBounds'
<1>1. troubles' \in 0..MaxTroubles
  BY TroubleBound DEF Threads!StartTurn, Threads!Progress, Threads!CompleteTurn, Threads!Hiccup,
     Threads!ChangeHealth, Threads!Replay, ThreadBounds
<1>2. CASE Threads!CompleteTurn
  BY <1>1, <1>2, ServerBound, Zenon DEF Threads!CompleteTurn, ThreadBounds
<1>3. CASE ~Threads!CompleteTurn
  BY <1>1, <1>3, ServerBound, Zenon DEF Threads!StartTurn, Threads!Progress, Threads!Hiccup,
     Threads!ChangeHealth, Threads!Replay, ThreadBounds
<1>4. QED
  BY <1>2, <1>3

LEMMA ThreadBoundsNext ==
  ThreadsInv /\ ThreadBounds /\ [Threads!Next]_threadVars => ThreadBounds'
<1> SUFFICES ASSUME ThreadsInv, ThreadBounds, [Threads!Next]_threadVars PROVE ThreadBounds'
  OBVIOUS
<1>1. ThreadsTyped /\ Len(<<>>) <= MaxPending
  BY BoundsAssumption, EmptySeq DEF ThreadsInv
<1>2. CASE \/ Threads!StartTurn \/ Threads!Progress \/ Threads!CompleteTurn \/ Threads!Hiccup
           \/ Threads!ChangeHealth \/ Threads!Replay
  BY <1>1, <1>2, ThreadServerBounds
<1>3. CASE Threads!Boot \/ Threads!Restart
  BY <1>1, <1>3, TroubleBound DEF Threads!Boot, Threads!Restart, ThreadBounds
<1>4. CASE \/ Threads!Read \/ Threads!ReadFails \/ Threads!Install \/ Threads!IntervalEnds
           \/ Threads!HourPasses \/ Threads!Evict \/ Threads!Wake \/ Threads!Heartbeat
           \/ UNCHANGED threadVars
  BY <1>4, TroubleBound DEF Threads!Read, Threads!ReadFails, Threads!Install,
     Threads!InstallBoth, Threads!InstallRow, Threads!IntervalEnds, Threads!HourPasses,
     Threads!Evict, Threads!Wake, Threads!Heartbeat, threadVars, ThreadBounds
<1>5. CASE Threads!Handle
  <2>1. troubles' \in 0..MaxTroubles
    BY <1>5, TroubleBound DEF Threads!Handle, Threads!Persist, ThreadBounds
  <2>2. events' = Tail(events) /\ events # <<>>
    BY <1>5 DEF Threads!Handle
  <2>3. Len(events') = Len(events) - 1 /\ Len(events) \in Nat
    BY <1>1, <2>2, HeadTailProperties, LenProperties DEF ThreadsTyped
  <2>4. QED
    BY <2>1, <2>3, BoundsAssumption DEF ThreadBounds
<1>6. QED
  BY <1>2, <1>3, <1>4, <1>5 DEF Threads!Next

\* What StatusInv leaves out of the types of StatusMessages.
Contents == 0..MaxStatusChanges
StatusBounds ==
    /\ content \in Contents /\ print \in [Status!Comments -> 0..MaxStatusChanges + 1]
    /\ made \in 0..MaxButtons /\ comments \in 0..MaxComments /\ 0 \notin live
    /\ \A t \in Status!Tasks : statusCopy[t].content \in Contents /\ 0 \notin retired[t]
    /\ statusFaults \in 0..MaxStatusFaults

LEMMA StatusTypes == StatusInv /\ StatusBounds => Status!TypeOK
<1> SUFFICES ASSUME StatusInv, StatusBounds PROVE Status!TypeOK
  OBVIOUS
<1>1. StatusTyped /\ AllMade /\ made \in 0..MaxButtons /\ MaxButtons \in Nat
  BY BoundsAssumption DEF StatusInv, StatusBounds
<1>2. \A b \in Nat : b <= made => b \in 0..MaxButtons /\ (b # 0 => b \in Status!Buttons)
  BY <1>1 DEF Status!Buttons
<1>3. live \subseteq Status!Buttons
  BY <1>1, <1>2 DEF StatusTyped, AllMade, StatusBounds
<1>4. statusShown \in [Status!Comments ->
                         [button : 0..MaxButtons, confirm : BOOLEAN, fresh : BOOLEAN]]
  <2>1. ASSUME NEW c \in Status!Comments
        PROVE  statusShown[c] \in [button : 0..MaxButtons, confirm : BOOLEAN, fresh : BOOLEAN]
    <3>1. statusShown[c] \in ShownButtons /\ statusShown[c].button <= made
      BY <1>1 DEF StatusTyped, AllMade
    <3>2. statusShown[c].button \in 0..MaxButtons
      BY <1>2, <3>1 DEF ShownButtons
    <3>3. QED
      BY <3>1, <3>2 DEF ShownButtons
  <2>2. QED
    BY <1>1, <2>1 DEF StatusTyped
<1>5. ASSUME NEW t \in Status!Tasks
      PROVE  /\ statusCopy[t].comment \in 0..MaxComments /\ statusCopy[t].content \in Contents
             /\ button[t] \in 0..MaxButtons /\ retired[t] \subseteq Status!Buttons
  BY <1>1, <1>2 DEF StatusTyped, AllMade, StatusBounds, StatusCopies
<1>6. QED
  BY <1>1, <1>3, <1>4, <1>5 DEF StatusTyped, StatusBounds, Status!TypeOK, StatusRows, Places,
     Contents

LEMMA StatusFaultBound ==
  ASSUME StatusBounds, Status!Fault PROVE statusFaults' \in 0..MaxStatusFaults
BY BoundsAssumption DEF StatusBounds, Status!Fault

LEMMA StatusBoundsInit == Status!Init => StatusBounds
<1> SUFFICES ASSUME Status!Init PROVE StatusBounds
  OBVIOUS
<1>1. /\ content = 0 /\ made = 0 /\ comments = 0 /\ live = {} /\ statusFaults = 0
      /\ print = [c \in Status!Comments |-> MaxStatusChanges + 1]
      /\ \A t \in Status!Tasks : statusCopy[t].content = 0 /\ retired[t] = {}
  BY DEF Status!Init, Status!NoCopy, Status!Unprinted
<1>2. /\ 0 \in Contents /\ 0 \in 0..MaxButtons /\ 0 \in 0..MaxComments /\ 0 \in 0..MaxStatusFaults
      /\ MaxStatusChanges + 1 \in 0..MaxStatusChanges + 1
  BY BoundsAssumption, MaxCommentsAssumption DEF Contents
<1>3. QED
  BY <1>1, <1>2 DEF StatusBounds

LEMMA MarkBounds ==
  ASSUME StatusBounds, NEW t, NEW kept, 0 \notin kept, Status!Mark(t, kept)
  PROVE  made' \in 0..MaxButtons /\ 0 \notin live'
<1>1. CASE Status!Terminal(t)
  BY <1>1 DEF Status!Mark, StatusBounds
<1>2. CASE ~Status!Terminal(t)
  <2>1. /\ made < MaxButtons /\ made' = made + 1
        /\ live' = kept \cup IF row.closed THEN {} ELSE {made'}
    BY <1>2 DEF Status!Mark
  <2>2. made' \in 0..MaxButtons /\ made' # 0
    BY <2>1, BoundsAssumption DEF StatusBounds
  <2>3. QED
    BY <2>1, <2>2
<1>3. QED
  BY <1>1, <1>2

\* What a step does to the copies and to what the tasks retired.
TasksBounds ==
    \A t \in Status!Tasks : statusCopy[t].content \in Contents /\ 0 \notin retired[t]

LEMMA StatusDoneBounds ==
  ASSUME StatusTyped, StatusBounds, NEW t \in Status!Tasks, Status!Done(t)
  PROVE  TasksBounds'
<1>1. 0 \in Contents /\ Status!NoCopy.content = 0
  BY BoundsAssumption DEF Contents, Status!NoCopy
<1>2. QED
  BY <1>1, DoneEffect DEF Alone, StatusBounds, TasksBounds

LEMMA StatusReadBounds ==
  ASSUME StatusTyped, StatusBounds, NEW t \in Status!Tasks, NEW seen \in Contents, NEW force,
         Status!Read(t, seen, force)
  PROVE  TasksBounds'
BY DEF Status!Read, StatusTyped, StatusBounds, TasksBounds

LEMMA UpdateBounds ==
  ASSUME StatusTyped, StatusBounds, NEW t \in Status!Tasks, Status!Update(t)
  PROVE  StatusBounds'
<1> USE DEF StatusBounds
<1>1. CASE Status!Ensure(t)
  <2>1. made' \in 0..MaxButtons /\ 0 \notin live'
    BY <1>1, MarkBounds DEF Status!Ensure
  <2>2. retired' = [retired EXCEPT ![t] = live \ live']
    BY <1>1 DEF Status!Ensure
  <2>3. \A u \in Status!Tasks : 0 \notin retired'[u]
    BY <2>2 DEF StatusTyped
  <2>4. QED
    BY <1>1, <2>1, <2>3 DEF Status!Ensure
<1>2. CASE Status!Send(t)
  <2>1. comments' \in 0..MaxComments
    BY <1>2, MaxCommentsAssumption DEF Status!Send
  <2>2. statusCopy' = [statusCopy EXCEPT ![t] = [statusCopy[t] EXCEPT !.comment = comments']]
    BY <1>2 DEF Status!Send
  <2>3. \A u \in Status!Tasks : statusCopy'[u].content = statusCopy[u].content
    BY <2>2 DEF StatusTyped, StatusCopies
  <2>4. QED
    BY <1>2, <2>1, <2>3 DEF Status!Send
<1>3. CASE Status!SendFails(t)
  BY <1>3, StatusFaultBound, StatusDoneBounds DEF Status!SendFails, TasksBounds
<1>4. ASSUME NEW c, print' = [print EXCEPT ![c] = statusCopy[t].content]
      PROVE  print' \in [Status!Comments -> 0..MaxStatusChanges + 1]
  <2>1. statusCopy[t].content \in 0..MaxStatusChanges + 1
    BY BoundsAssumption DEF Contents
  <2>2. QED
    BY <1>4, <2>1
<1>5. CASE Status!StoreComment(t)
  BY <1>4, <1>5 DEF Status!StoreComment
<1>6. CASE Status!Skip(t)
  BY <1>6, StatusDoneBounds DEF Status!Skip, TasksBounds
<1>7. CASE Status!Retire(t)
  <2>1. made' \in 0..MaxButtons /\ 0 \notin live'
    BY <1>7, MarkBounds DEF Status!Retire
  <2>2. \A u \in Status!Tasks : 0 \notin retired'[u]
    BY <1>7 DEF Status!Retire, StatusTyped
  <2>3. QED
    BY <1>7, <2>1, <2>2 DEF Status!Retire
<1>8. CASE Status!Edit(t)
  BY <1>8 DEF Status!Edit
<1>9. CASE Status!StorePrint(t)
  BY <1>4, <1>9, StatusDoneBounds DEF Status!StorePrint, TasksBounds
<1>10. CASE Status!EditFails(t)
  <2>1. 0 \notin live'
    BY <1>10 DEF Status!EditFails
  <2>2. QED
    BY <1>10, <2>1, StatusFaultBound, StatusDoneBounds DEF Status!EditFails, TasksBounds
<1>11. QED
  BY <1>1, <1>2, <1>3, <1>5, <1>6, <1>7, <1>8, <1>9, <1>10 DEF Status!Update

LEMMA StatusBoundsNext ==
  StatusInv /\ StatusBounds /\ [Status!Next]_statusVars => StatusBounds'
<1> SUFFICES ASSUME StatusTyped, StatusBounds, [Status!Next]_statusVars PROVE StatusBounds'
  BY DEF StatusInv
<1> USE DEF StatusBounds
<1>1. 0 \in Contents /\ {"chat", "events", "debounce", "heartbeat"} = Status!Tasks
  BY BoundsAssumption DEF Contents, Status!Tasks
<1>2. ASSUME NEW t \in Status!Tasks, Status!Update(t) PROVE StatusBounds'
  BY <1>2, UpdateBounds
<1>3. CASE Status!Event
  <2>1. content' \in Contents
    BY <1>3, BoundsAssumption DEF Status!Event, Contents
  <2>2. \A t \in Status!Tasks : statusCopy'[t].content \in Contents
    <3>1. \/ statusCopy' = statusCopy
          \/ statusCopy' = [statusCopy EXCEPT !["debounce"] = Status!NoCopy]
          \/ statusCopy' = [statusCopy EXCEPT !["debounce"] = Status!NoCopy,
                              !["events"] = [closed |-> FALSE, comment |-> row.comment,
                                             content |-> content', force |-> TRUE]]
      BY <1>3, Zenon DEF Status!Event, Status!tasks
    <3>2. Status!NoCopy.content \in Contents
      BY <1>1 DEF Status!NoCopy
    <3>3. QED
      BY <2>1, <3>1, <3>2 DEF StatusTyped
  <2>3. \A t \in Status!Tasks : 0 \notin retired'[t]
    BY <1>3 DEF Status!Event, Status!tasks, StatusTyped
  <2>4. QED
    BY <1>3, <2>1, <2>2, <2>3 DEF Status!Event
<1>4. CASE Status!Wake \/ Status!Heartbeat \/ Status!Provision
  <2>1. TasksBounds'
    BY <1>1, <1>4, StatusDoneBounds, StatusReadBounds DEF Status!Wake, Status!Heartbeat,
       Status!Provision
  <2>2. QED
    BY <1>4, <2>1 DEF Status!Wake, Status!Heartbeat, Status!Provision, TasksBounds
<1>5. CASE Status!Cancel
  <2>1. TasksBounds'
    BY <1>1, <1>5, StatusReadBounds DEF Status!Cancel
  <2>2. live' \subseteq live
    BY <1>5 DEF Status!Cancel, Status!Take
  <2>3. QED
    BY <1>5, <2>1, <2>2 DEF Status!Cancel, TasksBounds
<1>6. CASE Status!AskUnwatch \/ Status!Execute
  <2>1. made' \in 0..MaxButtons /\ 0 \notin live'
    BY <1>6, BoundsAssumption DEF Status!AskUnwatch, Status!Execute
  <2>2. PICK c : c.content = 0 /\ statusCopy' = [statusCopy EXCEPT !["chat"] = c]
    BY <1>6 DEF Status!AskUnwatch, Status!Execute, Status!NoCopy
  <2>3. \A t \in Status!Tasks : statusCopy'[t].content \in Contents
    BY <1>1, <2>2 DEF StatusTyped
  <2>4. QED
    BY <1>6, <2>1, <2>3 DEF Status!AskUnwatch, Status!Execute
<1>7. CASE Status!Ask \/ Status!Freeze
  <2>1. TasksBounds' /\ statusFaults' \in 0..MaxStatusFaults
    BY <1>1, <1>7, StatusDoneBounds, StatusFaultBound DEF Status!Ask, Status!Freeze
  <2>2. QED
    BY <1>7, <2>1 DEF Status!Ask, Status!Freeze, TasksBounds
<1>8. CASE Status!Restart
  <2>1. \A t \in Status!Tasks : statusCopy'[t].content = 0 /\ retired'[t] = {}
    BY <1>8 DEF Status!Restart, Status!NoCopy
  <2>2. QED
    BY <1>1, <1>8, <2>1, StatusFaultBound DEF Status!Restart
<1>9. CASE UNCHANGED statusVars
  BY <1>9 DEF statusVars
<1>10. QED
  BY <1>2, <1>3, <1>4, <1>5, <1>6, <1>7, <1>8, <1>9 DEF Status!Next

LEMMA StatusTypesHold == ChatSpec => [](Status!TypeOK)
<1> DEFINE Inv == StatusInv /\ StatusBounds
<1>1. ChatInit => Inv
  BY StatusStart, StatusBoundsInit DEF ChatInit
<1>2. Inv /\ [ChatNext]_allVars => Inv'
  <2>1. [ChatNext]_allVars => [Status!Next]_statusVars
    BY DEF ChatNext, allVars
  <2>2. QED
    BY <2>1, StatusNext, StatusBoundsNext
<1>3. Inv => Status!TypeOK
  BY StatusTypes
<1>4. QED
  BY <1>1, <1>2, <1>3, PTL DEF ChatSpec

LEMMA ThreadTypesHold == ChatSpec => [](Threads!TypeOK)
<1>1. ChatInit => ThreadBounds
  BY ThreadBoundsInit DEF ChatInit
<1>2. ThreadBounds /\ ThreadsInv /\ [ChatNext]_allVars => ThreadBounds'
  BY ThreadParts, ThreadBoundsNext
<1>3. ThreadsInv /\ ThreadBounds => Threads!TypeOK
  BY ThreadTypes
<1>4. QED
  BY <1>1, <1>2, <1>3, ThreadsInvariant, PTL DEF ChatSpec

LEMMA ItemTypesHold == ChatSpec => [](Items!TypeOK)
<1>1. ItemsInv => Items!TypeOK
  <2> SUFFICES ASSUME ItemsInv PROVE Items!TypeOK
    OBVIOUS
  <2>1. ItemsTyped
    BY DEF ItemsInv
  <2>2. 1..Len(history) \subseteq Items!Ids
    BY <2>1, ItemsAssumption, LenProperties DEF ItemsTyped, Items!Ids
  <2>3. itemProjection.items \subseteq Items!Ids
    BY <2>1, <2>2 DEF ItemsTyped, ItemProjections
  <2>4. itemProjection.subagents \in [Agents -> Items!Task]
    BY <2>1 DEF ItemsTyped, ItemProjections, TaskTables
  <2>5. QED
    BY <2>1, <2>3, <2>4 DEF ItemsTyped, Items!TypeOK
<1>2. QED
  BY <1>1, ItemsInvariant, PTL

LEMMA EngineTypesHold == ChatSpec => []TypeOK
<1>1. ChatInit => EngineInv
  BY EngineInvInit DEF ChatInit
<1>2. EngineInv /\ [ChatNext]_allVars => EngineInv'
  <2>1. [ChatNext]_allVars => [Next]_vars
    BY DEF ChatNext, allVars
  <2>2. QED
    BY <2>1, EngineInvStep
<1>3. EngineInv => TypeOK
  BY DEF EngineInv
<1>4. QED
  BY <1>1, <1>2, <1>3, PTL DEF ChatSpec

\* Every variable of the workflows of a chat keeps its type and its bound: no task is at
\* a place where its handler is not, copies name what exists, and no count passes its limit.
THEOREM TypesHold == ChatSpec => []TypesOK
<1>1. ChatInit => part \in Parts
  BY DEF ChatInit
<1>2. part \in Parts /\ [ChatNext]_allVars => (part \in Parts)'
  BY DEF ChatNext, allVars
<1>3. /\ TypeOK /\ Questions!TypeOK /\ Plans!TypeOK /\ Wizard!TypeOK /\ Sessions!TypeOK
      /\ Status!TypeOK /\ Totp!TypeOK /\ Threads!TypeOK /\ Items!TypeOK
      /\ part \in Parts
      => TypesOK
  BY PartsAssumption DEF TypesOK
<1>4. QED
  BY <1>1, <1>2, <1>3, EngineTypesHold, QuestionTypesHold, PlanTypesHold, WizardTypesHold,
     SessionTypesHold, StatusTypesHold, TotpTypesHold, ThreadTypesHold, ItemTypesHold,
     PTL DEF ChatSpec
==============================================================================
