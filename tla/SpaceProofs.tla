----------------------------- MODULE SpaceProofs -----------------------------
(* For any number of threads, drafts, faults, codes, workers and prompts: the   *)
(* first prompt of a space is safe and a closed space stays closed, the wizard  *)
(* publishes a draft once, a code opens one window, and the projection of the   *)
(* engine keeps its four promises.                                              *)
(*                                                                              *)
(* The arguments.  A copy of a row that a task holds may be old, but what it    *)
(* says about start and closing is true for good (CopySound), so that storing   *)
(* it undoes nothing.  An interaction of the wizard is claimed before it is     *)
(* published, by one task, and its buttons belong to its phase (Offered), so    *)
(* that the profile is complete when a directory is chosen.  A code is spent    *)
(* before its window opens (CodesSpent).  For the engine: every dispatch of a   *)
(* prompt but the present one was proved absent, and what is known of the       *)
(* prompt never runs ahead of what became of the present one (PromptInv); so a  *)
(* prompt that waits has no turn, and the end of a turn can only meet the       *)
(* prompt at the head of the queue, and it takes it out.  Types and bounds are  *)
(* at the end: the epoch of the unlocks counts the locks, less those about to   *)
(* be made (EpochBounds).                                                       *)
EXTENDS Workflows, FiniteSetTheorems, TLAPS

\* SessionSpaces: the places of the chat's worker, and the job it holds.
Activating == {"activate", "repair", "register", "intent", "start", "accepted", "active", "clean"}
OfRow == Activating \cup {"rewrite", "drop"}
OfSession == {"root", "submit", "turn"}
SessionPlaces == OfRow \cup OfSession \cup {"idle", "chat"}
Jobs == [at : Roots \cup {"none"}, row : Sessions!Rows, session : Sessions!Records]

SessionsTyped ==
    /\ space \in [Roots -> Sessions!Rows]
    /\ payload \subseteq Roots /\ sessionStarted \subseteq Roots
    /\ queued \subseteq Roots /\ confirms \subseteq Roots
    /\ byThread \in [Sessions!Threads -> Sessions!Records] /\ byChat \in Sessions!Records
    /\ owner \in [Sessions!Threads -> Roots \cup {"none"}]
    /\ sessionPc \in SessionPlaces
    /\ job \in Jobs /\ writer \in Jobs /\ late \in Sessions!Records

\* A row that may be stored: what it says holds of a space for good.
Sound(s, r) ==
    /\ r.lifecycle # "closed" => r.generation = 0
    /\ r.lifecycle = "active" => s \in sessionStarted
RowsSound ==
    \A s \in Roots :
      /\ Sound(s, space[s])
      /\ space[s].thread # 0 => space[s].bound
      /\ space[s].lifecycle = "closed" => space[s].bound

\* A copy of a row may be old, but one of a closed row is not.
CopySound(s, r) ==
    /\ Sound(s, r)
    /\ r.thread # 0 => space[s].bound
    /\ r.lifecycle = "closed" => r = space[s]
JobSound ==
    /\ sessionPc \in OfRow => job.at \in Roots /\ CopySound(job.at, job.row)
    /\ sessionPc \in Activating => space[job.at].bound /\ job.row.lifecycle # "closed"
    /\ sessionPc \in Activating \ {"activate"} => job.row.thread # 0
    /\ sessionPc \in OfSession => job.session.thread # 0
    /\ sessionPc = "drop" => space[job.at].bound
    /\ sessionPc \in {"active", "clean"} => job.at \in sessionStarted
CopiesSound ==
    /\ JobSound
    /\ writer # Sessions!Idle => writer.at \in Roots /\ CopySound(writer.at, writer.row)
    /\ \A s \in confirms : space[s].bound

SessionsInv == SessionsTyped /\ RowsSound /\ CopiesSound /\ Sessions!FirstPromptKept

LEMMA IdleTyped ==
  /\ Sessions!NoRow \in Sessions!Rows /\ Sessions!NoRecord \in Sessions!Records
  /\ Sessions!Idle \in Jobs
BY MaxThreadsAssumption DEF Sessions!NoRow, Sessions!Rows, Sessions!NoRecord, Sessions!Records,
  Sessions!Idle, Jobs

LEMMA SessionsInit == Sessions!Init => SessionsInv
<1> SUFFICES ASSUME Sessions!Init PROVE SessionsInv
  OBVIOUS
<1>2. SessionsTyped
  BY IdleTyped DEF Sessions!Init, SessionsTyped, SessionPlaces
<1>3. RowsSound
  BY DEF Sessions!Init, RowsSound, Sound, Sessions!NoRow
<1>4. CopiesSound
  BY DEF Sessions!Init, CopiesSound, JobSound, OfRow, Activating, OfSession
<1>5. QED
  BY <1>2, <1>3, <1>4 DEF Sessions!Init, SessionsInv, Sessions!FirstPromptKept

\* What storing a copy does to the rows.
LEMMA UpsertRows ==
  ASSUME SessionsInv, NEW s \in Roots, NEW copied \in Sessions!Rows,
         s \in sessionStarted' \/ copied.lifecycle # "active",
         copied.lifecycle # "closed" => copied.generation = 0,
         copied.thread # 0 => space[s].bound,
         copied.lifecycle = "closed" => copied = space[s],
         sessionStarted \subseteq sessionStarted',
         Sessions!Upsert(s, copied)
  PROVE  /\ space' \in [Roots -> Sessions!Rows]
         /\ RowsSound'
         /\ Sessions!StaysClosed
         /\ \A r \in Roots : space[r].bound => space'[r].bound
<1> DEFINE new == [copied EXCEPT !.bound = copied.bound \/ space[s].bound]
<1>1. new \in Sessions!Rows /\ space[s] \in Sessions!Rows
  BY DEF SessionsInv, SessionsTyped, Sessions!Rows
<1>2. /\ new.bound = (copied.bound \/ space[s].bound) /\ new.lifecycle = copied.lifecycle
      /\ new.thread = copied.thread /\ new.generation = copied.generation
  BY DEF Sessions!Rows
<1>3. copied = space[s] => new = space[s]
  BY <1>1 DEF Sessions!Rows
<1> HIDE DEF new
<1>4. \/ space' = space
      \/ /\ space' = [space EXCEPT ![s] = new]
         /\ space[s].lifecycle # "closed" \/ copied.lifecycle = "closed"
  BY DEF Sessions!Upsert, Sessions!Stored, Sessions!Copied, new
<1>5. \A r \in Roots : \/ space'[r] = space[r]
                         \/ /\ r = s /\ space'[r] = new
                            /\ space[s].lifecycle # "closed" \/ copied.lifecycle = "closed"
  BY <1>4 DEF SessionsInv, SessionsTyped
<1>6. space' \in [Roots -> Sessions!Rows]
  BY <1>1, <1>4 DEF SessionsInv, SessionsTyped
<1>7. Sessions!StaysClosed
  BY <1>3, <1>5 DEF Sessions!StaysClosed
<1>8. \A r \in Roots : space[r].bound => space'[r].bound
  BY <1>2, <1>5
<1>9. RowsSound'
  BY <1>2, <1>3, <1>5 DEF RowsSound, Sound, SessionsInv
<1>10. QED
  BY <1>6, <1>7, <1>8, <1>9

\* The rows change in one of three ways: a copy is stored, a root is bound, or a
\* space is closed.
LEMMA RowsNext ==
  ASSUME SessionsInv, [Sessions!Next]_(Sessions!vars)
  PROVE  /\ space' \in [Roots -> Sessions!Rows]
         /\ RowsSound'
         /\ Sessions!StaysClosed
         /\ \A r \in Roots : space[r].bound => space'[r].bound
         /\ sessionStarted \subseteq sessionStarted'
<1> USE DEF SessionsInv, SessionsTyped, Jobs
<1>1. /\ sessionStarted \subseteq sessionStarted'
      /\ sessionStarted' = sessionStarted \/ sessionPc = "accepted"
  BY Zenon DEF Sessions!Next, Sessions!Chat, Sessions!vars, Sessions!rows, Sessions!Totp,
    Sessions!NativeCommentPost, Sessions!PlanMode, Sessions!Text, Sessions!PromptCommand,
    Sessions!Attachment, Sessions!ReviewOrCancel, Sessions!Queue, Sessions!Unwatch,
    Sessions!Press, Sessions!Activate, Sessions!Rewrite, Sessions!SetRoot, Sessions!Submit,
    Sessions!SetThreadTurn, Sessions!SetChatTurn, Sessions!Close, Sessions!TurnEnds,
    Sessions!TurnEnded, Sessions!ReadRow, Sessions!WriteRow, Sessions!Restart,
    Sessions!GetThread, Sessions!ActivationFails, Sessions!StoreThread, Sessions!Register,
    Sessions!CheckIntent, Sessions!StartAccepted, Sessions!StartUnclear,
    Sessions!RecordStarted, Sessions!StoreActive, Sessions!DeletePayload, Sessions!Step
<1>2. CASE UNCHANGED space
  BY <1>1, <1>2 DEF RowsSound, Sound, Sessions!StaysClosed
<1>3. CASE Sessions!Rewrite
  BY <1>1, <1>3, UpsertRows DEF Sessions!Rewrite, CopiesSound, JobSound, CopySound, Sound, OfRow
<1>4. CASE Sessions!WriteRow
  BY <1>1, <1>4, UpsertRows DEF Sessions!WriteRow, CopiesSound, JobSound, CopySound, Sound
<1>5. CASE Sessions!StoreThread \/ Sessions!Register \/ Sessions!StartUnclear
  <2> DEFINE repaired == Sessions!Repaired
  <2>1. job.at \in Roots /\ Sessions!Upsert(job.at, repaired) /\ sessionPc \in Activating
    BY <1>5 DEF Sessions!StoreThread, Sessions!Register, Sessions!StartUnclear, OfRow,
      Activating, Sessions!Step, CopiesSound, JobSound
  <2>2. /\ repaired \in Sessions!Rows /\ repaired.lifecycle = "repair_required"
        /\ repaired.generation = job.row.generation /\ repaired.thread = job.row.thread
    BY DEF Sessions!Repaired, Sessions!Rows
  <2> HIDE DEF repaired
  <2>3. QED
    BY <1>1, <2>1, <2>2, UpsertRows DEF CopiesSound, JobSound, CopySound, Sound, OfRow
<1>6. CASE Sessions!StoreActive
  <2> DEFINE active == [job.row EXCEPT !.lifecycle = "active"]
  <2>1. /\ job.at \in Roots /\ Sessions!Upsert(job.at, active) /\ sessionPc = "active"
    BY <1>6 DEF Sessions!StoreActive, OfRow, Activating, Sessions!Step, CopiesSound, JobSound
  <2>2. /\ active \in Sessions!Rows /\ active.lifecycle = "active"
        /\ active.generation = job.row.generation /\ active.thread = job.row.thread
    BY DEF Sessions!Rows
  <2> HIDE DEF active
  <2>3. QED
    BY <1>1, <2>1, <2>2, UpsertRows DEF CopiesSound, JobSound, CopySound, Sound, OfRow, Activating
<1>7. ASSUME NEW s \in Roots, Sessions!NativeCommentPost(s) PROVE
        /\ space' \in [Roots -> Sessions!Rows]
        /\ RowsSound' /\ Sessions!StaysClosed
        /\ \A r \in Roots : space[r].bound => space'[r].bound
  <2> DEFINE new == [space[s] EXCEPT !.bound = TRUE]
  <2>1. /\ new \in Sessions!Rows /\ new.bound /\ new.lifecycle = space[s].lifecycle
        /\ new.generation = space[s].generation /\ new.thread = space[s].thread
    BY DEF Sessions!Rows
  <2>2. space' = [space EXCEPT ![s] = new] /\ ~space[s].bound /\ UNCHANGED sessionStarted
    BY <1>7 DEF Sessions!NativeCommentPost
  <2> HIDE DEF new
  <2>3. \A r \in Roots : space'[r] = IF r = s THEN new ELSE space[r]
    BY <2>2
  <2>4. QED
    BY <2>1, <2>2, <2>3 DEF RowsSound, Sound, Sessions!StaysClosed
<1>8. CASE Sessions!Close
  <2> DEFINE s == job.at
             closed == [space[s] EXCEPT !.lifecycle = "closed"]
             new == [closed EXCEPT !.generation = 1]
  <2>1. s \in Roots /\ space[s].bound /\ job.row.generation \in 0..1
    BY <1>8 DEF Sessions!Close, OfRow, CopiesSound, JobSound, Sessions!Rows
  <2>2. CASE Sessions!Closes(s, job.row.generation)
    <3>1. space[s].generation = 0 /\ job.row.generation = 0 /\ space[s].lifecycle # "closed"
      BY <2>1, <2>2 DEF Sessions!Closes, RowsSound, Sound
    <3>2. space' = [space EXCEPT ![s] = new]
      <4>1. space' = [space EXCEPT ![s].lifecycle = "closed", ![s].generation = 1]
        BY <1>8, <2>2, <3>1 DEF Sessions!Close, Sessions!CloseRow
      <4> HIDE DEF SessionsInv
      <4>2. QED
        BY <2>1, <4>1 DEF SessionsInv
    <3>3. /\ new \in Sessions!Rows /\ new.lifecycle = "closed" /\ new.bound = space[s].bound
          /\ new.generation = 1
      <4>1. space[s] \in Sessions!Rows
        BY <2>1
      <4>2. closed \in Sessions!Rows /\ closed.lifecycle = "closed"
            /\ closed.bound = space[s].bound
        BY <4>1 DEF Sessions!Rows
      <4> HIDE DEF closed
      <4>3. QED
        BY <4>2 DEF Sessions!Rows
    <3> HIDE DEF new
    <3>4. \A r \in Roots : space'[r] = IF r = s THEN new ELSE space[r]
      BY <3>2
    <3>5. QED
      BY <1>1, <2>1, <3>1, <3>2, <3>3, <3>4 DEF RowsSound, Sound, Sessions!StaysClosed
  <2>3. QED
    BY <1>2, <1>8, <2>2 DEF Sessions!Close, Sessions!CloseRow
<1>9. QED
  BY <1>1, <1>2, <1>3, <1>4, <1>5, <1>6, <1>7, <1>8, Zenon DEF Sessions!Next, Sessions!Chat,
    Sessions!vars, Sessions!rows, Sessions!Totp, Sessions!PlanMode, Sessions!Text,
    Sessions!PromptCommand, Sessions!Attachment, Sessions!ReviewOrCancel, Sessions!Queue,
    Sessions!Unwatch, Sessions!Press, Sessions!Activate, Sessions!SetRoot, Sessions!Submit,
    Sessions!SetThreadTurn, Sessions!SetChatTurn, Sessions!TurnEnds, Sessions!TurnEnded,
    Sessions!ReadRow, Sessions!Restart, Sessions!GetThread, Sessions!ActivationFails,
    Sessions!CheckIntent, Sessions!StartAccepted, Sessions!RecordStarted,
    Sessions!DeletePayload, Sessions!Step

\* A copy stays sound whatever is stored in the meantime.
LEMMA CopyStays ==
  ASSUME NEW s \in Roots, NEW copied, CopySound(s, copied), Sessions!StaysClosed,
         space[s].bound => space'[s].bound, sessionStarted \subseteq sessionStarted'
  PROVE  /\ Sound(s, copied)'
         /\ copied.thread # 0 => space'[s].bound
         /\ copied.lifecycle = "closed" => copied = space'[s]
BY DEF CopySound, Sound, Sessions!StaysClosed

\* A row that is read is a sound copy.
LEMMA CopyRead ==
  ASSUME RowsSound, NEW s \in Roots PROVE CopySound(s, space[s])
BY DEF RowsSound, CopySound

LEMMA ConfirmsNext ==
  ASSUME SessionsInv, [Sessions!Next]_(Sessions!vars)
  PROVE  \A s \in confirms' : s \in Roots /\ space'[s].bound
<1> USE DEF SessionsInv, SessionsTyped
<1>1. \A s \in confirms : s \in Roots /\ space'[s].bound
  BY RowsNext DEF CopiesSound, JobSound
<1>2. CASE confirms' \subseteq confirms
  BY <1>1, <1>2
<1>3. ASSUME NEW s \in Roots, Sessions!Unwatch(s)
      PROVE  \A r \in confirms' : r \in Roots /\ space'[r].bound
  <2>1. byChat.thread # 0 /\ UNCHANGED space
        /\ confirms' = confirms \cup Sessions!SpacesOf(byChat)
    BY <1>3, MaxThreadsAssumption DEF Sessions!Unwatch, Sessions!Records, Sessions!Threads
  <2>2. \A r \in Sessions!SpacesOf(byChat) : r \in Roots /\ space[r].bound
    BY <2>1 DEF RowsSound, Sessions!SpacesOf
  <2>3. QED
    BY <1>1, <2>1, <2>2
<1>4. CASE Sessions!Close
  <2>1. confirms' \subseteq confirms
    BY <1>4 DEF Sessions!Close, Sessions!CloseRow
  <2>2. QED
    BY <1>2, <2>1
<1>5. ASSUME NEW s \in Roots, Sessions!Press(s) PROVE confirms' \subseteq confirms
  BY <1>5 DEF Sessions!Press
<1>6. confirms' = confirms \/ confirms' \subseteq confirms \/ Sessions!Close
      \/ \E s \in Roots : Sessions!Unwatch(s)
  BY <1>5, Zenon DEF Sessions!Next, Sessions!Chat, Sessions!Activate, Sessions!vars,
     Sessions!rows, Sessions!registry, Sessions!Totp,
    Sessions!NativeCommentPost, Sessions!PlanMode, Sessions!Text, Sessions!PromptCommand,
    Sessions!Attachment, Sessions!ReviewOrCancel, Sessions!Queue, Sessions!Unwatch,
    Sessions!Press, Sessions!Rewrite, Sessions!SetRoot, Sessions!Submit,
    Sessions!SetThreadTurn, Sessions!SetChatTurn, Sessions!Close, Sessions!TurnEnds,
    Sessions!TurnEnded, Sessions!ReadRow, Sessions!WriteRow, Sessions!Restart,
    Sessions!GetThread, Sessions!ActivationFails, Sessions!StoreThread, Sessions!Register,
    Sessions!CheckIntent, Sessions!StartAccepted, Sessions!StartUnclear,
    Sessions!RecordStarted, Sessions!StoreActive, Sessions!DeletePayload, Sessions!Step
<1>7. QED
  BY <1>2, <1>3, <1>4, <1>6

\* The first prompt of a space is dropped only once it is known to have started.
LEMMA FirstPromptNext ==
  ASSUME SessionsInv, [Sessions!Next]_(Sessions!vars)
  PROVE  Sessions!FirstPromptKept'
<1>1. payload' = payload \/ Sessions!DeletePayload
  BY Zenon DEF Sessions!Next, Sessions!Chat, Sessions!Activate, Sessions!vars, Sessions!rows,
     Sessions!registry, Sessions!Totp,
    Sessions!NativeCommentPost, Sessions!PlanMode, Sessions!Text, Sessions!PromptCommand,
    Sessions!Attachment, Sessions!ReviewOrCancel, Sessions!Queue, Sessions!Unwatch,
    Sessions!Press, Sessions!Rewrite, Sessions!SetRoot, Sessions!Submit,
    Sessions!SetThreadTurn, Sessions!SetChatTurn, Sessions!Close, Sessions!TurnEnds,
    Sessions!TurnEnded, Sessions!ReadRow, Sessions!WriteRow, Sessions!Restart,
    Sessions!GetThread, Sessions!ActivationFails, Sessions!StoreThread, Sessions!Register,
    Sessions!CheckIntent, Sessions!StartAccepted, Sessions!StartUnclear,
    Sessions!RecordStarted, Sessions!StoreActive, Sessions!DeletePayload, Sessions!Step
<1>2. sessionStarted \subseteq sessionStarted'
  BY RowsNext
<1>3. CASE Sessions!DeletePayload
  BY <1>2, <1>3 DEF Sessions!DeletePayload, SessionsInv, CopiesSound, JobSound,
     Sessions!FirstPromptKept
<1>4. QED
  BY <1>1, <1>2, <1>3 DEF SessionsInv, Sessions!FirstPromptKept

LEMMA WriterNext ==
  ASSUME SessionsInv, [Sessions!Next]_(Sessions!vars)
  PROVE  /\ writer' \in Jobs
         /\ writer' # Sessions!Idle => writer'.at \in Roots /\ CopySound(writer.at, writer.row)'
<1> USE DEF SessionsInv, SessionsTyped
<1>1. Sessions!Idle \in Jobs
  BY IdleTyped
<1>2. CASE writer' = writer
  BY <1>2, RowsNext, CopyStays DEF CopiesSound, JobSound, CopySound, Sound, Sessions!StaysClosed
<1>3. ASSUME NEW s \in Roots, Sessions!ReadRow(s)
      PROVE  writer' \in Jobs /\ writer'.at \in Roots /\ CopySound(writer.at, writer.row)'
  <2>1. writer' = [Sessions!Idle EXCEPT !.at = s, !.row = space[s]] /\ UNCHANGED space
        /\ UNCHANGED sessionStarted
    BY <1>3 DEF Sessions!ReadRow, Sessions!rows
  <2>2. writer' \in Jobs /\ writer'.at = s /\ writer'.row = space[s]
    BY <1>1, <2>1 DEF Jobs
  <2>3. CopySound(s, space[s])
    BY CopyRead
  <2>4. QED
    BY <2>1, <2>2, <2>3 DEF CopySound, Sound
<1>4. writer' = writer \/ writer' = Sessions!Idle \/ \E s \in Roots : Sessions!ReadRow(s)
  BY Zenon DEF Sessions!Next, Sessions!Chat, Sessions!Activate, Sessions!vars, Sessions!rows,
     Sessions!registry, Sessions!Totp,
    Sessions!NativeCommentPost, Sessions!PlanMode, Sessions!Text, Sessions!PromptCommand,
    Sessions!Attachment, Sessions!ReviewOrCancel, Sessions!Queue, Sessions!Unwatch,
    Sessions!Press, Sessions!Rewrite, Sessions!SetRoot, Sessions!Submit,
    Sessions!SetThreadTurn, Sessions!SetChatTurn, Sessions!Close, Sessions!TurnEnds,
    Sessions!TurnEnded, Sessions!ReadRow, Sessions!WriteRow, Sessions!Restart,
    Sessions!GetThread, Sessions!ActivationFails, Sessions!StoreThread, Sessions!Register,
    Sessions!CheckIntent, Sessions!StartAccepted, Sessions!StartUnclear,
    Sessions!RecordStarted, Sessions!StoreActive, Sessions!DeletePayload, Sessions!Step
<1>5. QED
  BY <1>1, <1>2, <1>3, <1>4

JobNextSound ==
    /\ sessionPc' \in SessionPlaces /\ job' \in Jobs /\ JobSound'

\* Steps of the chat's task that keep its job.
LEMMA JobKept ==
  ASSUME SessionsInv, [Sessions!Next]_(Sessions!vars), job' = job,
         \/ sessionPc' = sessionPc
         \/ sessionPc = "activate" /\ sessionPc' = "register" /\ job.row.thread # 0
         \/ sessionPc = "repair" /\ sessionPc' = "register"
         \/ sessionPc = "intent" /\ sessionPc' = "active" /\ job.at \in sessionStarted
         \/ sessionPc = "intent" /\ sessionPc' = "start"
         \/ sessionPc = "start" /\ sessionPc' = "accepted"
         \/ sessionPc = "accepted" /\ sessionPc' = "active" /\ job.at \in sessionStarted'
         \/ sessionPc = "active" /\ sessionPc' = "clean"
         \/ sessionPc = "root" /\ sessionPc' = "submit"
  PROVE  JobNextSound
<1> USE DEF SessionsInv, SessionsTyped
<1>1. /\ Sessions!StaysClosed /\ \A r \in Roots : space[r].bound => space'[r].bound
      /\ sessionStarted \subseteq sessionStarted'
  BY RowsNext
<1>2. sessionPc' \in OfRow => sessionPc \in OfRow
  BY DEF OfRow, Activating
<1>3. sessionPc \in OfRow => job.at \in Roots /\ CopySound(job.at, job.row)
  BY DEF CopiesSound, JobSound
<1>4. sessionPc \in OfRow => CopySound(job.at, job.row)'
  BY <1>1, <1>3, CopyStays DEF CopySound, Sound
<1>5. sessionPc' \in SessionPlaces
  BY DEF SessionPlaces, OfRow, Activating, OfSession
<1>6. JobSound'
  <2>1. sessionPc' \in Activating => space'[job'.at].bound /\ job'.row.lifecycle # "closed"
    BY <1>1, <1>3 DEF CopiesSound, JobSound, OfRow, Activating
  <2>2. sessionPc' \in Activating \ {"activate"} => job'.row.thread # 0
    BY DEF CopiesSound, JobSound, Activating
  <2>3. sessionPc' \in OfSession => job'.session.thread # 0
    BY DEF CopiesSound, JobSound, OfSession
  <2>4. sessionPc' = "drop" => space'[job'.at].bound
    BY <1>1, <1>3 DEF CopiesSound, JobSound, OfRow
  <2>5. sessionPc' \in {"active", "clean"} => job'.at \in sessionStarted'
    BY <1>1 DEF CopiesSound, JobSound
  <2>6. QED
    BY <1>2, <1>3, <1>4, <2>1, <2>2, <2>3, <2>4, <2>5 DEF JobSound
<1>7. QED
  BY <1>5, <1>6 DEF JobNextSound

\* Steps that read a row.
LEMMA JobReads ==
  ASSUME SessionsInv, [Sessions!Next]_(Sessions!vars), NEW s \in Roots,
         job' = [Sessions!Idle EXCEPT !.at = s, !.row = space'[s]],
         \/ sessionPc' = "rewrite"
         \/ sessionPc' = "drop" /\ space'[s].bound
         \/ sessionPc' = "activate" /\ space'[s].bound /\ space'[s].lifecycle # "closed"
  PROVE  JobNextSound
<1>1. space' \in [Roots -> Sessions!Rows] /\ RowsSound'
  BY RowsNext
<1>2. job' \in Jobs /\ job'.at = s /\ job'.row = space'[s]
  BY <1>1, IdleTyped DEF Jobs
<1>3. CopySound(s, space[s])'
  BY <1>1 DEF RowsSound, CopySound, Sound
<1>4. QED
  BY <1>2, <1>3 DEF JobNextSound, JobSound, CopySound, Sound, SessionPlaces, OfRow, Activating,
    OfSession

\* Steps that work on a session of the registry, and the end of a job.
LEMMA JobOfSession ==
  ASSUME job' \in Jobs,
         \/ sessionPc' \in {"idle", "chat"}
         \/ sessionPc' \in OfSession /\ job'.session.thread # 0
  PROVE  JobNextSound
BY DEF JobNextSound, JobSound, SessionPlaces, OfRow, Activating, OfSession

LEMMA RecordTyped ==
  ASSUME NEW session \in Sessions!Records, session.thread # 0
  PROVE  session \in [thread : Sessions!Threads, turn : BOOLEAN]
BY DEF Sessions!Records, Sessions!NoRecord

\* The record that set_turn leaves.
LEMMA TurnedTyped ==
  ASSUME SessionsTyped, NEW t \in Sessions!Threads, NEW turn_ \in BOOLEAN
  PROVE  Sessions!Turned(t, turn_) \in Sessions!Records
BY DEF SessionsTyped, Sessions!Turned, Sessions!Records, Sessions!NoRecord

\* The steps of an activation.
LEMMA JobActivates ==
  ASSUME SessionsInv, [Sessions!Next]_(Sessions!vars), Sessions!Activate
  PROVE  JobNextSound
<1> USE DEF SessionsInv, SessionsTyped
<1>1. CASE Sessions!GetThread
  <2>1. CASE job.row.thread # 0
    BY <1>1, <2>1, JobKept DEF Sessions!GetThread
  <2>2. CASE job.row.thread = 0
    <3>1. PICK t \in Sessions!Threads : job' = [job EXCEPT !.row.thread = t]
      BY <1>1, <2>2 DEF Sessions!GetThread
    <3> DEFINE named == [job.row EXCEPT !.thread = t]
    <3>2. job' = [job EXCEPT !.row = named] /\ sessionPc' = "repair" /\ sessionPc = "activate"
          /\ UNCHANGED <<space, sessionStarted>>
      BY <1>1, <2>2, <3>1 DEF Sessions!GetThread, Sessions!rows, Jobs
    <3>3. /\ named \in Sessions!Rows /\ named.lifecycle = job.row.lifecycle
          /\ named.generation = job.row.generation /\ named.thread # 0
      <4>1. job.row \in Sessions!Rows /\ t \in 0..MaxThreads /\ t # 0
        BY MaxThreadsAssumption DEF Jobs, Sessions!Threads
      <4> QED
        BY <4>1 DEF Sessions!Rows
    <3> HIDE DEF named
    <3>4. job' \in Jobs /\ job'.at = job.at /\ job'.row = named
      BY <3>2, <3>3 DEF Jobs
    <3>5. QED
      BY <3>2, <3>3, <3>4 DEF JobNextSound, CopiesSound, JobSound, CopySound, Sound,
        SessionPlaces, OfRow, Activating, OfSession
  <2>3. QED
    BY <2>1, <2>2
<1>2. CASE Sessions!Register
  <2> DEFINE repaired == Sessions!Repaired
  <2>1. /\ job' = [job EXCEPT !.row = repaired] /\ sessionPc' = "intent"
        /\ sessionPc = "register" /\ UNCHANGED sessionStarted
    BY <1>2 DEF Sessions!Register, Sessions!Step
  <2>2. /\ repaired \in Sessions!Rows /\ repaired.lifecycle = "repair_required"
        /\ repaired.generation = job.row.generation /\ repaired.thread = job.row.thread
    BY DEF Sessions!Repaired, Sessions!Rows, Jobs
  <2> HIDE DEF repaired
  <2>3. job' \in Jobs /\ job'.at = job.at /\ job'.row = repaired
    BY <2>1, <2>2 DEF Jobs
  <2>4. \A r \in Roots : space[r].bound => space'[r].bound
    BY RowsNext
  <2>5. QED
    BY <2>1, <2>2, <2>3, <2>4 DEF JobNextSound, CopiesSound, JobSound, CopySound, Sound,
      SessionPlaces, OfRow, Activating, OfSession
<1>3. CASE Sessions!ActivationFails \/ Sessions!StartUnclear \/ Sessions!DeletePayload
  BY <1>3, IdleTyped, JobOfSession DEF Sessions!ActivationFails, Sessions!StartUnclear,
    Sessions!DeletePayload, Sessions!Finish
<1>4. CASE Sessions!StoreThread
  BY <1>4, JobKept DEF Sessions!StoreThread, Sessions!Step
<1>5. CASE Sessions!CheckIntent
  BY <1>5, JobKept DEF Sessions!CheckIntent
<1>6. CASE Sessions!StartAccepted
  BY <1>6, JobKept DEF Sessions!StartAccepted, Sessions!Step
<1>7. CASE Sessions!RecordStarted
  BY <1>7, JobKept DEF Sessions!RecordStarted, Sessions!Step
<1>8. CASE Sessions!StoreActive
  BY <1>8, JobKept DEF Sessions!StoreActive, Sessions!Step
<1>9. QED
  BY <1>1, <1>2, <1>3, <1>4, <1>5, <1>6, <1>7, <1>8 DEF Sessions!Activate

LEMMA JobNext ==
  ASSUME SessionsInv, [Sessions!Next]_(Sessions!vars)
  PROVE  JobNextSound
<1> USE DEF SessionsInv, SessionsTyped
<1>1. ASSUME NEW s \in Roots, Sessions!Totp(s) PROVE JobNextSound
  <2>1. /\ job' = [Sessions!Idle EXCEPT !.at = s, !.row = space'[s]] /\ UNCHANGED space
        /\ sessionPc' = "activate" /\ space[s].bound /\ space[s].lifecycle # "closed"
    BY <1>1 DEF Sessions!Totp, Sessions!Command, Sessions!With, Sessions!rows
  <2>2. QED
    BY <2>1, JobReads
<1>2. ASSUME NEW s \in Roots, Sessions!NativeCommentPost(s) PROVE JobNextSound
  BY <1>2, JobReads DEF Sessions!NativeCommentPost, Sessions!With
<1>3. ASSUME NEW s \in Roots, Sessions!PlanMode(s) PROVE JobNextSound
  <2>1. PICK r \in Roots : Sessions!With(r, "rewrite", space[r]) /\ UNCHANGED space
    BY <1>3 DEF Sessions!PlanMode, Sessions!SpacesOf, Sessions!rows
  <2>2. QED
    BY <2>1, JobReads DEF Sessions!With
<1>4. ASSUME NEW s \in Roots, Sessions!Press(s) PROVE JobNextSound
  <2>1. Sessions!With(s, "drop", space[s]) /\ UNCHANGED space /\ space[s].bound
    BY <1>4 DEF Sessions!Press, CopiesSound
  <2>2. QED
    BY <2>1, JobReads DEF Sessions!With
<1>5. ASSUME NEW s \in Roots,
             Sessions!Text(s) \/ Sessions!PromptCommand(s) \/ Sessions!Attachment(s)
      PROVE  JobNextSound
  <2>1. /\ job' = [Sessions!Idle EXCEPT !.at = s, !.session = byChat]
        /\ sessionPc' \in {"root", "submit"} /\ byChat # Sessions!NoRecord
    BY <1>5 DEF Sessions!Text, Sessions!PromptCommand, Sessions!Attachment
  <2>2. byChat.thread # 0
    BY <2>1, MaxThreadsAssumption DEF Sessions!Records, Sessions!Threads
  <2>3. job' \in Jobs /\ job'.session = byChat
    BY <2>1, IdleTyped DEF Jobs
  <2>4. QED
    BY <2>1, <2>2, <2>3, JobOfSession DEF OfSession
<1>6. CASE Sessions!Submit
  <2> DEFINE session == [job.session EXCEPT !.turn = TRUE]
  <2>1. CASE Sessions!Finish
    BY <2>1, IdleTyped, JobOfSession DEF Sessions!Finish
  <2>2. CASE sessionPc' = "turn" /\ job' = [Sessions!Idle EXCEPT !.session = session]
    <3>1. job.session \in Sessions!Records /\ job.session.thread # 0
      BY <1>6 DEF Sessions!Submit, CopiesSound, JobSound, OfSession, Jobs
    <3>2. session \in Sessions!Records /\ session.thread # 0
      <4>1. job.session \in [thread : Sessions!Threads, turn : BOOLEAN]
        BY <3>1, RecordTyped
      <4>2. QED
        BY <3>1, <4>1 DEF Sessions!Records
    <3> HIDE DEF session
    <3>3. job' \in Jobs /\ job'.session = session
      BY <2>2, <3>2, IdleTyped DEF Jobs
    <3>4. QED
      BY <2>2, <3>2, <3>3, JobOfSession DEF OfSession
  <2>3. QED
    BY <1>6, <2>1, <2>2 DEF Sessions!Submit
<1>7. ASSUME NEW s \in Roots, Sessions!ReviewOrCancel(s) PROVE JobNextSound
  <2>1. PICK turn_ \in BOOLEAN :
          job' = [Sessions!Idle EXCEPT !.session = [byChat EXCEPT !.turn = turn_]]
    BY <1>7 DEF Sessions!ReviewOrCancel
  <2> DEFINE session == [byChat EXCEPT !.turn = turn_]
  <2>2. byChat # Sessions!NoRecord /\ sessionPc' = "turn"
    BY <1>7 DEF Sessions!ReviewOrCancel
  <2>3. session \in Sessions!Records /\ session.thread # 0
    BY <2>2, MaxThreadsAssumption DEF Sessions!Records, Sessions!Threads
  <2> HIDE DEF session
  <2>4. job' \in Jobs /\ job'.session = session
    BY <2>1, <2>3, IdleTyped DEF Jobs, session
  <2>5. QED
    BY <2>2, <2>3, <2>4, JobOfSession DEF OfSession
<1>8. CASE Sessions!SetThreadTurn
  <2> DEFINE record_ == Sessions!Turned(job.session.thread, job.session.turn)
  <2>1. job' = [job EXCEPT !.session = record_] /\ sessionPc' = "chat" /\ sessionPc = "turn"
    BY <1>8 DEF Sessions!SetThreadTurn, Sessions!Step
  <2>2. record_ \in Sessions!Records
    <3>1. job.session \in Sessions!Records /\ job.session.thread # 0
      BY <2>1 DEF CopiesSound, JobSound, OfSession, Jobs
    <3>2. job.session.thread \in Sessions!Threads /\ job.session.turn \in BOOLEAN
      BY <3>1, RecordTyped
    <3>3. QED
      BY <3>2, TurnedTyped
  <2> HIDE DEF record_
  <2>3. job' \in Jobs
    BY <2>1, <2>2 DEF Jobs
  <2>4. QED
    BY <2>1, <2>3, JobOfSession
<1>9. CASE Sessions!SetRoot
  BY <1>9, JobKept DEF Sessions!SetRoot, Sessions!Step
<1>10. CASE sessionPc' = "idle" /\ job' = Sessions!Idle
  BY <1>10, IdleTyped, JobOfSession
<1>11. CASE UNCHANGED <<sessionPc, job>>
  BY <1>11, JobKept
<1>12. CASE Sessions!Activate
  BY <1>12, JobActivates
<1>13. QED
  BY <1>1, <1>2, <1>3, <1>4, <1>5, <1>6, <1>7, <1>8, <1>9, <1>10, <1>11, <1>12, Zenon
  DEF Sessions!Next, Sessions!Chat, Sessions!vars, Sessions!Totp, Sessions!NativeCommentPost,
    Sessions!PlanMode, Sessions!Text, Sessions!PromptCommand, Sessions!Attachment,
    Sessions!ReviewOrCancel, Sessions!Queue, Sessions!Unwatch, Sessions!Press,
    Sessions!Rewrite, Sessions!SetRoot, Sessions!Submit, Sessions!SetThreadTurn,
    Sessions!SetChatTurn, Sessions!Close, Sessions!TurnEnds, Sessions!TurnEnded,
    Sessions!ReadRow, Sessions!WriteRow, Sessions!Restart, Sessions!Finish

LEMMA JobThread ==
  ASSUME SessionsInv, sessionPc \in {"register", "intent", "start"}
  PROVE  job.row.thread \in Sessions!Threads
<1>1. job.row.thread # 0
  BY DEF SessionsInv, CopiesSound, JobSound, Activating
<1>2. job.row \in Sessions!Rows
  BY DEF SessionsInv, SessionsTyped, Jobs
<1>3. job.row.thread \in 0..MaxThreads
  BY <1>2 DEF Sessions!Rows
<1>4. QED
  BY <1>1, <1>3, MaxThreadsAssumption DEF Sessions!Threads

\* The two maps of the registry, and the record on its way to the second.
LEMMA RegistryNext ==
  ASSUME SessionsInv, [Sessions!Next]_(Sessions!vars)
  PROVE  /\ byThread' \in [Sessions!Threads -> Sessions!Records]
         /\ byChat' \in Sessions!Records /\ late' \in Sessions!Records
<1> DEFINE Goal == /\ byThread' \in [Sessions!Threads -> Sessions!Records]
                   /\ byChat' \in Sessions!Records /\ late' \in Sessions!Records
<1> USE DEF SessionsInv, SessionsTyped
<1>1. CASE UNCHANGED <<byThread, byChat, late>>
  BY <1>1
<1>2. CASE Sessions!Register
  <2>1. job.row.thread \in Sessions!Threads
    BY <1>2, JobThread DEF Sessions!Register, Sessions!Step
  <2>2. byChat' \in Sessions!Records
    BY <1>2, <2>1 DEF Sessions!Register, Sessions!Records
  <2>3. QED
    BY <1>2, <2>2 DEF Sessions!Register
<1>3. CASE Sessions!CheckIntent \/ Sessions!StartAccepted
  <2>1. job.row.thread \in Sessions!Threads
    BY <1>3, JobThread DEF Sessions!CheckIntent, Sessions!StartAccepted, Sessions!Step
  <2>2. Sessions!Turned(job.row.thread, TRUE) \in Sessions!Records
    BY <2>1, TurnedTyped
  <2>3. QED
    BY <1>3, <2>2 DEF Sessions!CheckIntent, Sessions!StartAccepted, Sessions!SetTurn,
      Sessions!InChat, Sessions!registry
<1>4. CASE Sessions!SetRoot
  BY <1>4 DEF Sessions!SetRoot, Jobs
<1>5. CASE Sessions!SetThreadTurn
  <2>1. job.session \in Sessions!Records /\ job.session.thread # 0
    BY <1>5 DEF Sessions!SetThreadTurn, Sessions!Step, CopiesSound, JobSound, OfSession, Jobs
  <2>2. job.session.thread \in Sessions!Threads /\ job.session.turn \in BOOLEAN
    BY <2>1, RecordTyped
  <2>3. QED
    BY <1>5, <2>2, TurnedTyped DEF Sessions!SetThreadTurn, Sessions!SetTurn
<1>6. CASE Sessions!SetChatTurn
  BY <1>6 DEF Sessions!SetChatTurn, Sessions!InChat, Jobs
<1>7. CASE Sessions!Close
  BY <1>7, IdleTyped DEF Sessions!Close, Sessions!Remove, Sessions!registry
<1>8. ASSUME NEW t \in Sessions!Threads, Sessions!TurnEnds(t) PROVE Goal
  BY <1>8, TurnedTyped DEF Sessions!TurnEnds, Sessions!SetTurn
<1>9. CASE Sessions!TurnEnded
  BY <1>9, IdleTyped DEF Sessions!TurnEnded
<1>10. CASE Sessions!Restart
  <2>1. \A s \in Roots : [thread |-> space[s].thread, turn |-> FALSE] \in Sessions!Records
    <3>1. ASSUME NEW s \in Roots
          PROVE  [thread |-> space[s].thread, turn |-> FALSE] \in Sessions!Records
      <4>1. space[s].thread \in 0..MaxThreads
        BY DEF Sessions!Rows
      <4>2. CASE space[s].thread = 0
        BY <4>2 DEF Sessions!Records, Sessions!NoRecord
      <4>3. CASE space[s].thread # 0
        <5>1. space[s].thread \in Sessions!Threads
          BY <4>1, <4>3, MaxThreadsAssumption DEF Sessions!Threads
        <5>2. QED
          BY <5>1 DEF Sessions!Records
      <4>4. QED
        BY <4>2, <4>3
    <3>2. QED
      BY <3>1
  <2>2. byChat' \in Sessions!Records
    BY <1>10, <2>1, IdleTyped DEF Sessions!Restart
  <2>3. \A t \in Sessions!Threads : [thread |-> t, turn |-> FALSE] \in Sessions!Records
    BY DEF Sessions!Records
  <2>4. byThread' \in [Sessions!Threads -> Sessions!Records]
    BY <1>10, <2>3, IdleTyped DEF Sessions!Restart
  <2>5. QED
    BY <1>10, <2>2, <2>4, IdleTyped DEF Sessions!Restart
<1>11. QED
  BY <1>1, <1>2, <1>3, <1>4, <1>5, <1>6, <1>7, <1>8, <1>9, <1>10, Zenon
  DEF Sessions!Next, Sessions!Chat, Sessions!Activate, Sessions!vars,
    Sessions!rows, Sessions!registry, Sessions!Totp, Sessions!NativeCommentPost,
    Sessions!PlanMode, Sessions!Text, Sessions!PromptCommand, Sessions!Attachment,
    Sessions!ReviewOrCancel, Sessions!Queue, Sessions!Unwatch, Sessions!Press,
    Sessions!Rewrite, Sessions!Submit, Sessions!ReadRow, Sessions!WriteRow,
    Sessions!GetThread, Sessions!ActivationFails, Sessions!StoreThread, Sessions!StartUnclear,
    Sessions!RecordStarted, Sessions!StoreActive, Sessions!DeletePayload

LEMMA SetsNext ==
  ASSUME SessionsInv, [Sessions!Next]_(Sessions!vars)
  PROVE  /\ payload' \subseteq Roots /\ queued' \subseteq Roots
         /\ sessionStarted' \subseteq Roots
         /\ owner' \in [Sessions!Threads -> Roots \cup {"none"}]
<1> USE DEF SessionsInv, SessionsTyped
<1>1. payload' = payload \/ Sessions!DeletePayload
  BY Zenon DEF Sessions!Next, Sessions!Chat, Sessions!Activate, Sessions!vars,
    Sessions!rows, Sessions!registry, Sessions!Totp, Sessions!NativeCommentPost,
    Sessions!PlanMode, Sessions!Text, Sessions!PromptCommand, Sessions!Attachment,
    Sessions!ReviewOrCancel, Sessions!Queue, Sessions!Unwatch, Sessions!Press,
    Sessions!Rewrite, Sessions!Submit, Sessions!ReadRow, Sessions!WriteRow,
    Sessions!GetThread, Sessions!ActivationFails, Sessions!StoreThread, Sessions!StartUnclear,
    Sessions!RecordStarted, Sessions!StoreActive, Sessions!DeletePayload,
    Sessions!SetRoot, Sessions!SetThreadTurn, Sessions!SetChatTurn, Sessions!Close,
    Sessions!TurnEnds, Sessions!TurnEnded, Sessions!Restart, Sessions!Register,
    Sessions!CheckIntent, Sessions!StartAccepted, Sessions!Step
<1>2. payload' \subseteq Roots
  BY <1>1 DEF Sessions!DeletePayload
<1>3. queued' = queued \/ Sessions!Close \/ Sessions!TurnEnded \/ \E s \in Roots : Sessions!Queue(s)
  BY Zenon DEF Sessions!Next, Sessions!Chat, Sessions!Activate, Sessions!vars,
    Sessions!rows, Sessions!registry, Sessions!Totp, Sessions!NativeCommentPost,
    Sessions!PlanMode, Sessions!Text, Sessions!PromptCommand, Sessions!Attachment,
    Sessions!ReviewOrCancel, Sessions!Queue, Sessions!Unwatch, Sessions!Press,
    Sessions!Rewrite, Sessions!Submit, Sessions!ReadRow, Sessions!WriteRow,
    Sessions!GetThread, Sessions!ActivationFails, Sessions!StoreThread, Sessions!StartUnclear,
    Sessions!RecordStarted, Sessions!StoreActive, Sessions!DeletePayload,
    Sessions!SetRoot, Sessions!SetThreadTurn, Sessions!SetChatTurn, Sessions!Close,
    Sessions!TurnEnds, Sessions!TurnEnded, Sessions!Restart, Sessions!Register,
    Sessions!CheckIntent, Sessions!StartAccepted, Sessions!Step
<1>4. queued' \subseteq Roots
  BY <1>3 DEF Sessions!Close, Sessions!CloseRow, Sessions!TurnEnded, Sessions!Queue,
    Sessions!SpacesOf
<1>5. sessionStarted' = sessionStarted \/ Sessions!RecordStarted
  BY Zenon DEF Sessions!Next, Sessions!Chat, Sessions!Activate, Sessions!vars,
    Sessions!rows, Sessions!registry, Sessions!Totp, Sessions!NativeCommentPost,
    Sessions!PlanMode, Sessions!Text, Sessions!PromptCommand, Sessions!Attachment,
    Sessions!ReviewOrCancel, Sessions!Queue, Sessions!Unwatch, Sessions!Press,
    Sessions!Rewrite, Sessions!Submit, Sessions!ReadRow, Sessions!WriteRow,
    Sessions!GetThread, Sessions!ActivationFails, Sessions!StoreThread, Sessions!StartUnclear,
    Sessions!RecordStarted, Sessions!StoreActive, Sessions!DeletePayload,
    Sessions!SetRoot, Sessions!SetThreadTurn, Sessions!SetChatTurn, Sessions!Close,
    Sessions!TurnEnds, Sessions!TurnEnded, Sessions!Restart, Sessions!Register,
    Sessions!CheckIntent, Sessions!StartAccepted, Sessions!Step
<1>6. sessionStarted' \subseteq Roots
  BY <1>5 DEF Sessions!RecordStarted, Sessions!Step, CopiesSound, JobSound, OfRow, Activating
<1>7. owner' = owner \/ Sessions!GetThread
  BY Zenon DEF Sessions!Next, Sessions!Chat, Sessions!Activate, Sessions!vars,
    Sessions!rows, Sessions!registry, Sessions!Totp, Sessions!NativeCommentPost,
    Sessions!PlanMode, Sessions!Text, Sessions!PromptCommand, Sessions!Attachment,
    Sessions!ReviewOrCancel, Sessions!Queue, Sessions!Unwatch, Sessions!Press,
    Sessions!Rewrite, Sessions!Submit, Sessions!ReadRow, Sessions!WriteRow,
    Sessions!GetThread, Sessions!ActivationFails, Sessions!StoreThread, Sessions!StartUnclear,
    Sessions!RecordStarted, Sessions!StoreActive, Sessions!DeletePayload,
    Sessions!SetRoot, Sessions!SetThreadTurn, Sessions!SetChatTurn, Sessions!Close,
    Sessions!TurnEnds, Sessions!TurnEnded, Sessions!Restart, Sessions!Register,
    Sessions!CheckIntent, Sessions!StartAccepted, Sessions!Step
<1>8. ASSUME Sessions!GetThread
      PROVE  owner' \in [Sessions!Threads -> Roots \cup {"none"}]
  <2>1. job.at \in Roots
    BY <1>8 DEF Sessions!GetThread, CopiesSound, JobSound, OfRow, Activating
  <2>2. owner' = owner \/ \E t \in Sessions!Threads : owner' = [owner EXCEPT ![t] = job.at]
    BY <1>8, Zenon DEF Sessions!GetThread
  <2>3. QED
    BY <2>1, <2>2
<1>9. QED
  BY <1>2, <1>4, <1>6, <1>7, <1>8

LEMMA SessionsNext == SessionsInv /\ [Sessions!Next]_(Sessions!vars) => SessionsInv'
<1> SUFFICES ASSUME SessionsInv, [Sessions!Next]_(Sessions!vars) PROVE SessionsInv'
  OBVIOUS
<1>1. RowsSound' /\ space' \in [Roots -> Sessions!Rows]
  BY RowsNext
<1>2. SessionsTyped'
  BY <1>1, RegistryNext, SetsNext, JobNext, WriterNext, ConfirmsNext
  DEF SessionsTyped, JobNextSound
<1>3. CopiesSound'
  BY JobNext, WriterNext, ConfirmsNext DEF CopiesSound, JobNextSound
<1>4. QED
  BY <1>1, <1>2, <1>3, FirstPromptNext DEF SessionsInv

LEMMA SessionParts ==
  ASSUME [ChatNext]_allVars PROVE [Sessions!Next]_(Sessions!vars)
BY DEF ChatNext, allVars, sessionVars, Sessions!vars, Sessions!rows, Sessions!registry

LEMMA SessionsInvariant == ChatSpec => []SessionsInv
<1>1. ChatInit => SessionsInv
  BY SessionsInit DEF ChatInit
<1>2. SessionsInv /\ [ChatNext]_allVars => SessionsInv'
  BY SessionParts, SessionsNext
<1>3. QED
  BY <1>1, <1>2, PTL DEF ChatSpec

\* Until the first prompt of a space is known to have started, the space is not
\* active and the prompt's payload is kept, over crashes at every step of the
\* activation (activate_pending_session, restore_active_sessions).
THEOREM FirstPromptIsSafe == ChatSpec => []FirstPromptSafe
<1>1. SessionsInv => FirstPromptSafe
  BY DEF SessionsInv, RowsSound, Sound, FirstPromptSafe, Sessions!ActiveStarted
<1>2. QED
  BY <1>1, SessionsInvariant, PTL

\* A step that finds a space closed leaves it closed: the copies of its row that the
\* activation and the late writers still hold do not reopen it (upsert_session_space).
THEOREM ClosedStaysClosed == ChatSpec => ClosedForGood
<1>1. SessionsInv /\ [ChatNext]_allVars => [Sessions!StaysClosed]_sessionVars
  BY SessionParts, RowsNext
<1>2. QED
  BY <1>1, SessionsInvariant, PTL DEF ChatSpec, ClosedForGood

------------------------------------------------------------------------------
\* NewWizard: drafts, interactions and the places of the two tasks.
WizardPhases == Wizard!Phases \cup {"none"}
DraftTypes == [phase : WizardPhases, payload : SUBSET Wizard!Keys, rev : Nat]
InterTypes == [phase : WizardPhases, payload : SUBSET Wizard!Keys, rev : Nat, created : Nat,
               claim : {"free", "held", "stale"}]
WizardPlaces == {"idle", "persist", "store", "offer", "advance", "finish", "scan",
                 "create", "post", "space", "clean", "remove"}
WizardTyped ==
    /\ wizardRecord \in DraftTypes /\ inter \in InterTypes
    /\ wizardPc \in [Wizard!Tasks -> WizardPlaces] /\ draft \in [Wizard!Tasks -> DraftTypes]
    /\ id \in [Wizard!Tasks -> Nat] /\ drafts \in Nat /\ wizardFaults \in Nat
    /\ \A b \in wizardButtons : b.rev \in Nat
    /\ posts \in [Wizard!Ids -> Nat] /\
             spaces \in [Wizard!Ids -> SUBSET (Wizard!Keys \cup {"none"})]

\* Whoever is asked for more than a model has chosen one with its effort, and a
\* directory is chosen last.
Modelled(chosen) == "normal_model" \in chosen /\ "normal_effort" \in chosen
WellFormed(d) ==
    /\ d.phase = "normal_effort" => "normal_model" \in d.payload
    /\ d.phase \notin {"none", "normal_model", "normal_effort"} => Modelled(d.payload)
    /\ "cwd" \in d.payload => Modelled(d.payload)
Formed ==
    /\ WellFormed(wizardRecord) /\ WellFormed(inter)
    /\ \A t \in Wizard!Tasks :
         /\ "cwd" \in draft[t].payload => Modelled(draft[t].payload)
         /\ wizardPc[t] \notin {"create", "post", "space", "clean", "remove"} =>
                  WellFormed(draft[t])
    /\ wizardRecord # Wizard!NoDraft => wizardRecord.phase \in Wizard!Phases
    /\ inter # Wizard!NoInter => inter.phase \in Wizard!Phases
    /\ wizardPc["chat"] \in {"persist", "store", "offer", "advance"}
         => draft["chat"].phase \in Wizard!Phases

\* What is published has a directory, and both or none of the Plan profile.
Publishable(chosen) ==
    "cwd" \in chosen /\ (("plan_model" \in chosen) = ("plan_effort" \in chosen))
Published ==
    /\ inter # Wizard!NoInter => inter.created \in Wizard!Ids
    /\ \A t \in Wizard!Tasks :
         /\ wizardPc[t] \in {"create", "post", "space"} => id[t] \in Wizard!Ids
         /\ wizardPc[t] \in {"post", "space"} => Publishable(draft[t].payload)
    /\ \A i \in Wizard!Ids : spaces[i] # Wizard!NoSpace =>
         Publishable(spaces[i]) /\ Modelled(spaces[i])

\* The buttons of the current revision are those of its phase, and the chat's
\* worker acts on the draft whose button was pressed.
SameDraft(d, e) == d.phase = e.phase /\ d.payload = e.payload
ProjectPhases == {"project", "project_choice", "project_confirmation"}
Offered ==
    inter # Wizard!NoInter =>
      /\ \A b \in wizardButtons :
           /\ b.rev <= inter.rev
           /\ b.rev = inter.rev =>
                /\ b.action \in Wizard!Choices(inter) \cup {"cancel"}
                /\ wizardRecord = Wizard!NoDraft \/ SameDraft(wizardRecord, inter)
      /\ wizardPc["chat"] \in {"store", "offer"} => SameDraft(draft["chat"], inter)
      /\ wizardPc["chat"] = "advance" =>
           \/ action = "text" /\ draft["chat"].phase \in ProjectPhases
           \/ action \in Wizard!Choices(draft["chat"])

\* As long as nothing fails, an interaction has an id of its own, which one task
\* at most has claimed and publishes.
Claimed(t) == wizardPc[t] \in {"create", "post", "space"}
Single ==
    wizardFaults = 0 =>
      /\ inter # Wizard!NoInter => inter.created = drafts /\ inter.claim \in {"free", "held"}
      /\ inter # Wizard!NoInter /\ inter.claim = "free" =>
           /\ posts[inter.created] = 0
           /\ \A t \in Wizard!Tasks : Claimed(t) => id[t] # inter.created
      /\ \A t \in Wizard!Tasks :
           /\ Claimed(t) => id[t] <= drafts
           /\ wizardPc[t] \in {"create", "post"} => posts[id[t]] = 0
      /\ \A t, u \in Wizard!Tasks : t # u /\ Claimed(t) /\ Claimed(u) => id[t] # id[u]
      /\ \A i \in Wizard!Ids : posts[i] <= 1 /\ (i > drafts => posts[i] = 0)

WizardInv == WizardTyped /\ Formed /\ Published /\ Offered /\ Single

\* What a step leaves to the other task, and of the interaction.
WAlone(t) ==
    \A u \in Wizard!Tasks \ {t} :
      wizardPc'[u] = wizardPc[u] /\ draft'[u] = draft[u] /\ id'[u] = id[u]
WTyped ==
    /\ wizardPc \in [Wizard!Tasks -> WizardPlaces] /\ draft \in [Wizard!Tasks -> DraftTypes]
    /\ id \in [Wizard!Tasks -> Nat]
KeepsInter ==
    inter' # Wizard!NoInter =>
      /\ inter # Wizard!NoInter /\ inter'.phase = inter.phase /\ inter'.payload = inter.payload
      /\ inter'.rev = inter.rev /\ inter'.created = inter.created
      /\ Wizard!Choices(inter') = Wizard!Choices(inter)

LEMMA NoneTyped ==
  /\ Wizard!NoDraft \in DraftTypes /\ WellFormed(Wizard!NoDraft)
  /\ Wizard!NoDraft.payload = {} /\ Wizard!NoInter \in InterTypes /\ WellFormed(Wizard!NoInter)
  /\ "chat" \in Wizard!Tasks /\ "expirer" \in Wizard!Tasks
<1>1. "none" \in WizardPhases /\ {} \in SUBSET Wizard!Keys
  BY DEF WizardPhases
<1>2. Wizard!NoDraft \in DraftTypes /\ WellFormed(Wizard!NoDraft) /\ Wizard!NoDraft.payload = {}
  BY <1>1 DEF Wizard!NoDraft, DraftTypes, WellFormed
<1>3. Wizard!NoInter \in InterTypes /\ WellFormed(Wizard!NoInter)
  BY <1>1 DEF Wizard!NoInter, InterTypes, WellFormed
<1>4. QED
  BY <1>2, <1>3 DEF Wizard!Tasks

LEMMA ChoicesKept ==
  ASSUME NEW d, NEW e, d.phase = e.phase, d.payload = e.payload
  PROVE  Wizard!Choices(d) = Wizard!Choices(e)
BY DEF Wizard!Choices

LEMMA ClaimKept ==
  ASSUME WizardTyped, inter # Wizard!NoInter, NEW c \in {"held", "stale"}, WellFormed(inter),
         inter' = [inter EXCEPT !.claim = c]
  PROVE  /\ KeepsInter /\ inter' \in InterTypes /\ inter' # Wizard!NoInter /\ WellFormed(inter')
         /\ inter'.claim = c /\ inter'.created = inter.created /\ inter'.phase = inter.phase
<1>1. /\ inter' \in InterTypes /\ inter'.claim = c /\ inter'.phase = inter.phase
      /\ inter'.payload = inter.payload /\ inter'.rev = inter.rev
      /\ inter'.created = inter.created
  BY DEF WizardTyped, InterTypes
<1>2. inter' # Wizard!NoInter
  BY <1>1 DEF Wizard!NoInter
<1>3. WellFormed(inter')
  BY <1>1 DEF WellFormed
<1>4. Wizard!Choices(inter') = Wizard!Choices(inter)
  BY <1>1, ChoicesKept
<1>5. QED
  BY <1>1, <1>2, <1>3, <1>4 DEF KeepsInter

\* What the steps of the wizard lead to.
Shaped(where, chosen) ==
    /\ where = "normal_effort" => "normal_model" \in chosen
    /\ where \notin {"none", "normal_model", "normal_effort"} => Modelled(chosen)
    /\ "cwd" \in chosen => Modelled(chosen)

LEMMA StepsFormed ==
  ASSUME NEW d \in DraftTypes, WellFormed(d), d.phase \in Wizard!Phases, NEW what,
         (what = "text" /\ d.phase \in ProjectPhases) \/ what \in Wizard!Choices(d),
         NEW s \in Wizard!Steps(what, d.payload)
  PROVE  s[1] \in Wizard!Phases /\ s[2] \in SUBSET Wizard!Keys /\ Shaped(s[1], s[2])
<1> DEFINE chosen == d.payload
           where == d.phase
<1>1. chosen \in SUBSET Wizard!Keys
  BY DEF DraftTypes
<1>2. Shaped(where, chosen) /\ where \in Wizard!Phases
  BY DEF WellFormed, Shaped
<1>3. \/ what = "text" /\ where \in ProjectPhases
      \/ what = "hello" /\ "cwd" \in chosen
      \/ what \in {"plan_yes", "plan_no"} /\ where = "plan_choice"
      \/ what = "project" /\ where = "project_choice"
      \/ what = "create_project" /\ where = "project_confirmation"
      \/ /\ what = where
         /\ where \notin {"plan_choice", "project_choice", "project_confirmation", "project"}
  BY DEF Wizard!Choices
<1>4. s \in Wizard!Steps(what, chosen)
  OBVIOUS
<1> HIDE DEF chosen, where
<1>5. CASE what = "normal_model"
  BY <1>1, <1>4, <1>5 DEF Wizard!Steps, Shaped, Modelled, Wizard!Phases, Wizard!Keys
<1>6. CASE what = "normal_effort"
  BY <1>1, <1>2, <1>3, <1>4, <1>6 DEF Wizard!Steps, Shaped, Modelled, Wizard!Phases,
     Wizard!Keys, ProjectPhases
<1>7. CASE what \in {"plan_yes", "plan_no"}
  BY <1>1, <1>2, <1>3, <1>4, <1>7 DEF Wizard!Steps, Shaped, Modelled, Wizard!Phases,
     Wizard!Keys, ProjectPhases
<1>8. CASE what = "plan_model"
  BY <1>1, <1>2, <1>3, <1>4, <1>8 DEF Wizard!Steps, Wizard!Kept, Shaped, Modelled,
     Wizard!Phases, Wizard!Keys, ProjectPhases
<1>9. CASE what = "plan_effort"
  BY <1>1, <1>2, <1>3, <1>4, <1>9 DEF Wizard!Steps, Shaped, Modelled, Wizard!Phases,
     Wizard!Keys, ProjectPhases
<1>10. CASE what = "create_project"
  BY <1>1, <1>2, <1>3, <1>4, <1>10 DEF Wizard!Steps, Shaped, Modelled, Wizard!Phases,
     Wizard!Keys, ProjectPhases
<1>11. CASE what \notin {"normal_model", "normal_effort", "plan_yes", "plan_no", "plan_model",
                         "plan_effort", "create_project"}
  <2>1. Modelled(chosen)
    BY <1>2, <1>3, <1>11 DEF Shaped, ProjectPhases, Wizard!Phases
  <2>2. s \in Wizard!ProjectSteps(chosen)
    BY <1>4, <1>11 DEF Wizard!Steps
  <2>3. \/ s = <<"prompt", chosen \cup {"cwd"}>> \/ s = <<"project_choice", chosen>>
        \/ s = <<"project_confirmation", chosen \cup {"project_target"}>>
    BY <2>2 DEF Wizard!ProjectSteps
  <2>4. s[1] \in Wizard!Phases /\ s[2] \in SUBSET Wizard!Keys
    <3>1. {"cwd", "project_target"} \subseteq Wizard!Keys
      BY DEF Wizard!Keys
    <3>2. s[2] \in SUBSET Wizard!Keys
      BY <1>1, <2>3, <3>1
    <3>3. s[1] \in Wizard!Phases
      BY <2>3 DEF Wizard!Phases
    <3>4. QED
      BY <3>2, <3>3
  <2>5. Modelled(s[2])
    BY <2>1, <2>3 DEF Modelled
  <2>6. s[1] # "normal_effort"
    BY <2>3
  <2>7. QED
    BY <2>4, <2>5, <2>6 DEF Shaped
<1>12. QED
  BY <1>5, <1>6, <1>7, <1>8, <1>9, <1>10, <1>11 DEF chosen

LEMMA WDoneEffect ==
  ASSUME WizardTyped, NEW t \in Wizard!Tasks, Wizard!Done(t)
  PROVE  /\ WAlone(t) /\ wizardPc'[t] = "idle" /\ draft'[t] = Wizard!NoDraft /\ WTyped'
         /\ t # "chat" => action' = action
BY NoneTyped DEF Wizard!Done, Wizard!Goto, Wizard!Work, WizardTyped, WAlone, WTyped, WizardPlaces

LEMMA WGoEffect ==
  ASSUME WizardTyped, NEW t \in Wizard!Tasks, NEW where \in WizardPlaces, Wizard!Goto(t, where),
         UNCHANGED <<draft, id>>
  PROVE  WAlone(t) /\ wizardPc'[t] = where /\ WTyped'
BY DEF Wizard!Goto, WizardTyped, WAlone, WTyped

LEMMA WWorkEffect ==
  ASSUME WizardTyped, NEW t \in Wizard!Tasks, NEW where \in WizardPlaces, Wizard!Goto(t, where),
         NEW d \in DraftTypes, Wizard!Work(t, d), UNCHANGED id
  PROVE  WAlone(t) /\ wizardPc'[t] = where /\ draft'[t] = d /\ WTyped'
BY DEF Wizard!Goto, Wizard!Work, WizardTyped, WAlone, WTyped

LEMMA WizardBegin ==
  ASSUME WizardInv, NEW kind \in Wizard!Kinds, Wizard!Begin(kind)
  PROVE  WizardInv'
<1>1. WizardTyped
  BY DEF WizardInv
<1>2. /\ wizardPc["chat"] = "idle" /\ WAlone("chat") /\ wizardPc'["chat"] = "persist" /\ WTyped'
      /\ WellFormed(draft'["chat"]) /\ draft'["chat"].phase \in Wizard!Phases
      /\ "cwd" \in draft'["chat"].payload => Modelled(draft'["chat"].payload)
      /\ \/ inter' = Wizard!NoInter /\ wizardRecord' = Wizard!NoDraft /\ wizardButtons' = {}
         \/ UNCHANGED <<inter, wizardRecord, wizardButtons>>
      /\ UNCHANGED <<drafts, posts, spaces, wizardFaults>>
  <2>1. PICK mode \in BOOLEAN :
          /\ mode => kind \notin {"empty", "profile"}
          /\ Wizard!Work("chat", [phase |-> CASE kind = "empty" -> "normal_model"
                                              [] kind = "profile" -> "plan_choice"
                                              [] OTHER -> "project",
                                  payload |-> Wizard!Parsed(kind, mode), rev |-> 0])
    BY DEF Wizard!Begin
  <2> DEFINE chosen == Wizard!Parsed(kind, mode)
             where == CASE kind = "empty" -> "normal_model"
                        [] kind = "profile" -> "plan_choice"
                        [] OTHER -> "project"
             d == [phase |-> where, payload |-> chosen, rev |-> 0]
  <2>2. where \in Wizard!Phases /\ where \in WizardPhases
    BY DEF Wizard!Phases, WizardPhases
  <2>3. chosen \in SUBSET Wizard!Keys
    BY DEF Wizard!Parsed, Wizard!Keys
  <2>4. (where # "normal_model" \/ "cwd" \in chosen => Modelled(chosen)) /\ where # "normal_effort"
    BY DEF Wizard!Parsed, Modelled, Wizard!Kinds
  <2> HIDE DEF chosen, where
  <2>5. d \in DraftTypes /\ d.phase = where /\ d.payload = chosen
    BY <2>2, <2>3 DEF DraftTypes
  <2>6. WellFormed(d)
    BY <2>4, <2>5 DEF WellFormed
  <2>7. Wizard!Work("chat", d)
    BY <2>1 DEF chosen, where
  <2> HIDE DEF d
  <2>8. /\ wizardPc["chat"] = "idle" /\ Wizard!Goto("chat", "persist") /\ UNCHANGED id
        /\ UNCHANGED <<drafts, posts, spaces, wizardFaults>>
    BY DEF Wizard!Begin, Wizard!spaceVars
  <2>9. \/ inter' = Wizard!NoInter /\ wizardRecord' = Wizard!NoDraft /\ wizardButtons' = {}
        \/ UNCHANGED <<inter, wizardRecord, wizardButtons>>
    BY DEF Wizard!Begin, Wizard!DeleteInter
  <2>10. WAlone("chat") /\ wizardPc'["chat"] = "persist" /\ draft'["chat"] = d /\ WTyped'
    BY <1>1, <2>5, <2>7, <2>8, WWorkEffect, NoneTyped DEF WizardPlaces
  <2>11. QED
    BY <2>2, <2>4, <2>5, <2>6, <2>8, <2>9, <2>10 DEF WellFormed
<1>3. WizardTyped'
  BY <1>1, <1>2, NoneTyped DEF WizardTyped, WTyped
<1>4. Formed'
  BY <1>1, <1>2, <1>3, NoneTyped DEF WizardInv, Formed, KeepsInter, WAlone
<1>5. Published'
  BY <1>1, <1>2, <1>3, NoneTyped DEF WizardInv, Published, WizardTyped, KeepsInter, WAlone
<1>6. Offered'
  BY <1>1, <1>2, <1>3, NoneTyped DEF WizardInv, Offered, SameDraft, KeepsInter, WAlone
<1>7. Single'
  BY <1>1, <1>2, <1>3, NoneTyped DEF WizardInv, Single, Claimed, WizardTyped, KeepsInter, WAlone
<1>8. QED
  BY <1>3, <1>4, <1>5, <1>6, <1>7 DEF WizardInv

LEMMA WizardPersist ==
  ASSUME WizardInv, Wizard!Persist
  PROVE  WizardInv'
<1>1. WizardTyped
  BY DEF WizardInv
<1>2. /\ wizardPc["chat"] = "persist" /\ WAlone("chat") /\ wizardPc'["chat"] = "store" /\ WTyped'
      /\ draft'["chat"].phase = draft["chat"].phase /\ draft'["chat"].payload =
               draft["chat"].payload
      /\ WellFormed(draft'["chat"]) /\ WellFormed(inter') /\ SameDraft(draft'["chat"], inter')
      /\ inter' # Wizard!NoInter /\ inter' \in InterTypes /\ wizardButtons' = {}
      /\ inter'.phase \in Wizard!Phases
      /\ inter'.created \in Wizard!Ids /\ drafts' \in Nat
      /\ \/ /\ inter = Wizard!NoInter /\ drafts' = drafts + 1 /\ drafts + 1 \in Wizard!Ids
            /\ inter'.created = drafts + 1
            /\ inter'.claim = "free" /\ wizardFaults' = wizardFaults
         \/ drafts' = drafts /\ wizardFaults' # 0
      /\ wizardFaults' \in Nat
      /\ UNCHANGED <<wizardRecord, posts, spaces>>
  <2> DEFINE old == draft["chat"]
             next == inter.rev + 1
             number == IF inter = Wizard!NoInter THEN drafts' ELSE inter.created
             new == [phase |-> old.phase, payload |-> old.payload, rev |-> next, claim |-> "free",
                     created |-> number]
             d == [old EXCEPT !.rev = next]
  <2>1. /\ wizardPc["chat"] = "persist" /\ Wizard!Goto("chat", "store") /\ Wizard!Work("chat", d)
        /\ inter' = new /\ wizardButtons' = {}
        /\ UNCHANGED <<id, wizardRecord, posts, spaces>>
    BY DEF Wizard!Persist, Wizard!spaceVars
  <2>2. \/ /\ inter = Wizard!NoInter /\ drafts' = drafts + 1 /\ drafts < MaxDrafts
           /\ wizardFaults' = wizardFaults
        \/ inter # Wizard!NoInter /\ drafts' = drafts /\ wizardFaults' = wizardFaults + 1
    BY DEF Wizard!Persist, Wizard!Fault
  <2>3. drafts \in Nat /\ wizardFaults \in Nat /\ inter \in InterTypes
    BY <1>1 DEF WizardTyped
  <2>4. old \in DraftTypes /\ WellFormed(old) /\ next \in Nat /\ old.phase \in Wizard!Phases
    BY <1>1, <2>1, NoneTyped DEF WizardInv, WizardTyped, Formed, InterTypes
  <2>5. number \in Nat /\ number \in Wizard!Ids /\ drafts' \in Nat
    BY <2>2, <2>3, MaxDraftsAssumption DEF WizardInv, Published, Wizard!Ids
  <2>6. inter = Wizard!NoInter => number = drafts'
    OBVIOUS
  <2>7. /\ drafts < MaxDrafts => drafts + 1 \in Wizard!Ids
        /\ wizardFaults + 1 # 0 /\ wizardFaults + 1 \in Nat
    BY <2>3, MaxDraftsAssumption DEF Wizard!Ids
  <2> HIDE DEF old, next, number
  <2>8. new \in InterTypes /\ new.phase = old.phase /\ new.payload = old.payload
        /\ new.claim = "free" /\ new.created = number
    BY <2>4, <2>5 DEF InterTypes, DraftTypes
  <2>9. d \in DraftTypes /\ d.phase = old.phase /\ d.payload = old.payload
    BY <2>4 DEF DraftTypes
  <2>10. new # Wizard!NoInter
    BY <2>4, <2>8 DEF Wizard!NoInter, Wizard!Phases
  <2> HIDE DEF new, d
  <2>11. WAlone("chat") /\ wizardPc'["chat"] = "store" /\ draft'["chat"] = d /\ WTyped'
    BY <1>1, <2>1, <2>9, WWorkEffect, NoneTyped DEF WizardPlaces
  <2>12. WellFormed(d) /\ WellFormed(new) /\ SameDraft(d, new)
    BY <2>4, <2>8, <2>9 DEF WellFormed, SameDraft
  <2>13. QED
    <3>1. /\ new.phase \in Wizard!Phases /\ number \in Wizard!Ids /\ new.created \in Wizard!Ids
          /\ draft'["chat"].phase = draft["chat"].phase
          /\ draft'["chat"].payload = draft["chat"].payload
      BY <2>4, <2>5, <2>8, <2>9, <2>11 DEF old
    <3>2. QED
      BY <2>1, <2>2, <2>3, <2>5, <2>6, <2>7, <2>8, <2>10, <2>11, <2>12, <3>1, Zenon
<1>3. WizardTyped'
  BY <1>1, <1>2, NoneTyped DEF WizardTyped, WTyped
<1>4. Formed'
  BY <1>1, <1>2, <1>3, NoneTyped DEF WizardInv, Formed, KeepsInter, WAlone
<1>5. Published'
  BY <1>1, <1>2, <1>3, NoneTyped DEF WizardInv, Published, WizardTyped, KeepsInter, WAlone
<1>6. Offered'
  BY <1>1, <1>2, <1>3, NoneTyped DEF WizardInv, Offered, SameDraft, KeepsInter, WAlone
<1>7. Single'
  <2>1. CASE wizardFaults' # 0
    BY <2>1 DEF Single
  <2>2. CASE wizardFaults' = 0
    <3>1. /\ Single /\ wizardFaults = 0 /\ drafts \in Nat /\ drafts' = drafts + 1
          /\ drafts + 1 \in Wizard!Ids /\ inter'.created = drafts + 1 /\ inter'.claim = "free"
          /\ UNCHANGED posts
      BY <1>1, <1>2, <2>2 DEF WizardInv, WizardTyped
    <3>2. \A t \in Wizard!Tasks : wizardPc'[t] \in {"create", "post", "space"} =>
            wizardPc'[t] = wizardPc[t] /\ id'[t] = id[t]
      BY <1>2 DEF WAlone
    <3>3. drafts + 1 > drafts /\ posts[drafts + 1] = 0
      BY <2>2, <3>1 DEF Single
    <3>4. \A t \in Wizard!Tasks : Claimed(t)' => Claimed(t) /\ id'[t] = id[t] /\
             id[t] \in Nat /\ id[t] <= drafts
      BY <1>1, <3>1, <3>2 DEF Single, Claimed, WizardTyped
    <3>5. \A t \in Wizard!Tasks : Claimed(t)' => id'[t] # drafts + 1 /\ id'[t] <= drafts + 1
      BY <3>1, <3>4
    <3>6. \A i \in Wizard!Ids : i \in Nat /\ (i > drafts + 1 => i > drafts)
      BY <3>1, MaxDraftsAssumption DEF Wizard!Ids
    <3>7. \A t \in Wizard!Tasks : wizardPc'[t] \in {"create", "post"} => posts[id'[t]] = 0
      BY <3>1, <3>2 DEF Single
    <3>8. QED
      BY <3>1, <3>3, <3>4, <3>5, <3>6, <3>7, Zenon DEF Single
  <2>3. QED
    BY <2>1, <2>2
<1>8. QED
  BY <1>3, <1>4, <1>5, <1>6, <1>7 DEF WizardInv

LEMMA WizardStore ==
  ASSUME WizardInv, Wizard!Store
  PROVE  WizardInv'
<1>1. WizardTyped
  BY DEF WizardInv
<1>2. /\ wizardPc["chat"] = "store" /\ WAlone("chat") /\ WTyped'
      /\ wizardPc'["chat"] \in {"idle", "offer", "finish"}
      /\ WellFormed(draft'["chat"])
      /\ "cwd" \in draft'["chat"].payload => Modelled(draft'["chat"].payload)
      /\ wizardRecord' = draft["chat"] /\ WellFormed(wizardRecord') /\ wizardRecord' \in DraftTypes
      /\ wizardRecord'.phase \in Wizard!Phases
      /\ wizardPc'["chat"] # "idle" =>
           /\ draft'["chat"].phase = draft["chat"].phase
           /\ draft'["chat"].payload = draft["chat"].payload
      /\ UNCHANGED <<inter, wizardButtons, drafts, posts, spaces, wizardFaults>>
  <2> DEFINE old == draft["chat"]
             d == IF action \in Wizard!Kinds THEN [old EXCEPT !.rev = 0] ELSE old
             where == Wizard!Following(old.payload)
  <2>1. /\ wizardPc["chat"] = "store" /\ wizardRecord' = old
        /\ UNCHANGED <<inter, wizardButtons, drafts, posts, spaces, wizardFaults>>
        /\ \/ Wizard!Done("chat")
           \/ Wizard!Goto("chat", where) /\ Wizard!Work("chat", d) /\ UNCHANGED id
    BY DEF Wizard!Store, Wizard!spaceVars
  <2>2. old \in DraftTypes /\ WellFormed(old) /\ old.phase \in Wizard!Phases
    BY <1>1, <2>1, NoneTyped DEF WizardInv, WizardTyped, Formed
  <2>3. where \in {"offer", "finish"} /\ where \in WizardPlaces
    BY DEF Wizard!Following, WizardPlaces
  <2> HIDE DEF old, where
  <2>4. d \in DraftTypes /\ d.phase = old.phase /\ d.payload = old.payload
    BY <2>2 DEF DraftTypes
  <2>5. WellFormed(d)
    BY <2>2, <2>4 DEF WellFormed
  <2> HIDE DEF d
  <2>6. CASE Wizard!Done("chat")
    <3>1. WAlone("chat") /\ wizardPc'["chat"] = "idle" /\ draft'["chat"] = Wizard!NoDraft /\ WTyped'
      BY <1>1, <2>6, WDoneEffect, NoneTyped
    <3>2. QED
      BY <2>1, <2>2, <3>1, NoneTyped DEF old
  <2>7. CASE Wizard!Goto("chat", where) /\ Wizard!Work("chat", d) /\ UNCHANGED id
    <3>1. WAlone("chat") /\ wizardPc'["chat"] = where /\ draft'["chat"] = d /\ WTyped'
      BY <1>1, <2>3, <2>4, <2>7, WWorkEffect, NoneTyped
    <3>2. "cwd" \in d.payload => Modelled(d.payload)
      BY <2>5 DEF WellFormed
    <3>3. QED
      BY <2>1, <2>2, <2>3, <2>4, <2>5, <3>1, <3>2 DEF old
  <2>8. QED
    BY <2>1, <2>6, <2>7
<1>3. WizardTyped'
  BY <1>1, <1>2, NoneTyped DEF WizardTyped, WTyped
<1>4. Formed'
  BY <1>1, <1>2, <1>3, NoneTyped DEF WizardInv, Formed, KeepsInter, WAlone
<1>5. Published'
  BY <1>1, <1>2, <1>3, NoneTyped DEF WizardInv, Published, WizardTyped, KeepsInter, WAlone
<1>6. Offered'
  BY <1>1, <1>2, <1>3, NoneTyped DEF WizardInv, Offered, SameDraft, KeepsInter, WAlone
<1>7. Single'
  BY <1>1, <1>2, <1>3, NoneTyped DEF WizardInv, Single, Claimed, WizardTyped, KeepsInter, WAlone
<1>8. QED
  BY <1>3, <1>4, <1>5, <1>6, <1>7 DEF WizardInv

LEMMA WizardOffer ==
  ASSUME WizardInv, Wizard!Offer
  PROVE  WizardInv'
<1>1. WizardTyped
  BY DEF WizardInv
<1>2. /\ wizardPc["chat"] = "offer" /\ WAlone("chat") /\ WTyped'
      /\ wizardPc'["chat"] = "idle" /\ draft'["chat"] = Wizard!NoDraft
      /\ wizardRecord' = draft["chat"] /\ WellFormed(wizardRecord') /\ wizardRecord' \in DraftTypes
      /\ wizardRecord'.phase \in Wizard!Phases
      /\ \A b \in wizardButtons' : b.rev \in Nat
      /\ \A b \in wizardButtons' :
           \/ b \in wizardButtons
           \/ /\ b.rev = IF inter = Wizard!NoInter THEN draft["chat"].rev ELSE inter.rev
              /\ b.action \in Wizard!Choices(draft["chat"]) \cup {"cancel"}
      /\ UNCHANGED <<inter, drafts, posts, spaces, wizardFaults>>
  <2> DEFINE old == draft["chat"]
             rev == IF inter = Wizard!NoInter THEN old.rev ELSE inter.rev
             actions == Wizard!Choices(old) \cup {"cancel"}
  <2>1. /\ wizardPc["chat"] = "offer" /\ wizardRecord' = old /\ Wizard!Done("chat")
        /\ wizardButtons' = wizardButtons \cup [rev : {rev}, action : actions]
        /\ UNCHANGED <<inter, drafts, posts, spaces, wizardFaults>>
    BY DEF Wizard!Offer, Wizard!spaceVars
  <2>2. old \in DraftTypes /\ WellFormed(old) /\ old.phase \in Wizard!Phases
    BY <1>1, <2>1, NoneTyped DEF WizardInv, WizardTyped, Formed
  <2>3. rev \in Nat
    BY <1>1, <2>2 DEF WizardTyped, InterTypes, DraftTypes
  <2>5. WAlone("chat") /\ wizardPc'["chat"] = "idle" /\ draft'["chat"] = Wizard!NoDraft /\ WTyped'
    BY <1>1, <2>1, WDoneEffect, NoneTyped
  <2> HIDE DEF rev, actions
  <2>6. (\A b \in wizardButtons' : b.rev \in Nat)
        /\ \A b \in wizardButtons' : b \in wizardButtons \/ (b.rev = rev /\ b.action \in actions)
    <3>1. \A b \in wizardButtons' :
            b \in wizardButtons \/ (b.rev = rev /\ b.action \in actions)
      <4> DEFINE more == [rev : {rev}, action : actions]
      <4>1. \A b \in more : b.rev = rev /\ b.action \in actions
        OBVIOUS
      <4>2. wizardButtons' = wizardButtons \cup more
        BY <2>1
      <4> HIDE DEF more
      <4>3. ASSUME NEW b \in wizardButtons'
            PROVE  b \in wizardButtons \/ b \in more
        BY <4>2, <4>3
      <4>4. QED
        BY <4>1, <4>3, Zenon
    <3>2. QED
      BY <1>1, <2>3, <3>1 DEF WizardTyped
  <2> HIDE DEF old
  <2>7. QED
    BY <2>1, <2>2, <2>5, <2>6, Zenon DEF old, rev, actions
<1>3. WizardTyped'
  BY <1>1, <1>2, NoneTyped DEF WizardTyped, WTyped
<1>4. Formed'
  BY <1>1, <1>2, <1>3, NoneTyped DEF WizardInv, Formed, KeepsInter, WAlone
<1>5. Published'
  BY <1>1, <1>2, <1>3, NoneTyped DEF WizardInv, Published, WizardTyped, KeepsInter, WAlone
<1>6. Offered'
  <2>1. SUFFICES ASSUME inter' # Wizard!NoInter PROVE Offered'
    BY DEF Offered
  <2>2. /\ inter' = inter /\ inter # Wizard!NoInter /\ SameDraft(draft["chat"], inter)
        /\ SameDraft(wizardRecord', inter') /\ inter.rev \in Nat
    BY <1>1, <1>2, <2>1 DEF WizardInv, WizardTyped, InterTypes, Offered
  <2>3. Wizard!Choices(draft["chat"]) = Wizard!Choices(inter)
    BY <2>2, ChoicesKept DEF SameDraft
  <2>4. ASSUME NEW b \in wizardButtons'
        PROVE  b.rev <= inter.rev /\ (b.rev = inter.rev =>
                 b.action \in Wizard!Choices(inter) \cup {"cancel"})
    <3>1. CASE b \in wizardButtons
      BY <2>2, <3>1 DEF WizardInv, Offered
    <3>2. CASE b.rev = inter.rev /\ b.action \in Wizard!Choices(inter) \cup {"cancel"}
      BY <2>2, <3>2
    <3>3. QED
      BY <1>2, <2>2, <2>3, <2>4, <3>1, <3>2
  <2>5. QED
    BY <1>2, <2>2, <2>4 DEF Offered
<1>7. Single'
  BY <1>1, <1>2, <1>3, NoneTyped DEF WizardInv, Single, Claimed, WizardTyped, KeepsInter, WAlone
<1>8. QED
  BY <1>3, <1>4, <1>5, <1>6, <1>7 DEF WizardInv

LEMMA WizardPress ==
  ASSUME WizardInv, NEW b \in wizardButtons, Wizard!Press(b)
  PROVE  WizardInv'
<1>1. WizardTyped
  BY DEF WizardInv
<1>2. /\ wizardPc["chat"] = "idle" /\ WAlone("chat") /\ WTyped' /\ id' = id
      /\ b.rev = inter.rev /\ wizardRecord # Wizard!NoDraft /\ draft'["chat"] = wizardRecord
      /\ wizardPc'["chat"] \in {"clean", "finish", "advance"} /\ action' = b.action
      /\ wizardPc'["chat"] = "advance" => b.action # "cancel"
      /\ wizardButtons' \subseteq wizardButtons
      /\ UNCHANGED <<wizardRecord, inter, drafts, posts, spaces, wizardFaults>>
  <2> DEFINE where == CASE b.action = "cancel" -> "clean"
                        [] b.action = "hello" -> "finish"
                        [] OTHER -> "advance"
  <2>1. /\ wizardPc["chat"] = "idle" /\ Wizard!Work("chat", wizardRecord)
        /\ Wizard!Goto("chat", where) /\ action' = b.action
        /\ b.rev = inter.rev /\ wizardRecord # Wizard!NoDraft
        /\ wizardButtons' = wizardButtons \ {b} /\ UNCHANGED id
        /\ UNCHANGED <<wizardRecord, inter, drafts, posts, spaces, wizardFaults>>
    BY DEF Wizard!Press, Wizard!Present, Wizard!spaceVars
  <2>2. where \in {"clean", "finish", "advance"} /\ (where = "advance" => b.action # "cancel")
    OBVIOUS
  <2> HIDE DEF where
  <2>3. where \in WizardPlaces /\ wizardRecord \in DraftTypes
    BY <1>1, <2>2 DEF WizardPlaces, WizardTyped
  <2>4. WAlone("chat") /\ wizardPc'["chat"] = where /\ draft'["chat"] = wizardRecord /\ WTyped'
    BY <1>1, <2>1, <2>3, WWorkEffect, NoneTyped
  <2>5. QED
    BY <2>1, <2>2, <2>4
<1>3. WizardTyped'
  BY <1>1, <1>2, NoneTyped DEF WizardTyped, WTyped
<1>4. Formed'
  BY <1>1, <1>2, <1>3, NoneTyped DEF WizardInv, Formed, KeepsInter, WAlone, WellFormed
<1>5. Published'
  BY <1>1, <1>2, <1>3, NoneTyped DEF WizardInv, Published, WizardTyped, KeepsInter, WAlone
<1>6. Offered'
  <2>1. SUFFICES ASSUME inter' # Wizard!NoInter PROVE Offered'
    BY DEF Offered
  <2>2. inter' = inter /\ inter # Wizard!NoInter /\ Offered /\ wizardRecord' = wizardRecord
    BY <1>2, <2>1 DEF WizardInv
  <2>3. /\ b.action \in Wizard!Choices(inter) \cup {"cancel"} /\ SameDraft(wizardRecord, inter)
    BY <1>2, <2>2 DEF Offered
  <2>4. Wizard!Choices(wizardRecord) = Wizard!Choices(inter)
    BY <2>3, ChoicesKept DEF SameDraft
  <2>5. wizardPc'["chat"] = "advance" => action' \in Wizard!Choices(draft'["chat"])
    BY <1>2, <2>3, <2>4
  <2>6. QED
    BY <1>2, <2>2, <2>5 DEF Offered
<1>7. Single'
  BY <1>1, <1>2, <1>3, NoneTyped DEF WizardInv, Single, Claimed, WizardTyped, KeepsInter, WAlone
<1>8. QED
  BY <1>3, <1>4, <1>5, <1>6, <1>7 DEF WizardInv

LEMMA WizardText ==
  ASSUME WizardInv, Wizard!Text
  PROVE  WizardInv'
<1>1. WizardTyped
  BY DEF WizardInv
<1>2. /\ wizardPc["chat"] = "idle" /\ WAlone("chat") /\ WTyped' /\ id' = id
      /\ wizardRecord # Wizard!NoDraft /\ draft'["chat"] = wizardRecord
      /\ wizardPc'["chat"] \in {"clean", "finish", "advance"} /\ action' = "text"
      /\ wizardPc'["chat"] = "advance" => wizardRecord.phase \in ProjectPhases
      /\ UNCHANGED <<wizardRecord, inter, wizardButtons, drafts, posts, spaces, wizardFaults>>
  <2>1. /\ wizardPc["chat"] = "idle" /\ Wizard!Work("chat", wizardRecord)
        /\ wizardRecord # Wizard!NoDraft /\ action' = "text" /\ UNCHANGED id
        /\ UNCHANGED <<wizardRecord, inter, wizardButtons, drafts, posts, spaces, wizardFaults>>
    BY DEF Wizard!Text, Wizard!Present, Wizard!spaceVars, Wizard!draftVars
  <2>2. \/ Wizard!Goto("chat", "clean") \/ Wizard!Goto("chat", "finish")
        \/ Wizard!Goto("chat", "advance") /\ wizardRecord.phase \in ProjectPhases
    BY DEF Wizard!Text, ProjectPhases
  <2>3. wizardRecord \in DraftTypes
    BY <1>1 DEF WizardTyped
  <2>4. ASSUME NEW where \in {"clean", "finish", "advance"}, Wizard!Goto("chat", where)
        PROVE  WAlone("chat") /\ wizardPc'["chat"] = where /\ draft'["chat"] = wizardRecord /\
                 WTyped'
    <3>1. where \in WizardPlaces
      BY DEF WizardPlaces
    <3>2. QED
      BY <1>1, <2>1, <2>3, <2>4, <3>1, WWorkEffect, NoneTyped
  <2>5. QED
    BY <2>1, <2>2, <2>4
<1>3. WizardTyped'
  BY <1>1, <1>2, NoneTyped DEF WizardTyped, WTyped
<1>4. Formed'
  BY <1>1, <1>2, <1>3, NoneTyped DEF WizardInv, Formed, KeepsInter, WAlone, WellFormed
<1>5. Published'
  BY <1>1, <1>2, <1>3, NoneTyped DEF WizardInv, Published, WizardTyped, KeepsInter, WAlone
<1>6. Offered'
  BY <1>1, <1>2, <1>3, NoneTyped DEF WizardInv, Offered, SameDraft, KeepsInter, WAlone
<1>7. Single'
  BY <1>1, <1>2, <1>3, NoneTyped DEF WizardInv, Single, Claimed, WizardTyped, KeepsInter, WAlone
<1>8. QED
  BY <1>3, <1>4, <1>5, <1>6, <1>7 DEF WizardInv

LEMMA WizardAdvance ==
  ASSUME WizardInv, Wizard!Advance
  PROVE  WizardInv'
<1>1. WizardTyped
  BY DEF WizardInv
<1>2. /\ wizardPc["chat"] = "advance" /\ WAlone("chat") /\ wizardPc'["chat"] = "store" /\ WTyped'
      /\ id' = id
      /\ WellFormed(draft'["chat"]) /\ draft'["chat"].phase \in Wizard!Phases
      /\ "cwd" \in draft'["chat"].payload => Modelled(draft'["chat"].payload)
      /\ WellFormed(inter') /\ inter'.phase \in Wizard!Phases /\ SameDraft(draft'["chat"], inter')
      /\ inter # Wizard!NoInter /\ inter' # Wizard!NoInter /\ inter' \in InterTypes
      /\ inter'.created = inter.created /\ inter'.claim = inter.claim
      /\ inter'.rev = inter.rev + 1 /\ inter.rev \in Nat
      /\ wizardButtons' = {b \in wizardButtons : b.rev # inter.rev}
      /\ UNCHANGED <<wizardRecord, drafts, posts, spaces, wizardFaults>>
  <2> DEFINE old == draft["chat"]
             next == inter.rev + 1
  <2>1. /\ wizardPc["chat"] = "advance" /\ Wizard!Goto("chat", "store") /\ inter # Wizard!NoInter
        /\ wizardButtons' = {b \in wizardButtons : b.rev # inter.rev} /\ UNCHANGED id
        /\ UNCHANGED <<wizardRecord, drafts, posts, spaces, wizardFaults>>
    BY DEF Wizard!Advance, Wizard!Current, Wizard!spaceVars
  <2>2. PICK s \in Wizard!Steps(action, old.payload) :
          /\ inter' = [inter EXCEPT !.phase = s[1], !.payload = s[2], !.rev = @ + 1]
          /\ Wizard!Work("chat", [phase |-> s[1], payload |-> s[2], rev |-> next])
    BY DEF Wizard!Advance
  <2>3. /\ old \in DraftTypes /\ WellFormed(old) /\ old.phase \in Wizard!Phases
        /\ \/ action = "text" /\ old.phase \in ProjectPhases
           \/ action \in Wizard!Choices(old)
        /\ inter \in InterTypes /\ inter.rev \in Nat /\ next \in Nat
    BY <1>1, <2>1, NoneTyped DEF WizardInv, WizardTyped, Formed, Offered, InterTypes
  <2> DEFINE d == [phase |-> s[1], payload |-> s[2], rev |-> next]
             i == [inter EXCEPT !.phase = s[1], !.payload = s[2], !.rev = next]
  <2>4. s[1] \in Wizard!Phases /\ s[2] \in SUBSET Wizard!Keys /\ Shaped(s[1], s[2])
    BY <2>3, StepsFormed
  <2> HIDE DEF old, next
  <2>5. s[1] \in WizardPhases /\ s[1] # "none"
    BY <2>4 DEF WizardPhases, Wizard!Phases
  <2>6. d \in DraftTypes /\ d.phase = s[1] /\ d.payload = s[2]
    BY <2>3, <2>4, <2>5 DEF DraftTypes
  <2>7. /\ i \in InterTypes /\ i.phase = s[1] /\ i.payload = s[2] /\ i.rev = next
        /\ i.created = inter.created /\ i.claim = inter.claim
    BY <2>3, <2>4, <2>5 DEF InterTypes
  <2>8. i # Wizard!NoInter
    BY <2>5, <2>7 DEF Wizard!NoInter
  <2>9. inter' = i /\ Wizard!Work("chat", d)
    BY <2>2 DEF next
  <2> HIDE DEF i, d
  <2>10. WAlone("chat") /\ wizardPc'["chat"] = "store" /\ draft'["chat"] = d /\ WTyped'
    BY <1>1, <2>1, <2>6, <2>9, WWorkEffect, NoneTyped DEF WizardPlaces
  <2>11. WellFormed(d) /\ WellFormed(i) /\ SameDraft(d, i) /\ ("cwd" \in d.payload =>
           Modelled(d.payload))
    BY <2>4, <2>6, <2>7 DEF WellFormed, SameDraft, Shaped
  <2>12. d.phase \in Wizard!Phases /\ i.phase \in Wizard!Phases
    BY <2>4, <2>6, <2>7
  <2>13. i.rev = inter.rev + 1
    BY <2>7 DEF next
  <2>14. QED
    BY <2>1, <2>3, <2>7, <2>8, <2>9, <2>10, <2>11, <2>12, <2>13, Zenon
<1>3. WizardTyped'
  BY <1>1, <1>2, NoneTyped DEF WizardTyped, WTyped
<1>4. Formed'
  BY <1>1, <1>2, <1>3, NoneTyped DEF WizardInv, Formed, KeepsInter, WAlone
<1>5. Published'
  BY <1>1, <1>2, <1>3, NoneTyped DEF WizardInv, Published, WizardTyped, KeepsInter, WAlone
<1>6. Offered'
  <2>1. \A b \in wizardButtons : b.rev \in Nat /\ b.rev <= inter.rev
    BY <1>1, <1>2 DEF WizardInv, WizardTyped, Offered
  <2>2. \A b \in wizardButtons' : b.rev <= inter'.rev /\ b.rev # inter'.rev
    BY <1>2, <2>1
  <2>3. QED
    BY <1>2, <2>2 DEF Offered
<1>7. Single'
  BY <1>1, <1>2, <1>3, NoneTyped DEF WizardInv, Single, Claimed, WizardTyped, KeepsInter, WAlone
<1>8. QED
  BY <1>3, <1>4, <1>5, <1>6, <1>7 DEF WizardInv

LEMMA WizardAdvanceFails ==
  ASSUME WizardInv, Wizard!AdvanceFails
  PROVE  WizardInv'
<1>1. WizardTyped
  BY DEF WizardInv
<1>2. /\ wizardPc["chat"] = "advance" /\ WAlone("chat") /\ wizardPc'["chat"] = "idle" /\ WTyped'
      /\ draft'["chat"] = Wizard!NoDraft /\ wizardFaults' \in Nat
      /\ wizardFaults' = wizardFaults \/ wizardFaults' # 0
      /\ UNCHANGED <<wizardRecord, inter, wizardButtons, drafts, posts, spaces>>
  <2>1. /\ wizardPc["chat"] = "advance" /\ Wizard!Done("chat")
        /\ wizardFaults' = wizardFaults \/ wizardFaults' = wizardFaults + 1
        /\ UNCHANGED <<wizardRecord, inter, wizardButtons, drafts, posts, spaces>>
    BY DEF Wizard!AdvanceFails, Wizard!Fault, Wizard!draftVars, Wizard!spaceVars
  <2>2. /\ WAlone("chat") /\ wizardPc'["chat"] = "idle" /\ draft'["chat"] = Wizard!NoDraft
        /\ WTyped'
    BY <1>1, <2>1, WDoneEffect, NoneTyped
  <2>3. wizardFaults' \in Nat /\ (wizardFaults' = wizardFaults \/ wizardFaults' # 0)
    BY <1>1, <2>1 DEF WizardTyped
  <2>4. QED
    BY <2>1, <2>2, <2>3
<1>3. WizardTyped'
  BY <1>1, <1>2, NoneTyped DEF WizardTyped, WTyped
<1>4. Formed'
  BY <1>1, <1>2, <1>3, NoneTyped DEF WizardInv, Formed, KeepsInter, WAlone
<1>5. Published'
  BY <1>1, <1>2, <1>3, NoneTyped DEF WizardInv, Published, WizardTyped, KeepsInter, WAlone
<1>6. Offered'
  BY <1>1, <1>2, <1>3, NoneTyped DEF WizardInv, Offered, SameDraft, KeepsInter, WAlone
<1>7. Single'
  BY <1>1, <1>2, <1>3, NoneTyped DEF WizardInv, Single, Claimed, WizardTyped, KeepsInter, WAlone
<1>8. QED
  BY <1>3, <1>4, <1>5, <1>6, <1>7 DEF WizardInv

LEMMA WizardFinish ==
  ASSUME WizardInv, NEW t \in Wizard!Tasks, Wizard!Finish(t)
  PROVE  WizardInv'
<1>1. WizardTyped
  BY DEF WizardInv
<1>2. /\ wizardPc[t] = "finish" /\ WAlone(t) /\ WTyped' /\ KeepsInter /\ inter' \in InterTypes
      /\ WellFormed(inter') /\ (t # "chat" => action' = action)
      /\ \/ /\ inter' = inter /\ wizardPc'[t] = "idle" /\ draft'[t] = Wizard!NoDraft
         \/ /\ inter # Wizard!NoInter /\ inter.claim # "held" /\ wizardPc'[t] = "create"
            /\ inter'.claim = "held" /\ inter'.created = inter.created /\ inter'.phase = inter.phase
            /\ id'[t] = inter.created /\ draft'[t].payload = inter.payload
      /\ UNCHANGED <<wizardRecord, wizardButtons, drafts, posts, spaces, wizardFaults>>
  <2>1. /\ wizardPc[t] = "finish"
        /\ UNCHANGED <<wizardRecord, wizardButtons, drafts, posts, spaces, wizardFaults>>
    BY DEF Wizard!Finish, Wizard!spaceVars
  <2>2. WellFormed(inter) /\ inter \in InterTypes
    BY <1>1 DEF WizardInv, Formed, WizardTyped
  <2>3. CASE Wizard!Claimable(t)
    <3> DEFINE d == [draft[t] EXCEPT !.payload = inter.payload]
    <3>1. /\ inter # Wizard!NoInter /\ inter.claim # "held" /\ Wizard!Goto(t, "create")
          /\ inter' = [inter EXCEPT !.claim = "held"] /\ action' = action
          /\ id' = [id EXCEPT ![t] = inter.created] /\ Wizard!Work(t, d)
      BY <2>3 DEF Wizard!Finish, Wizard!Claimable, Wizard!ClaimableTwice, Wizard!Current
    <3>2. d \in DraftTypes /\ d.payload = inter.payload /\ inter.created \in Nat
      BY <1>1, <2>2 DEF WizardTyped, DraftTypes, InterTypes
    <3> HIDE DEF d
    <3>3. /\ WAlone(t) /\ WTyped' /\ wizardPc'[t] = "create" /\ draft'[t] = d
          /\ id'[t] = inter.created
      BY <1>1, <3>1, <3>2 DEF Wizard!Goto, Wizard!Work, WizardTyped, WAlone, WTyped, WizardPlaces
    <3>4. /\ KeepsInter /\ inter' \in InterTypes /\ WellFormed(inter') /\ inter'.claim = "held"
          /\ inter'.created = inter.created /\ inter'.phase = inter.phase
      BY <1>1, <2>2, <3>1, ClaimKept
    <3>5. QED
      BY <2>1, <3>1, <3>2, <3>3, <3>4, Zenon
  <2>4. CASE ~Wizard!Claimable(t)
    <3>1. Wizard!Done(t) /\ inter' = inter
      BY <2>4 DEF Wizard!Finish
    <3>2. /\ WAlone(t) /\ wizardPc'[t] = "idle" /\ draft'[t] = Wizard!NoDraft /\ WTyped'
          /\ t # "chat" => action' = action
      BY <1>1, <3>1, WDoneEffect
    <3>3. KeepsInter
      BY <3>1 DEF KeepsInter
    <3>4. QED
      BY <2>1, <2>2, <3>1, <3>2, <3>3
  <2>5. QED
    BY <2>3, <2>4
<1>3. WizardTyped'
  BY <1>1, <1>2, NoneTyped DEF WizardTyped, WTyped
<1>4. Formed'
  BY <1>1, <1>2, <1>3, NoneTyped DEF WizardInv, Formed, KeepsInter, WAlone, WellFormed
<1>5. Published'
  BY <1>1, <1>2, <1>3, NoneTyped DEF WizardInv, Published, WizardTyped, KeepsInter, WAlone
<1>6. Offered'
  BY <1>1, <1>2, <1>3, NoneTyped DEF WizardInv, Offered, SameDraft, KeepsInter, WAlone
<1>7. Single'
  <2>1. CASE wizardPc'[t] = "idle"
    BY <1>1, <1>2, <2>1 DEF WizardInv, Single, Claimed, WizardTyped, WAlone
  <2>2. CASE inter # Wizard!NoInter /\ wizardPc'[t] = "create"
    <3>1. SUFFICES ASSUME wizardFaults = 0 PROVE Single'
      BY <1>2 DEF Single
    <3>2. Single /\ inter.claim = "free" /\ inter.created = drafts /\ posts[inter.created] = 0
          /\ drafts \in Nat /\ id'[t] = inter.created /\ inter'.claim = "held"
          /\ inter'.created = inter.created
      BY <1>1, <1>2, <2>2, <3>1 DEF WizardInv, Single, WizardTyped
    <3>3. \A u \in Wizard!Tasks \ {t} :
            /\ wizardPc'[u] = wizardPc[u] /\ id'[u] = id[u]
            /\ Claimed(u)' => Claimed(u) /\ id[u] # inter.created
      BY <1>2, <3>1, <3>2 DEF Single, Claimed, WAlone
    <3>4. id'[t] <= drafts /\ posts[id'[t]] = 0
      BY <3>2
    <3>5. \A u \in Wizard!Tasks : Claimed(u)' => id'[u] <= drafts
      BY <3>1, <3>2, <3>3, <3>4 DEF Single
    <3>6. \A u \in Wizard!Tasks : wizardPc'[u] \in {"create", "post"} => posts[id'[u]] = 0
      BY <3>1, <3>2, <3>3, <3>4 DEF Single
    <3>7. \A u, v \in Wizard!Tasks : u # v /\ Claimed(u)' /\ Claimed(v)' => id'[u] # id'[v]
      BY <3>1, <3>2, <3>3 DEF Single
    <3>8. QED
      BY <1>2, <3>1, <3>2, <3>5, <3>6, <3>7, Zenon DEF Single
  <2>3. QED
    BY <1>2, <2>1, <2>2
<1>8. QED
  BY <1>3, <1>4, <1>5, <1>6, <1>7 DEF WizardInv

LEMMA WizardCreate ==
  ASSUME WizardInv, NEW t \in Wizard!Tasks, Wizard!Create(t)
  PROVE  WizardInv'
<1>1. WizardTyped
  BY DEF WizardInv
<1>2. /\ wizardPc[t] = "create" /\ WAlone(t) /\ WTyped' /\ wizardPc'[t] \in {"clean", "post"}
      /\ draft' = draft /\ id' = id /\ action' = action /\ id[t] \in Wizard!Ids
      /\ wizardPc'[t] = "post" => Publishable(draft[t].payload)
      /\ \/ spaces' = spaces
         \/ /\ Publishable(draft[t].payload) /\ Modelled(draft[t].payload)
            /\ draft[t].payload \in SUBSET (Wizard!Keys \cup {"none"})
            /\ spaces' = [spaces EXCEPT ![id[t]] = draft[t].payload]
      /\ UNCHANGED <<wizardRecord, inter, wizardButtons, drafts, posts, wizardFaults>>
  <2> DEFINE chosen == draft[t].payload
  <2>1. /\ wizardPc[t] = "create" /\ draft' = draft /\ id' = id /\ action' = action
        /\ UNCHANGED <<wizardRecord, inter, wizardButtons, drafts, posts, wizardFaults>>
    BY DEF Wizard!Create, Wizard!draftVars
  <2>2. \/ Wizard!Goto(t, "clean") /\ spaces' = spaces
        \/ /\ Wizard!Goto(t, "clean") /\ Publishable(chosen)
           /\ spaces' = [spaces EXCEPT ![id[t]] = chosen]
        \/ Wizard!Goto(t, "post") /\ Publishable(chosen) /\ spaces' = spaces
    BY DEF Wizard!Create, Publishable
  <2>3. id[t] \in Wizard!Ids /\ chosen \in SUBSET (Wizard!Keys \cup {"none"})
    BY <1>1, <2>1 DEF WizardInv, Published, WizardTyped, DraftTypes
  <2>4. Publishable(chosen) => Modelled(chosen)
    BY DEF WizardInv, Formed, Publishable
  <2> HIDE DEF chosen
  <2>5. CASE Wizard!Goto(t, "clean")
    <3>1. WAlone(t) /\ WTyped' /\ wizardPc'[t] = "clean"
      BY <1>1, <2>1, <2>5, WGoEffect DEF WizardPlaces
    <3>2. spaces' = spaces \/ (Publishable(chosen) /\ spaces' = [spaces EXCEPT ![id[t]] = chosen])
      BY <2>2
    <3>3. QED
      BY <2>1, <2>3, <2>4, <3>1, <3>2 DEF chosen
  <2>6. CASE Wizard!Goto(t, "post") /\ Publishable(chosen) /\ spaces' = spaces
    <3>1. WAlone(t) /\ WTyped' /\ wizardPc'[t] = "post"
      BY <1>1, <2>1, <2>6, WGoEffect DEF WizardPlaces
    <3>2. QED
      BY <2>1, <2>3, <2>6, <3>1 DEF chosen
  <2>7. QED
    BY <2>2, <2>5, <2>6
<1>3. WizardTyped'
  BY <1>1, <1>2, NoneTyped DEF WizardTyped, WTyped
<1>4. Formed'
  BY <1>1, <1>2, <1>3, NoneTyped DEF WizardInv, Formed, KeepsInter, WAlone
<1>5. Published'
  BY <1>1, <1>2, <1>3, NoneTyped DEF WizardInv, Published, WizardTyped, KeepsInter, WAlone
<1>6. Offered'
  BY <1>1, <1>2, <1>3, NoneTyped DEF WizardInv, Offered, SameDraft, KeepsInter, WAlone
<1>7. Single'
  BY <1>1, <1>2, <1>3, NoneTyped DEF WizardInv, Single, Claimed, WizardTyped, KeepsInter, WAlone
<1>8. QED
  BY <1>3, <1>4, <1>5, <1>6, <1>7 DEF WizardInv

LEMMA WizardPost ==
  ASSUME WizardInv, NEW t \in Wizard!Tasks, Wizard!Post(t)
  PROVE  WizardInv'
<1>1. WizardTyped
  BY DEF WizardInv
<1>2. /\ wizardPc[t] = "post" /\ WAlone(t) /\ WTyped' /\ wizardPc'[t] = "space"
      /\ draft' = draft /\ id' = id /\ action' = action /\ id[t] \in Wizard!Ids
      /\ posts' = [posts EXCEPT ![id[t]] = posts[id[t]] + 1]
      /\ posts' \in [Wizard!Ids -> Nat]
      /\ UNCHANGED <<wizardRecord, inter, wizardButtons, drafts, spaces, wizardFaults>>
  <2>1. /\ wizardPc[t] = "post" /\ Wizard!Goto(t, "space")
        /\ draft' = draft /\ id' = id /\ action' = action
        /\ posts' = [posts EXCEPT ![id[t]] = posts[id[t]] + 1]
        /\ UNCHANGED <<wizardRecord, inter, wizardButtons, drafts, spaces, wizardFaults>>
    BY DEF Wizard!Post, Wizard!draftVars
  <2>2. id[t] \in Wizard!Ids
    BY <2>1 DEF WizardInv, Published
  <2>3. posts' \in [Wizard!Ids -> Nat]
    BY <1>1, <2>1, <2>2 DEF WizardTyped
  <2>4. WAlone(t) /\ WTyped' /\ wizardPc'[t] = "space"
    BY <1>1, <2>1, WGoEffect DEF WizardPlaces
  <2>5. QED
    BY <2>1, <2>2, <2>3, <2>4
<1>3. WizardTyped'
  BY <1>1, <1>2, NoneTyped DEF WizardTyped, WTyped
<1>4. Formed'
  BY <1>1, <1>2, <1>3, NoneTyped DEF WizardInv, Formed, KeepsInter, WAlone
<1>5. Published'
  BY <1>1, <1>2, <1>3, NoneTyped DEF WizardInv, Published, WizardTyped, KeepsInter, WAlone
<1>6. Offered'
  BY <1>1, <1>2, <1>3, NoneTyped DEF WizardInv, Offered, SameDraft, KeepsInter, WAlone
<1>7. Single'
  <2>1. SUFFICES ASSUME wizardFaults = 0 PROVE Single'
    BY <1>2 DEF Single
  <2>2. Single /\ posts[id[t]] = 0 /\ id[t] <= drafts /\ drafts \in Nat /\ inter' = inter
    BY <1>1, <1>2, <2>1 DEF WizardInv, Single, Claimed, WizardTyped
  <2>3. posts'[id[t]] = 1 /\ \A i \in Wizard!Ids : i # id[t] => posts'[i] = posts[i]
    BY <1>2, <2>2
  <2>4. \A u \in Wizard!Tasks : u # t /\ Claimed(u) => id[u] # id[t]
    BY <1>2, <2>1, <2>2 DEF Single, Claimed
  <2>5. \A u \in Wizard!Tasks : /\ Claimed(u)' => Claimed(u)
                                /\ wizardPc'[u] \in {"create", "post"} => u # t /\
                                         wizardPc'[u] = wizardPc[u]
    BY <1>2 DEF Claimed, WAlone
  <2>6. inter # Wizard!NoInter /\ inter.claim = "free" => id[t] # inter.created
    BY <1>2, <2>1, <2>2 DEF Single, Claimed
  <2>7. \A i \in Wizard!Ids : posts'[i] <= 1 /\ (i > drafts => posts'[i] = 0)
    BY <1>2, <2>1, <2>2, <2>3, MaxDraftsAssumption DEF Single, Wizard!Ids
  <2>8. \A u \in Wizard!Tasks : wizardPc'[u] \in {"create", "post"} => posts'[id'[u]] = 0
    BY <1>2, <2>1, <2>2, <2>3, <2>4, <2>5 DEF Single, Claimed, WizardInv, Published
  <2>9. inter # Wizard!NoInter /\ inter.claim = "free" => posts'[inter.created] = 0
    BY <2>1, <2>2, <2>3, <2>6 DEF Single, WizardInv, Published
  <2>10. QED
    BY <1>2, <2>1, <2>2, <2>5, <2>7, <2>8, <2>9 DEF Single
<1>8. QED
  BY <1>3, <1>4, <1>5, <1>6, <1>7 DEF WizardInv

LEMMA WizardPostFails ==
  ASSUME WizardInv, NEW t \in Wizard!Tasks, Wizard!PostFails(t)
  PROVE  WizardInv'
<1>1. WizardTyped
  BY DEF WizardInv
<1>2. /\ wizardPc[t] = "post" /\ WAlone(t) /\ WTyped' /\ wizardPc'[t] = "clean"
      /\ draft' = draft /\ id' = id /\ action' = action
      /\ posts' \in [Wizard!Ids -> Nat] /\ wizardFaults' # 0 /\ wizardFaults' \in Nat
      /\ UNCHANGED <<wizardRecord, inter, wizardButtons, drafts, spaces>>
  <2>1. /\ wizardPc[t] = "post" /\ Wizard!Goto(t, "clean")
        /\ draft' = draft /\ id' = id /\ action' = action
        /\ posts' \in {posts, [posts EXCEPT ![id[t]] = posts[id[t]] + 1]}
        /\ UNCHANGED <<wizardRecord, inter, wizardButtons, drafts, spaces>>
        /\ wizardFaults' = wizardFaults + 1
    BY DEF Wizard!PostFails, Wizard!Fault, Wizard!draftVars
  <2>2. id[t] \in Wizard!Ids
    BY <2>1 DEF WizardInv, Published
  <2>3. posts' \in [Wizard!Ids -> Nat]
    BY <1>1, <2>1, <2>2 DEF WizardTyped
  <2>4. WAlone(t) /\ WTyped' /\ wizardPc'[t] = "clean"
    BY <1>1, <2>1, WGoEffect DEF WizardPlaces
  <2>5. wizardFaults' # 0 /\ wizardFaults' \in Nat
    BY <1>1, <2>1 DEF WizardTyped
  <2>6. QED
    BY <2>1, <2>3, <2>4, <2>5
<1>3. WizardTyped'
  BY <1>1, <1>2, NoneTyped DEF WizardTyped, WTyped
<1>4. Formed'
  BY <1>1, <1>2, <1>3, NoneTyped DEF WizardInv, Formed, KeepsInter, WAlone
<1>5. Published'
  BY <1>1, <1>2, <1>3, NoneTyped DEF WizardInv, Published, WizardTyped, KeepsInter, WAlone
<1>6. Offered'
  BY <1>1, <1>2, <1>3, NoneTyped DEF WizardInv, Offered, SameDraft, KeepsInter, WAlone
<1>7. Single'
  BY <1>1, <1>2, <1>3, NoneTyped DEF WizardInv, Single, Claimed, WizardTyped, KeepsInter, WAlone
<1>8. QED
  BY <1>3, <1>4, <1>5, <1>6, <1>7 DEF WizardInv

LEMMA WizardSpace ==
  ASSUME WizardInv, NEW t \in Wizard!Tasks, Wizard!Space(t)
  PROVE  WizardInv'
<1>1. WizardTyped
  BY DEF WizardInv
<1>2. /\ wizardPc[t] = "space" /\ WAlone(t) /\ WTyped' /\ wizardPc'[t] = "clean"
      /\ draft' = draft /\ id' = id /\ action' = action /\ id[t] \in Wizard!Ids
      /\ Publishable(draft[t].payload) /\ Modelled(draft[t].payload)
      /\ draft[t].payload \in SUBSET (Wizard!Keys \cup {"none"})
      /\ spaces' = [spaces EXCEPT ![id[t]] = draft[t].payload]
      /\ UNCHANGED <<wizardRecord, inter, wizardButtons, drafts, posts, wizardFaults>>
  <2>1. /\ wizardPc[t] = "space" /\ Wizard!Goto(t, "clean")
        /\ draft' = draft /\ id' = id /\ action' = action
        /\ spaces' = [spaces EXCEPT ![id[t]] = draft[t].payload]
        /\ UNCHANGED <<wizardRecord, inter, wizardButtons, drafts, posts, wizardFaults>>
    BY DEF Wizard!Space, Wizard!draftVars
  <2>2. id[t] \in Wizard!Ids /\ Publishable(draft[t].payload)
    BY <2>1 DEF WizardInv, Published
  <2>3. Modelled(draft[t].payload)
    BY <2>2 DEF WizardInv, Formed, Publishable
  <2>4. draft[t].payload \in SUBSET (Wizard!Keys \cup {"none"})
    BY <1>1 DEF WizardTyped, DraftTypes
  <2>5. WAlone(t) /\ WTyped' /\ wizardPc'[t] = "clean"
    BY <1>1, <2>1, WGoEffect DEF WizardPlaces
  <2>6. QED
    BY <2>1, <2>2, <2>3, <2>4, <2>5
<1>3. WizardTyped'
  BY <1>1, <1>2, NoneTyped DEF WizardTyped, WTyped
<1>4. Formed'
  BY <1>1, <1>2, <1>3, NoneTyped DEF WizardInv, Formed, KeepsInter, WAlone
<1>5. Published'
  BY <1>1, <1>2, <1>3, NoneTyped DEF WizardInv, Published, WizardTyped, KeepsInter, WAlone
<1>6. Offered'
  BY <1>1, <1>2, <1>3, NoneTyped DEF WizardInv, Offered, SameDraft, KeepsInter, WAlone
<1>7. Single'
  BY <1>1, <1>2, <1>3, NoneTyped DEF WizardInv, Single, Claimed, WizardTyped, KeepsInter, WAlone
<1>8. QED
  BY <1>3, <1>4, <1>5, <1>6, <1>7 DEF WizardInv

LEMMA WizardClean ==
  ASSUME WizardInv, NEW t \in Wizard!Tasks, Wizard!Clean(t)
  PROVE  WizardInv'
<1>1. WizardTyped
  BY DEF WizardInv
<1>2. /\ wizardPc[t] = "clean" /\ WAlone(t) /\ WTyped' /\ wizardPc'[t] = "remove"
      /\ draft' = draft /\ id' = id /\ action' = action /\ wizardRecord' = Wizard!NoDraft
      /\ UNCHANGED <<inter, wizardButtons, drafts, posts, spaces, wizardFaults>>
  <2>1. /\ wizardPc[t] = "clean" /\ Wizard!Goto(t, "remove")
        /\ draft' = draft /\ id' = id /\ action' = action /\ wizardRecord' = Wizard!NoDraft
        /\ UNCHANGED <<inter, wizardButtons, drafts, posts, spaces, wizardFaults>>
    BY DEF Wizard!Clean, Wizard!spaceVars
  <2>2. WAlone(t) /\ WTyped' /\ wizardPc'[t] = "remove"
    BY <1>1, <2>1, WGoEffect DEF WizardPlaces
  <2>3. QED
    BY <2>1, <2>2
<1>3. WizardTyped'
  BY <1>1, <1>2, NoneTyped DEF WizardTyped, WTyped
<1>4. Formed'
  BY <1>1, <1>2, <1>3, NoneTyped DEF WizardInv, Formed, KeepsInter, WAlone
<1>5. Published'
  BY <1>1, <1>2, <1>3, NoneTyped DEF WizardInv, Published, WizardTyped, KeepsInter, WAlone
<1>6. Offered'
  BY <1>1, <1>2, <1>3, NoneTyped DEF WizardInv, Offered, SameDraft, KeepsInter, WAlone
<1>7. Single'
  BY <1>1, <1>2, <1>3, NoneTyped DEF WizardInv, Single, Claimed, WizardTyped, KeepsInter, WAlone
<1>8. QED
  BY <1>3, <1>4, <1>5, <1>6, <1>7 DEF WizardInv

LEMMA WizardRemove ==
  ASSUME WizardInv, NEW t \in Wizard!Tasks, Wizard!Remove(t)
  PROVE  WizardInv'
<1>1. WizardTyped
  BY DEF WizardInv
<1>2. /\ wizardPc[t] = "remove" /\ WAlone(t) /\ WTyped' /\ wizardPc'[t] = "idle"
      /\ draft'[t] = Wizard!NoDraft /\ (t # "chat" => action' = action)
      /\ inter' = Wizard!NoInter /\ wizardButtons' = {}
      /\ UNCHANGED <<wizardRecord, drafts, posts, spaces, wizardFaults>>
  <2>1. /\ wizardPc[t] = "remove" /\ Wizard!Done(t)
        /\ inter' = Wizard!NoInter /\ wizardButtons' = {}
        /\ UNCHANGED <<wizardRecord, drafts, posts, spaces, wizardFaults>>
    BY DEF Wizard!Remove, Wizard!DeleteInter, Wizard!spaceVars
  <2>2. /\ WAlone(t) /\ wizardPc'[t] = "idle" /\ draft'[t] = Wizard!NoDraft /\ WTyped'
        /\ t # "chat" => action' = action
    BY <1>1, <2>1, WDoneEffect
  <2>3. QED
    BY <2>1, <2>2
<1>3. WizardTyped'
  BY <1>1, <1>2, NoneTyped DEF WizardTyped, WTyped
<1>4. Formed'
  BY <1>1, <1>2, <1>3, NoneTyped DEF WizardInv, Formed, KeepsInter, WAlone
<1>5. Published'
  BY <1>1, <1>2, <1>3, NoneTyped DEF WizardInv, Published, WizardTyped, KeepsInter, WAlone
<1>6. Offered'
  BY <1>1, <1>2, <1>3, NoneTyped DEF WizardInv, Offered, SameDraft, KeepsInter, WAlone
<1>7. Single'
  BY <1>1, <1>2, <1>3, NoneTyped DEF WizardInv, Single, Claimed, WizardTyped, KeepsInter, WAlone
<1>8. QED
  BY <1>3, <1>4, <1>5, <1>6, <1>7 DEF WizardInv

LEMMA WizardScan ==
  ASSUME WizardInv, Wizard!Scan
  PROVE  WizardInv'
<1>1. WizardTyped
  BY DEF WizardInv
<1>2. /\ wizardPc["expirer"] = "idle" /\ WAlone("expirer") /\ WTyped' /\ id' = id
      /\ wizardPc'["expirer"] \in {"finish", "scan"} /\ draft'["expirer"] = wizardRecord
      /\ action' = action
      /\ UNCHANGED <<wizardRecord, inter, wizardButtons, drafts, posts, spaces, wizardFaults>>
  <2> DEFINE where == IF wizardRecord.phase = "prompt" THEN "finish" ELSE "scan"
  <2>1. /\ wizardPc["expirer"] = "idle" /\ Wizard!Goto("expirer", where)
        /\ Wizard!Work("expirer", wizardRecord) /\ id' = id /\ action' = action
        /\ UNCHANGED <<wizardRecord, inter, wizardButtons, drafts, posts, spaces, wizardFaults>>
    BY DEF Wizard!Scan, Wizard!draftVars, Wizard!spaceVars
  <2>2. where \in {"finish", "scan"} /\ where \in WizardPlaces /\ wizardRecord \in DraftTypes
    BY <1>1 DEF WizardPlaces, WizardTyped
  <2> HIDE DEF where
  <2>3. WAlone("expirer") /\ WTyped' /\ wizardPc'["expirer"] = where /\ draft'["expirer"] =
           wizardRecord
    BY <1>1, <2>1, <2>2, WWorkEffect, NoneTyped
  <2>4. QED
    BY <2>1, <2>2, <2>3
<1>3. WizardTyped'
  BY <1>1, <1>2, NoneTyped DEF WizardTyped, WTyped
<1>4. Formed'
  BY <1>1, <1>2, <1>3, NoneTyped DEF WizardInv, Formed, KeepsInter, WAlone, WellFormed,
    Wizard!Tasks
<1>5. Published'
  BY <1>1, <1>2, <1>3, NoneTyped DEF WizardInv, Published, WizardTyped, KeepsInter, WAlone
<1>6. Offered'
  BY <1>1, <1>2, <1>3, NoneTyped DEF WizardInv, Offered, SameDraft, KeepsInter, WAlone,
    Wizard!Tasks
<1>7. Single'
  BY <1>1, <1>2, <1>3, NoneTyped DEF WizardInv, Single, Claimed, WizardTyped, KeepsInter, WAlone
<1>8. QED
  BY <1>3, <1>4, <1>5, <1>6, <1>7 DEF WizardInv

LEMMA WizardExpire ==
  ASSUME WizardInv, Wizard!Expire
  PROVE  WizardInv'
<1>1. WizardTyped
  BY DEF WizardInv
<1>2. /\ wizardPc["expirer"] = "scan" /\ WAlone("expirer") /\ WTyped' /\ KeepsInter
      /\ wizardPc'["expirer"] \in {"clean", "idle"} /\ action' = action
      /\ "cwd" \in draft'["expirer"].payload => Modelled(draft'["expirer"].payload)
      /\ WellFormed(draft'["expirer"]) /\ WellFormed(inter') /\ inter' \in InterTypes
      /\ \/ inter' = inter
         \/ /\ inter' # Wizard!NoInter /\ inter # Wizard!NoInter /\ inter'.claim = "held"
            /\ inter'.phase = inter.phase /\ inter'.created = inter.created
      /\ UNCHANGED <<wizardRecord, wizardButtons, drafts, posts, spaces, wizardFaults>>
  <2>1. /\ wizardPc["expirer"] = "scan"
        /\ UNCHANGED <<wizardRecord, wizardButtons, drafts, posts, spaces, wizardFaults>>
    BY DEF Wizard!Expire, Wizard!spaceVars
  <2>2. /\ WellFormed(inter) /\ inter \in InterTypes /\ WellFormed(draft["expirer"])
        /\ "cwd" \in draft["expirer"].payload => Modelled(draft["expirer"].payload)
    BY <1>1, <2>1, NoneTyped DEF WizardInv, Formed, WizardTyped
  <2>3. CASE Wizard!Claimable("expirer")
    <3>1. /\ inter # Wizard!NoInter /\ Wizard!Goto("expirer", "clean")
          /\ UNCHANGED <<draft, action, id>> /\ inter' = [inter EXCEPT !.claim = "held"]
      BY <2>3 DEF Wizard!Expire, Wizard!Claimable, Wizard!ClaimableTwice, Wizard!Current, Wizard!Go
    <3>2. WAlone("expirer") /\ WTyped' /\ wizardPc'["expirer"] = "clean"
      BY <1>1, <3>1, WGoEffect, NoneTyped DEF WizardPlaces
    <3>3. /\ KeepsInter /\ inter' \in InterTypes /\ WellFormed(inter') /\ inter'.claim = "held"
          /\ inter'.created = inter.created /\ inter'.phase = inter.phase /\ inter' # Wizard!NoInter
      BY <1>1, <2>2, <3>1, ClaimKept
    <3>4. QED
      BY <2>1, <2>2, <3>1, <3>2, <3>3
  <2>4. CASE ~Wizard!Claimable("expirer")
    <3>1. Wizard!Done("expirer") /\ inter' = inter
      BY <2>4 DEF Wizard!Expire
    <3>2. /\ WAlone("expirer") /\ wizardPc'["expirer"] = "idle" /\ WTyped'
          /\ draft'["expirer"] = Wizard!NoDraft /\ action' = action
      BY <1>1, <3>1, WDoneEffect, NoneTyped
    <3>3. KeepsInter
      BY <3>1 DEF KeepsInter
    <3>4. QED
      BY <2>1, <2>2, <3>1, <3>2, <3>3, NoneTyped
  <2>5. QED
    BY <2>3, <2>4
<1>3. WizardTyped'
  BY <1>1, <1>2, NoneTyped DEF WizardTyped, WTyped
<1>4. Formed'
  BY <1>1, <1>2, <1>3, NoneTyped DEF WizardInv, Formed, KeepsInter, WAlone, Wizard!Tasks
<1>5. Published'
  BY <1>1, <1>2, <1>3, NoneTyped DEF WizardInv, Published, WizardTyped, KeepsInter, WAlone
<1>6. Offered'
  BY <1>1, <1>2, <1>3, NoneTyped DEF WizardInv, Offered, SameDraft, KeepsInter, WAlone,
    Wizard!Tasks
<1>7. Single'
  BY <1>1, <1>2, <1>3, NoneTyped DEF WizardInv, Single, Claimed, WizardTyped, KeepsInter, WAlone
<1>8. QED
  BY <1>3, <1>4, <1>5, <1>6, <1>7 DEF WizardInv

LEMMA WizardDeadline ==
  ASSUME WizardInv, Wizard!Deadline
  PROVE  WizardInv'
<1>1. WizardTyped
  BY DEF WizardInv
<1>2. UNCHANGED <<wizardRecord, inter, wizardButtons, drafts, wizardPc, draft, action, id,
         posts, spaces,
                  wizardFaults>>
  BY DEF Wizard!Deadline, Wizard!taskVars, Wizard!spaceVars
<1>3. WizardTyped'
  BY <1>1, <1>2, NoneTyped DEF WizardTyped, WTyped
<1>4. Formed'
  BY <1>1, <1>2, <1>3, NoneTyped DEF WizardInv, Formed, KeepsInter, WAlone, WTyped
<1>5. Published'
  BY <1>1, <1>2, <1>3, NoneTyped DEF WizardInv, Published, WizardTyped, KeepsInter, WAlone,
    WTyped
<1>6. Offered'
  BY <1>1, <1>2, <1>3, NoneTyped DEF WizardInv, Offered, SameDraft, KeepsInter, WAlone
<1>7. Single'
  BY <1>1, <1>2, <1>3, NoneTyped DEF WizardInv, Single, Claimed, WizardTyped, KeepsInter, WAlone
<1>8. QED
  BY <1>3, <1>4, <1>5, <1>6, <1>7 DEF WizardInv

LEMMA WizardLeaseEnds ==
  ASSUME WizardInv, Wizard!LeaseEnds
  PROVE  WizardInv'
<1>1. WizardTyped
  BY DEF WizardInv
<1>2. /\ KeepsInter /\ inter' \in InterTypes /\ WellFormed(inter') /\ inter'.phase = inter.phase
      /\ inter # Wizard!NoInter /\ wizardFaults' # 0 /\ wizardFaults' \in Nat
      /\ UNCHANGED <<wizardRecord, wizardButtons, drafts, wizardPc, draft, action, id, posts,
               spaces>>
  <2>1. /\ inter.claim = "held" /\ inter' = [inter EXCEPT !.claim = "stale"]
        /\ wizardFaults' = wizardFaults + 1
        /\ UNCHANGED <<wizardRecord, wizardButtons, drafts, wizardPc, draft, action, id, posts,
                 spaces>>
    BY DEF Wizard!LeaseEnds, Wizard!Fault, Wizard!taskVars, Wizard!spaceVars
  <2>2. inter # Wizard!NoInter
    BY <2>1 DEF Wizard!NoInter
  <2>3. WellFormed(inter)
    BY DEF WizardInv, Formed
  <2>4. KeepsInter /\ inter' \in InterTypes /\ WellFormed(inter') /\ inter'.phase = inter.phase
    BY <1>1, <2>1, <2>2, <2>3, ClaimKept
  <2>5. wizardFaults' # 0 /\ wizardFaults' \in Nat
    BY <1>1, <2>1 DEF WizardTyped
  <2>6. QED
    BY <2>1, <2>2, <2>4, <2>5
<1>3. WizardTyped'
  BY <1>1, <1>2, NoneTyped DEF WizardTyped, WTyped
<1>4. Formed'
  BY <1>1, <1>2, <1>3, NoneTyped DEF WizardInv, Formed, KeepsInter, WAlone
<1>5. Published'
  BY <1>1, <1>2, <1>3, NoneTyped DEF WizardInv, Published, WizardTyped, KeepsInter, WAlone
<1>6. Offered'
  BY <1>1, <1>2, <1>3, NoneTyped DEF WizardInv, Offered, SameDraft, KeepsInter, WAlone
<1>7. Single'
  BY <1>1, <1>2, <1>3, NoneTyped DEF WizardInv, Single, Claimed, WizardTyped, KeepsInter, WAlone
<1>8. QED
  BY <1>3, <1>4, <1>5, <1>6, <1>7 DEF WizardInv

LEMMA WizardCrash ==
  ASSUME WizardInv, Wizard!Crash
  PROVE  WizardInv'
<1>1. WizardTyped
  BY DEF WizardInv
<1>2. /\ WTyped' /\ (\A t \in Wizard!Tasks : wizardPc'[t] = "idle" /\ draft'[t] = Wizard!NoDraft)
      /\ wizardFaults' # 0 /\ wizardFaults' \in Nat
      /\ UNCHANGED <<wizardRecord, inter, wizardButtons, drafts, posts, spaces>>
  <2>1. /\ wizardPc' = [t \in Wizard!Tasks |-> "idle"]
        /\ draft' = [t \in Wizard!Tasks |-> Wizard!NoDraft]
        /\ id' = [t \in Wizard!Tasks |-> 0] /\ wizardFaults' = wizardFaults + 1
        /\ UNCHANGED <<wizardRecord, inter, wizardButtons, drafts, posts, spaces>>
    BY DEF Wizard!Crash, Wizard!Fault, Wizard!draftVars, Wizard!spaceVars
  <2>2. WTyped' /\ \A t \in Wizard!Tasks : wizardPc'[t] = "idle" /\ draft'[t] = Wizard!NoDraft
    BY <2>1, NoneTyped DEF WTyped, WizardPlaces
  <2>3. wizardFaults' # 0 /\ wizardFaults' \in Nat
    BY <1>1, <2>1 DEF WizardTyped
  <2>4. QED
    BY <2>1, <2>2, <2>3
<1>3. WizardTyped'
  BY <1>1, <1>2, NoneTyped DEF WizardTyped, WTyped
<1>4. Formed'
  BY <1>1, <1>2, <1>3, NoneTyped DEF WizardInv, Formed, KeepsInter, WAlone
<1>5. Published'
  BY <1>1, <1>2, <1>3, NoneTyped DEF WizardInv, Published, WizardTyped, KeepsInter, WAlone
<1>6. Offered'
  BY <1>1, <1>2, <1>3, NoneTyped DEF WizardInv, Offered, SameDraft, KeepsInter, WAlone
<1>7. Single'
  BY <1>1, <1>2, <1>3, NoneTyped DEF WizardInv, Single, Claimed, WizardTyped, KeepsInter, WAlone
<1>8. QED
  BY <1>3, <1>4, <1>5, <1>6, <1>7 DEF WizardInv

LEMMA WizardStart ==
  ASSUME Wizard!Init
  PROVE  WizardInv
<1>1. /\ wizardRecord = Wizard!NoDraft /\ inter = Wizard!NoInter /\ wizardButtons = {}
      /\ drafts = 0 /\ wizardPc = [t \in Wizard!Tasks |-> "idle"]
      /\ draft = [t \in Wizard!Tasks |-> Wizard!NoDraft] /\ id = [t \in Wizard!Tasks |-> 0]
      /\ spaces = [i \in Wizard!Ids |-> Wizard!NoSpace] /\ posts = [i \in Wizard!Ids |-> 0]
      /\ wizardFaults = 0
  BY DEF Wizard!Init
<1>2. WizardTyped
  BY <1>1, NoneTyped DEF WizardTyped, WizardPlaces, Wizard!NoSpace
<1>3. Formed /\ Published /\ Offered /\ Single
  BY <1>1, NoneTyped DEF Formed, Published, Offered, Single, Claimed
<1>4. QED
  BY <1>2, <1>3 DEF WizardInv

LEMMA WizardNext ==
  ASSUME WizardInv, [Wizard!Next]_wizardVars
  PROVE  WizardInv'
<1>1. CASE Wizard!Next
  BY <1>1, WizardBegin, WizardPersist, WizardStore, WizardOffer, WizardPress, WizardText,
     WizardAdvance, WizardAdvanceFails, WizardFinish, WizardCreate, WizardPost, WizardPostFails,
     WizardSpace, WizardClean, WizardRemove, WizardScan, WizardExpire, WizardDeadline,
     WizardLeaseEnds, WizardCrash, Zenon DEF Wizard!Next
<1>2. CASE UNCHANGED wizardVars
  BY <1>2 DEF wizardVars, WizardInv, WizardTyped, Formed, Published, Offered, Single, Claimed
<1>3. QED
  BY <1>1, <1>2

\* Whatever buttons, texts, expiries and failures come, a draft of the wizard is
\* published at most once, and only with a model, its effort and a directory, and
\* with both or none of the Plan profile (handle_new_callback, finish_new_prompt,
\* run_new_interaction_expirer).
THEOREM DraftIsPublishedOnce == ChatSpec => []DraftPublishedOnce
<1>1. ChatInit => WizardInv
  BY WizardStart DEF ChatInit
<1>2. WizardInv /\ [ChatNext]_allVars => WizardInv'
  <2>1. [ChatNext]_allVars => [Wizard!Next]_wizardVars
    BY DEF ChatNext, allVars
  <2>2. QED
    BY <2>1, WizardNext
<1>3. WizardInv => DraftPublishedOnce
  <2>1. WizardInv => Wizard!OnePost
    BY DEF WizardInv, Single, Wizard!OnePost
  <2>2. WizardInv => Wizard!CompleteProfile
    BY DEF WizardInv, Published, Publishable, Modelled, Wizard!CompleteProfile
  <2>3. QED
    BY <2>1, <2>2 DEF DraftPublishedOnce
<1>4. QED
  BY <1>1, <1>2, <1>3, PTL DEF ChatSpec

------------------------------------------------------------------------------
\* TotpUnlock: where a worker is with a code, and the rows.
TotpPlaces == {"idle", "match", "recovered", "epoch", "insert", "failure", "lock"}
SecurityRows ==
    [last : Totp!Timecodes \cup {-1}, until : 0..MaxTime + UnlockTicks, forced : BOOLEAN,
     epoch : Nat, failures : 0..FailureLimit, locked : 0..MaxTime + LockTicks]
LeaseRows == [until : 0..MaxTime + UnlockTicks, epoch : Nat]
WorkRows ==
    [scope : TotpSpaces \cup {"global"}, at : 0..MaxTime, code : Totp!Codes, epoch : Nat]
TotpTyped ==
    /\ now \in 0..MaxTime
    /\ security \in SecurityRows
    /\ unused \subseteq RecoveryCodes
    /\ leases \in [TotpSpaces -> LeaseRows]
    /\ totpPc \in [TotpWorkers -> TotpPlaces]
    /\ work \in [TotpWorkers -> WorkRows]
    /\ accepted \in [Totp!Codes -> Nat] /\ shut \in BOOLEAN /\ locks \in 0..MaxLocks

\* A code is accepted at most once: what is at or below the last time, or no longer
\* among the recovery codes, is spent; and two workers never hold one recovery code.
Held(w) == totpPc[w] = "recovered"
CodesSpent ==
    /\ \A c \in Totp!Timecodes : IF c > security.last THEN accepted[c] = 0 ELSE accepted[c] <= 1
    /\ \A c \in RecoveryCodes : IF c \in unused THEN accepted[c] = 0 ELSE accepted[c] <= 1
    /\ \A w \in TotpWorkers : Held(w) =>
          /\ work[w].code \in RecoveryCodes \ unused /\ accepted[work[w].code] = 0
          /\ \A v \in TotpWorkers : Held(v) /\ work[v].code = work[w].code => v = w
LockForces == shut => security.forced

TotpInv == TotpTyped /\ CodesSpent /\ LockForces

LEMMA TotpInit == Totp!Init => TotpInv
<1> SUFFICES ASSUME Totp!Init PROVE TotpInv
  OBVIOUS
<1> USE TotpAssumption DEF Totp!Init, Totp!Timecodes, Totp!Codes
<1>1. TotpTyped
  <2>1. security \in SecurityRows
    BY DEF SecurityRows
  <2>2. leases \in [TotpSpaces -> LeaseRows]
    BY DEF Totp!NoLease, LeaseRows
  <2>3. work \in [TotpWorkers -> WorkRows]
    BY DEF Totp!Idle, WorkRows
  <2>4. totpPc \in [TotpWorkers -> TotpPlaces]
    BY DEF TotpPlaces
  <2>5. accepted \in [Totp!Codes -> Nat]
    <3>1. accepted = [c \in Totp!Codes |-> 0]
      BY DEF Totp!Init
    <3> HIDE DEF Totp!Codes, Totp!Init
    <3>2. QED
      BY <3>1
  <2>6. /\ now \in 0..MaxTime /\ locks \in 0..MaxLocks
        /\ unused \subseteq RecoveryCodes /\ shut \in BOOLEAN
    <3>1. now = 0 /\ locks = 0 /\ unused = RecoveryCodes /\ shut = FALSE
      BY DEF Totp!Init
    <3> HIDE DEF Totp!Codes, Totp!Timecodes, Totp!Init
    <3>2. now \in 0..MaxTime /\ locks \in 0..MaxLocks
      BY <3>1
    <3>3. QED
      BY <3>1, <3>2
  <2>7. QED
    BY <2>1, <2>2, <2>3, <2>4, <2>5, <2>6 DEF TotpTyped
<1>2. CodesSpent
  BY DEF CodesSpent, Held
<1>3. QED
  BY <1>1, <1>2 DEF TotpInv, LockForces

\* The row that an accepted code leaves.
LEMMA OpenedRow ==
  ASSUME TotpTyped, NEW w \in TotpWorkers
  PROVE  /\ Totp!Opened(w) \in SecurityRows
         /\ Totp!Opened(w).last = security.last
<1> USE TotpAssumption DEF WorkRows
<1>1. work[w].at + UnlockTicks \in 0..MaxTime + UnlockTicks
  BY DEF TotpTyped
<1>2. security \in SecurityRows /\ 0 \in 0..MaxTime + LockTicks /\ 0 \in 0..FailureLimit
      /\ 0 \in 0..MaxTime + UnlockTicks
  BY DEF TotpTyped
<1>3. QED
  BY <1>1, <1>2 DEF Totp!Opened, Totp!Until, SecurityRows

LEMMA TotpTypedNext == TotpInv /\ [Totp!Next]_(Totp!vars) => TotpTyped'
<1> SUFFICES ASSUME TotpTyped, CodesSpent, [Totp!Next]_(Totp!vars) PROVE TotpTyped'
  BY DEF TotpInv
<1> USE TotpAssumption DEF WorkRows, LeaseRows, TotpTyped, TotpPlaces, Totp!Timecodes,
         Totp!Codes, Totp!Idle,
  Totp!NoLease, Totp!Goto, Totp!Until
<1>1. CASE Totp!Tick
  BY <1>1 DEF Totp!Tick
<1>2. CASE Totp!Restart
  BY <1>2 DEF Totp!Restart
<1>3. ASSUME NEW w \in TotpWorkers, Totp!Verify(w) PROVE TotpTyped'
  BY <1>3 DEF Totp!Verify
<1>4. ASSUME NEW w \in TotpWorkers, Totp!AcceptTimecode(w) PROVE TotpTyped'
  <2>1. security' \in SecurityRows
    BY <1>4, OpenedRow DEF Totp!AcceptTimecode, SecurityRows
  <2>2. work' \in [TotpWorkers -> WorkRows]
    BY <1>4 DEF Totp!AcceptTimecode
  <2>3. accepted' \in [Totp!Codes -> Nat]
    BY <1>4 DEF Totp!AcceptTimecode
  <2>4. QED
    BY <1>4, <2>1, <2>2, <2>3 DEF Totp!AcceptTimecode
<1>5. ASSUME NEW w \in TotpWorkers, Totp!ConsumeRecovery(w) PROVE TotpTyped'
  BY <1>5 DEF Totp!ConsumeRecovery
<1>6. ASSUME NEW w \in TotpWorkers, Totp!AcceptRecovery(w) PROVE TotpTyped'
  <2>1. security' \in SecurityRows
    BY <1>6, OpenedRow DEF Totp!AcceptRecovery, SecurityRows
  <2>2. work' \in [TotpWorkers -> WorkRows]
    BY <1>6 DEF Totp!AcceptRecovery
  <2>3. accepted' \in [Totp!Codes -> Nat]
    BY <1>6 DEF Totp!AcceptRecovery
  <2>4. QED
    BY <1>6, <2>1, <2>2, <2>3 DEF Totp!AcceptRecovery
<1>7. ASSUME NEW w \in TotpWorkers, Totp!Refuse(w) PROVE TotpTyped'
  BY <1>7 DEF Totp!Refuse
<1>8. ASSUME NEW w \in TotpWorkers, Totp!ReadEpoch(w) PROVE TotpTyped'
  <2>1. security.epoch \in Nat
    BY DEF SecurityRows
  <2>2. /\ work' = [work EXCEPT ![w].epoch = security.epoch]
        /\ totpPc' = [totpPc EXCEPT ![w] = "insert"]
        /\ UNCHANGED <<now, security, unused, leases, accepted, shut, locks>>
    BY <1>8 DEF Totp!ReadEpoch, Totp!Goto
  <2>3. work' \in [TotpWorkers -> WorkRows]
    BY <2>1, <2>2
  <2>4. QED
    BY <2>2, <2>3
<1>9. ASSUME NEW w \in TotpWorkers, Totp!InsertLease(w) PROVE TotpTyped'
  BY <1>9 DEF Totp!InsertLease
<1>10. ASSUME NEW w \in TotpWorkers, Totp!RecordFailure(w) PROVE TotpTyped'
  <2>1. security' \in SecurityRows
    <3>1. CASE security.locked > work[w].at
      BY <1>10, <3>1 DEF Totp!RecordFailure
    <3>2. ASSUME NEW f \in 0..FailureLimit, NEW l \in 0..MaxTime + LockTicks
          PROVE  [security EXCEPT !.failures = f, !.locked = l] \in SecurityRows
      BY DEF SecurityRows
    <3>3. CASE ~(security.locked > work[w].at)
      <4> DEFINE count == security.failures + 1
                 f == IF count > FailureLimit THEN FailureLimit ELSE count
                 l == IF count >= FailureLimit THEN work[w].at + LockTicks ELSE 0
      <4>1. security' = [security EXCEPT !.failures = f, !.locked = l]
        BY <1>10, <3>3, Zenon DEF Totp!RecordFailure
      <4>2. security.failures \in 0..FailureLimit /\ work[w].at \in 0..MaxTime
        BY DEF SecurityRows
      <4>3. f \in 0..FailureLimit /\ l \in 0..MaxTime + LockTicks
        BY <4>2
      <4>4. QED
        BY <4>1, <4>3, <3>2
    <3>4. QED
      BY <3>1, <3>3
  <2>4. QED
    BY <1>10, <2>1 DEF Totp!RecordFailure
<1>11. ASSUME NEW w \in TotpWorkers, Totp!LockSpace(w) PROVE TotpTyped'
  BY <1>11 DEF Totp!LockSpace
<1>12. ASSUME NEW w \in TotpWorkers, Totp!ClearLeases(w) PROVE TotpTyped'
  BY <1>12 DEF Totp!ClearLeases
<1>13. ASSUME NEW w \in TotpWorkers, Totp!MarkLocked(w) PROVE TotpTyped'
  <2>1. security' \in SecurityRows
    <3>1. security.epoch + 1 \in Nat /\ 0 \in 0..MaxTime + UnlockTicks
      BY DEF SecurityRows
    <3>2. security' = Totp!Locked
      BY <1>13 DEF Totp!MarkLocked
    <3>3. QED
      BY <3>1, <3>2 DEF Totp!Locked, SecurityRows
  <2>4. QED
    BY <1>13, <2>1 DEF Totp!MarkLocked
<1>14. CASE UNCHANGED Totp!vars
  BY <1>14 DEF Totp!vars
<1>15. QED
  BY <1>1, <1>2, <1>3, <1>4, <1>5, <1>6, <1>7, <1>8, <1>9, <1>10, <1>11, <1>12, <1>13, <1>14
  DEF Totp!Next

\* What a step does to the codes and to who holds one.
LEMMA CodesNext == TotpInv /\ [Totp!Next]_(Totp!vars) => CodesSpent'
<1> SUFFICES ASSUME TotpTyped, CodesSpent, [Totp!Next]_(Totp!vars)
             PROVE  CodesSpent'
  BY DEF TotpInv
<1> USE TotpAssumption DEF CodesSpent, Held
<1>1. CASE Totp!Restart \/ Totp!Tick \/ UNCHANGED Totp!vars
  BY <1>1 DEF Totp!Restart, Totp!Tick, Totp!vars
<1>2. ASSUME NEW w \in TotpWorkers, Totp!AcceptTimecode(w) PROVE CodesSpent'
  <2> DEFINE code == work[w].code
  <2>1. /\ code \in Totp!Timecodes /\ code > security.last /\ accepted[code] = 0
        /\ totpPc[w] = "match"
    BY <1>2 DEF Totp!AcceptTimecode, Totp!Newer
  <2>2. security'.last = code /\ security.last \in Int
    BY <1>2, OpenedRow DEF Totp!AcceptTimecode, SecurityRows, TotpTyped, Totp!Timecodes
  <2>3. /\ accepted'[code] = 1
        /\ \A c \in Totp!Codes : c # code => accepted'[c] = accepted[c]
    BY <1>2, <2>1 DEF Totp!AcceptTimecode, TotpTyped, Totp!Codes
  <2>4. \A c \in RecoveryCodes : c # code
    BY <2>1 DEF Totp!Timecodes
  <2>5. \A v \in TotpWorkers : Held(v)' <=> Held(v)
    BY <1>2, <2>1 DEF Totp!AcceptTimecode, Totp!Goto, TotpTyped
  <2>6. \A v \in TotpWorkers : Held(v) => work'[v] = work[v]
    BY <1>2, <2>1 DEF Totp!AcceptTimecode, TotpTyped
  <2>7. \A c \in Totp!Timecodes : IF c > code THEN accepted'[c] = 0 ELSE accepted'[c] <= 1
    BY <2>1, <2>2, <2>3 DEF Totp!Timecodes, Totp!Codes
  <2>8. unused' = unused
    BY <1>2 DEF Totp!AcceptTimecode
  <2>9. \A c \in RecoveryCodes : accepted'[c] = accepted[c]
    BY <2>3, <2>4 DEF Totp!Codes
  <2>10. ASSUME NEW v \in TotpWorkers, Held(v)'
         PROVE  /\ work'[v].code \in RecoveryCodes \ unused' /\ accepted'[work'[v].code] = 0
                /\ \A u \in TotpWorkers : Held(u)' /\ work'[u].code = work'[v].code => u = v
    BY <2>5, <2>6, <2>8, <2>9, <2>10
  <2>11. QED
    BY <2>2, <2>7, <2>8, <2>9, <2>10
<1>3. ASSUME NEW w \in TotpWorkers, Totp!ConsumeRecovery(w) PROVE CodesSpent'
  <2>1. work[w].code \in unused /\ totpPc[w] = "match" /\ work[w].code \in RecoveryCodes
    BY <1>3 DEF Totp!ConsumeRecovery, TotpTyped
  <2>2. /\ unused' = unused \ {work[w].code}
        /\ UNCHANGED <<security, work, accepted>>
        /\ \A v \in TotpWorkers : Held(v)' <=> v = w \/ Held(v)
    BY <1>3 DEF Totp!ConsumeRecovery, Totp!Goto, TotpTyped
  <2>3. QED
    BY <2>1, <2>2
<1>4. ASSUME NEW w \in TotpWorkers, Totp!AcceptRecovery(w) PROVE CodesSpent'
  <2> DEFINE code == work[w].code
  <2>1. Held(w) /\ code \in RecoveryCodes \ unused /\ accepted[code] = 0
    BY <1>4 DEF Totp!AcceptRecovery
  <2>2. security'.last = security.last
    BY <1>4, OpenedRow DEF Totp!AcceptRecovery, SecurityRows
  <2>3. /\ accepted'[code] = 1
        /\ \A c \in Totp!Codes : c # code => accepted'[c] = accepted[c]
    BY <1>4, <2>1 DEF Totp!AcceptRecovery, TotpTyped, Totp!Codes
  <2>4. code \notin Totp!Timecodes
    BY <2>1 DEF Totp!Timecodes
  <2>5. \A v \in TotpWorkers : Held(v)' <=> Held(v) /\ v # w
    BY <1>4, <2>1 DEF Totp!AcceptRecovery, Totp!Goto, TotpTyped
  <2>6. \A v \in TotpWorkers : Held(v) /\ v # w => work'[v] = work[v] /\ work[v].code # code
    BY <1>4, <2>1 DEF Totp!AcceptRecovery, TotpTyped
  <2>7. unused' = unused
    BY <1>4 DEF Totp!AcceptRecovery
  <2>8. QED
    BY <2>1, <2>2, <2>3, <2>4, <2>5, <2>6, <2>7 DEF Totp!Codes
<1>5. ASSUME NEW w \in TotpWorkers,
             \/ Totp!Verify(w) \/ Totp!Refuse(w) \/ Totp!ReadEpoch(w) \/ Totp!InsertLease(w)
             \/ Totp!LockSpace(w) \/ Totp!ClearLeases(w) \/ Totp!MarkLocked(w)
             \/ Totp!RecordFailure(w)
      PROVE  CodesSpent'
  <2>1. UNCHANGED <<unused, accepted>>
    BY <1>5 DEF Totp!Verify, Totp!Refuse, Totp!ReadEpoch, Totp!InsertLease, Totp!LockSpace,
      Totp!ClearLeases, Totp!MarkLocked, Totp!RecordFailure
  <2>2. security'.last = security.last
    <3>1. CASE Totp!MarkLocked(w)
      BY <3>1 DEF Totp!MarkLocked, Totp!Locked, TotpTyped, SecurityRows
    <3>2. CASE Totp!RecordFailure(w)
      BY <3>2 DEF Totp!RecordFailure, TotpTyped, SecurityRows
    <3>3. QED
      BY <1>5, <3>1, <3>2, Zenon DEF Totp!Verify, Totp!Refuse, Totp!ReadEpoch,
        Totp!InsertLease, Totp!LockSpace, Totp!ClearLeases
  <2>3. PICK to \in TotpPlaces \ {"recovered"} : totpPc' = [totpPc EXCEPT ![w] = to]
    <3>1. CASE Totp!LockSpace(w)
      BY <3>1 DEF Totp!LockSpace, TotpTyped, TotpPlaces
    <3>2. CASE ~Totp!LockSpace(w)
      <4>1. \E to \in {"match", "failure", "insert", "idle", "lock"} : Totp!Goto(w, to)
        BY <1>5, <3>2, Zenon DEF Totp!Verify, Totp!Refuse, Totp!ReadEpoch, Totp!InsertLease,
          Totp!LockSpace, Totp!ClearLeases, Totp!MarkLocked, Totp!RecordFailure
      <4>2. QED
        BY <4>1 DEF Totp!Goto, TotpPlaces
    <3>3. QED
      BY <3>1, <3>2
  <2>4. totpPc[w] # "recovered"
    BY <1>5, Zenon DEF Totp!Verify, Totp!Refuse, Totp!ReadEpoch, Totp!InsertLease, Totp!LockSpace,
      Totp!ClearLeases, Totp!MarkLocked, Totp!RecordFailure
  <2>5. \A v \in TotpWorkers : v # w => work'[v] = work[v]
    BY <1>5 DEF Totp!Verify, Totp!Refuse, Totp!ReadEpoch, Totp!InsertLease, Totp!LockSpace,
      Totp!ClearLeases, Totp!MarkLocked, Totp!RecordFailure, TotpTyped
  <2>6. \A v \in TotpWorkers : Held(v)' => Held(v) /\ work'[v] = work[v]
    BY <2>3, <2>4, <2>5 DEF TotpTyped
  <2>7. QED
    BY <2>1, <2>2, <2>6
<1>6. QED
  BY <1>1, <1>2, <1>3, <1>4, <1>5 DEF Totp!Next

LEMMA ForcedNext ==
  TotpTyped /\ LockForces /\ [Totp!Next]_(Totp!vars) => LockForces'
<1> SUFFICES ASSUME TotpTyped, LockForces, [Totp!Next]_(Totp!vars), shut'
             PROVE  security'.forced
  BY DEF LockForces
<1>1. CASE UNCHANGED <<shut, security.forced>>
  BY <1>1 DEF LockForces
<1>2. ASSUME NEW w \in TotpWorkers, Totp!MarkLocked(w) PROVE security'.forced
  BY <1>2 DEF Totp!MarkLocked, Totp!Locked, TotpTyped, SecurityRows
<1>3. ASSUME NEW w \in TotpWorkers, Totp!RecordFailure(w) PROVE UNCHANGED <<shut, security.forced>>
  BY <1>3 DEF Totp!RecordFailure, TotpTyped, SecurityRows
<1>4. QED
  BY <1>1, <1>2, <1>3 DEF Totp!Next, Totp!vars, Totp!Tick, Totp!Restart, Totp!Verify,
    Totp!AcceptTimecode, Totp!ConsumeRecovery, Totp!AcceptRecovery, Totp!Refuse,
    Totp!ReadEpoch, Totp!InsertLease, Totp!LockSpace, Totp!ClearLeases

LEMMA TotpParts ==
  ASSUME [ChatNext]_allVars PROVE [Totp!Next]_(Totp!vars)
BY DEF ChatNext, allVars, totpVars, Totp!vars

\* Whatever the workers of the chats had begun, each code opens at most one window,
\* and a lock leaves no window open until the next code (verify_and_unlock_inner,
\* accept_totp_timecode, consume_recovery_code, TotpManager::lock).
THEOREM UnlocksHoldAlways == ChatSpec => []UnlocksHold
<1>1. ChatInit => TotpInv
  BY TotpInit DEF ChatInit
<1>2. TotpInv /\ [ChatNext]_allVars => TotpInv'
  BY TotpParts, TotpTypedNext, CodesNext, ForcedNext DEF TotpInv
<1>3. TotpInv => UnlocksHold
  <2> SUFFICES ASSUME TotpInv PROVE Totp!CodeOnce /\ Totp!LockHolds
    BY DEF UnlocksHold
  <2>1. Totp!CodeOnce
    <3>1. ASSUME NEW c \in Totp!Codes PROVE accepted[c] <= 1
      BY DEF TotpInv, CodesSpent, Totp!Codes
    <3>2. QED
      BY <3>1 DEF Totp!CodeOnce
  <2>2. Totp!LockHolds
    BY DEF TotpInv, LockForces, Totp!LockHolds, Totp!GlobalOpen, Totp!SpaceOpen
  <2>3. QED
    BY <2>1, <2>2
<1>4. QED
  BY <1>1, <1>2, <1>3, PTL DEF ChatSpec

------------------------------------------------------------------------------
\* WorkflowProjection: states of a prompt before it was dispatched, and while it waits.
New == {"none", "Received", "AwaitingChoice"}
Unsent == New \cup {"Queued"}

PromptInv(p) ==
    /\ dispatched[p] = absences[p] + (IF intents[p].state \in Unsent THEN 0 ELSE 1)
    /\ finished[p] = (IF intents[p].state \in Ends THEN 1 ELSE 0)
    /\ intents[p].state \in New => sent[p] = "none"
    /\ intents[p].state = "Queued" => sent[p] \in {"none", "lost"}
    /\ intents[p].state \in {"Started"} \cup Ends => sent[p] \in {"running"} \cup Ends
    /\ \A t \in terminal_turns[p] : t <= dispatched[p]
    /\ dispatched[p] \in terminal_turns[p] => sent[p] \in Ends

RequestInv(r) ==
    /\ claimed[r] <= 1
    /\ pending_requests[r].state \in {"none", "Available"} => claimed[r] = 0

Distinct == \A i, j \in DOMAIN queue : queue[i] = queue[j] => i = j

EngineInv ==
    /\ TypeOK
    /\ \A p \in Prompts : PromptInv(p)
    /\ \A r \in Requests : RequestInv(r)
    /\ Distinct /\ GateHolds

LEMMA RetainedType ==
  ASSUME TypeOK, NEW p \in Prompts
  PROVE  Retained(p) \in Seq(Prompts)
<1>1. queue \in Seq(Prompts)
  BY DEF TypeOK
<1>2. CASE \E i \in DOMAIN queue : queue[i] = p
  <2> DEFINE at == CHOOSE i \in DOMAIN queue : queue[i] = p
             rest == [i \in 1..Len(queue) - 1 |-> IF i < at THEN queue[i] ELSE queue[i + 1]]
  <2>1. Retained(p) = rest
    BY <1>2 DEF Retained
  <2>2. Len(queue) - 1 \in Nat
    BY <1>1, <1>2
  <2>3. at \in DOMAIN queue
    BY <1>2
  <2>4. rest \in [1..Len(queue) - 1 -> Prompts]
    BY <1>1, <2>2, <2>3
  <2> QED
    BY <2>1, <2>2, <2>4
<1>3. CASE ~\E i \in DOMAIN queue : queue[i] = p
  BY <1>1, <1>3 DEF Retained
<1> QED
  BY <1>2, <1>3

LEMMA EngineTypeInit == Init => TypeOK
<1> SUFFICES ASSUME Init PROVE TypeOK
  OBVIOUS
<1> USE DEF Init
<1>1. intents \in [Prompts -> [state : States, turn : Nat]]
  BY DEF States
<1>2. queue \in Seq(Prompts)
  OBVIOUS
<1>3. pending_requests \in
        [Requests -> [state : Open \cup {"none", "Resolved", "Retired"}, generation : Nat]]
  BY DEF Open
<1>4. /\ terminal_turns \in [Prompts -> SUBSET Nat]
      /\ client \in [generation : Nat, link : {"trying", "up", "lost"}]
      /\ sent \in [Prompts -> {"none", "lost", "running"} \cup Ends]
      /\ dispatched \in [Prompts -> Nat] /\ absences \in [Prompts -> Nat]
      /\ finished \in [Prompts -> Nat] /\ claimed \in [Requests -> Nat]
  OBVIOUS
<1> QED
  BY <1>1, <1>2, <1>3, <1>4 DEF TypeOK

\* Whatever becomes of a prompt, its record and its queue keep their types.
LEMMA PromptTypes ==
  ASSUME TypeOK, NEW p \in Prompts, PromptInv(p), Prompt(p)
  PROVE  TypeOK'
<1> USE DEF TypeOK, States, Ends, Terminal, counts, projection
<1>1. CASE CreatePrompt(p)
  BY <1>1 DEF CreatePrompt, Move
<1>2. CASE AwaitChoice(p)
  BY <1>2 DEF AwaitChoice, Move
<1>3. CASE QueuePrompt(p)
  <2>1. queue' \in Seq(Prompts)
    BY <1>3 DEF QueuePrompt
  <2> QED
    BY <1>3, <2>1 DEF QueuePrompt, Move
<1>4. ASSUME NEW end \in Ends, Finish(p, end)
      PROVE  /\ intents' \in [Prompts -> [state : States, turn : Nat]]
             /\ queue' \in Seq(Prompts) /\ finished' \in [Prompts -> Nat]
  BY <1>4, RetainedType DEF Finish, Bump
<1>5. ASSUME StartTurn(p)
      PROVE  /\ intents' \in [Prompts -> [state : States, turn : Nat]]
             /\ queue' \in Seq(Prompts) /\ finished' \in [Prompts -> Nat]
  BY <1>5 DEF StartTurn
<1>6. CASE ObserveDelivery(p)
  <2>1. CASE Present(p)
    BY <1>4, <1>5, <1>6, <2>1 DEF ObserveDelivery, ReadAny, Present
  <2>2. CASE Absent(p)
    BY <1>6, <2>2 DEF ObserveDelivery, ReadAny, Absent, Requeue, Move, Bump
  <2>3. CASE Unknown(p)
    BY <1>6, <2>3 DEF ObserveDelivery, ReadAny, Unknown, Move
  <2> QED
    BY <1>6, <2>1, <2>2, <2>3 DEF ObserveDelivery, ReadAny
<1>7. CASE ObserveTurnStarted(p)
  <2>1. dispatched[p] \in terminal_turns[p] => sent[p] \in Ends
    BY DEF PromptInv
  <2>2. CASE dispatched[p] \in terminal_turns[p]
    BY <1>4, <1>7, <2>1, <2>2 DEF ObserveTurnStarted
  <2>3. CASE dispatched[p] \notin terminal_turns[p]
    BY <1>5, <1>7, <2>3 DEF ObserveTurnStarted
  <2> QED
    BY <2>2, <2>3
<1>8. CASE ObserveTurnCompleted(p)
  BY <1>4, <1>8 DEF ObserveTurnCompleted
<1>9. CASE TurnEnds(p)
  BY <1>9 DEF TurnEnds
<1> QED
  BY <1>1, <1>2, <1>3, <1>6, <1>7, <1>8, <1>9 DEF Prompt

LEMMA EngineTypeStep ==
  ASSUME TypeOK, \A p \in Prompts : PromptInv(p), [Next]_vars
  PROVE  TypeOK'
<1>1. CASE Attempt \/ Connect \/ Lose
  BY <1>1 DEF Attempt, Connect, Lose, TypeOK, projection, counts
<1>2. CASE ObserveConnection
  <2>1. intents' \in [Prompts -> [state : States, turn : Nat]]
    BY <1>2 DEF ObserveConnection, Unclear, TypeOK, States, Terminal, projection
  <2>2. pending_requests' \in
          [Requests -> [state : Open \cup {"none", "Resolved", "Retired"}, generation : Nat]]
    BY <1>2 DEF ObserveConnection, Outdated, TypeOK
  <2> QED
    BY <1>2, <2>1, <2>2 DEF ObserveConnection, TypeOK, counts
<1>3. CASE BeginDispatch
  <2>1. PICK p \in Prompts : /\ Move(p, "Submitting") /\ dispatched' = Bump(dispatched, p)
                              /\ \E fate \in {"lost", "running"} : sent' = [sent EXCEPT ![p] = fate]
    BY <1>3 DEF BeginDispatch, Ready, Waiting
  <2>2. intents' \in [Prompts -> [state : States, turn : Nat]]
    BY <2>1 DEF Move, TypeOK, States
  <2>3. dispatched' \in [Prompts -> Nat]
    BY <2>1 DEF Bump, TypeOK
  <2>4. sent' \in [Prompts -> {"none", "lost", "running"} \cup Ends]
    BY <2>1 DEF TypeOK
  <2>5. UNCHANGED <<connection_generation, connected, queue, pending_requests, terminal_turns,
                    client, absences, finished, claimed>>
    BY <1>3 DEF BeginDispatch
  <2>6. QED
    BY <2>2, <2>3, <2>4, <2>5 DEF TypeOK
<1>4. ASSUME NEW r \in Requests, Request(r)
      PROVE  TypeOK'
  <2> USE DEF TypeOK, SetRequest, Rest, Open
  <2>1. CASE RegisterServerRequest(r)
    BY <2>1 DEF RegisterServerRequest
  <2>2. CASE ClaimServerRequest(r)
    <3>1. CASE ClaimAvailable(r)
      BY <3>1 DEF ClaimAvailable, ClaimCurrent, Bump
    <3>2. CASE SetRequest(r, "Retired") /\ UNCHANGED <<Rest, claimed>>
      BY <3>2
    <3> QED
      BY <2>2, <3>1, <3>2 DEF ClaimServerRequest
  <2>3. CASE MarkServerRequestResponded(r)
    BY <2>3 DEF MarkServerRequestResponded
  <2>4. CASE ObserveServerRequestResolved(r)
    BY <2>4 DEF ObserveServerRequestResolved
  <2> QED
    BY <1>4, <2>1, <2>2, <2>3, <2>4 DEF Request
<1>5. CASE UNCHANGED vars
  BY <1>5 DEF TypeOK, vars, projection, counts
<1> QED
  BY <1>1, <1>2, <1>3, <1>4, <1>5, PromptTypes DEF Next

(* Prompts. *)

LEMMA PromptStep ==
  ASSUME TypeOK, \A q \in Prompts : PromptInv(q), [Next]_vars, NEW q \in Prompts
  PROVE  PromptInv(q)'
<1> USE DEF PromptInv, Unsent, New, Ends
<1>t. /\ intents \in [Prompts -> [state : States, turn : Nat]]
      /\ dispatched \in [Prompts -> Nat] /\ absences \in [Prompts -> Nat]
      /\ finished \in [Prompts -> Nat] /\ terminal_turns \in [Prompts -> SUBSET Nat]
      /\ sent \in [Prompts -> {"none", "lost", "running"} \cup Ends]
  BY DEF TypeOK
<1>i. PromptInv(q)
  OBVIOUS
<1>1. CASE Attempt \/ Connect \/ Lose
  BY <1>1, <1>i DEF Attempt, Connect, Lose, projection, counts
<1>2. CASE ObserveConnection
  BY <1>2, <1>i, <1>t DEF ObserveConnection, Unclear, counts
<1>3. CASE BeginDispatch
  BY <1>3, <1>i, <1>t DEF BeginDispatch, Ready, Waiting, Move, Bump
<1>4. ASSUME NEW p \in Prompts, Prompt(p)
      PROVE  PromptInv(q)'
  <2>i. PromptInv(p)
    OBVIOUS
  <2>1. CASE CreatePrompt(p)
    BY <2>1, <1>i, <1>t DEF CreatePrompt, Move, counts
  <2>2. CASE AwaitChoice(p)
    BY <2>2, <1>i, <1>t DEF AwaitChoice, Move, counts
  <2>3. CASE QueuePrompt(p)
    BY <2>3, <1>i, <1>t DEF QueuePrompt, Move, counts
  <2>4. CASE ObserveDelivery(p)
    <3>1. CASE Present(p)
      <4>1. CASE StartTurn(p)
        BY <1>i, <1>t, <2>4, <3>1, <4>1 DEF ObserveDelivery, ReadAny, Present, StartTurn
      <4>2. CASE sent[p] \in Ends /\ Finish(p, sent[p])
        BY <1>i, <1>t, <2>4, <3>1, <4>2 DEF ObserveDelivery, ReadAny, Present, Finish, Bump
      <4> QED
        BY <3>1, <4>1, <4>2 DEF Present
    <3>2. CASE Absent(p)
      BY <1>i, <1>t, <2>4, <3>2 DEF ObserveDelivery, ReadAny, Absent, Requeue, Move, Bump
    <3>3. CASE Unknown(p)
      BY <1>i, <1>t, <2>4, <3>3 DEF ObserveDelivery, ReadAny, Unknown, Move, Terminal
    <3> QED
      BY <2>4, <3>1, <3>2, <3>3 DEF ObserveDelivery, ReadAny
  <2>5. CASE ObserveTurnStarted(p)
    <3>1. intents[p].state \in {"Started", "Submitting"}
      BY <2>5, <2>i, <1>t DEF ObserveTurnStarted
    <3>2. CASE dispatched[p] \in terminal_turns[p]
      BY <1>i, <2>i, <1>t, <2>5, <3>1, <3>2 DEF ObserveTurnStarted, Finish, Bump
    <3>3. CASE dispatched[p] \notin terminal_turns[p]
      BY <1>i, <2>i, <1>t, <2>5, <3>1, <3>3 DEF ObserveTurnStarted, StartTurn
    <3> QED
      BY <3>2, <3>3
  <2>6. CASE ObserveTurnCompleted(p)
    <3>1. CASE intents[p].turn = dispatched[p] /\ intents[p].state \notin Terminal
      <4>1. intents[p].state \in {"Started", "Submitting"}
        BY <2>6, <2>i, <1>t, <3>1 DEF ObserveTurnCompleted, States, Terminal
      <4> QED
        BY <1>i, <2>i, <1>t, <2>6, <3>1, <4>1 DEF ObserveTurnCompleted, Finish, Bump
    <3>2. CASE ~(intents[p].turn = dispatched[p] /\ intents[p].state \notin Terminal)
      BY <1>i, <2>i, <1>t, <2>6, <3>2 DEF ObserveTurnCompleted
    <3> QED
      BY <3>1, <3>2
  <2>7. CASE TurnEnds(p)
    BY <1>i, <1>t, <2>7 DEF TurnEnds, projection, counts
  <2> QED
    BY <1>4, <2>1, <2>2, <2>3, <2>4, <2>5, <2>6, <2>7 DEF Prompt
<1>5. ASSUME NEW r \in Requests, Request(r)
      PROVE  PromptInv(q)'
  BY <1>5, <1>i DEF Request, RegisterServerRequest, ClaimServerRequest, ClaimAvailable,
     ClaimCurrent,
       MarkServerRequestResponded, ObserveServerRequestResolved, Rest
<1>6. CASE UNCHANGED vars
  BY <1>6, <1>i DEF vars, projection, counts
<1> QED
  BY <1>1, <1>2, <1>3, <1>4, <1>5, <1>6 DEF Next

(* Requests of the app-server. *)

LEMMA RequestStep ==
  ASSUME TypeOK, \A q \in Requests : RequestInv(q), [Next]_vars, NEW q \in Requests
  PROVE  RequestInv(q)'
<1> USE DEF RequestInv
<1>t. /\ pending_requests \in
            [Requests -> [state : Open \cup {"none", "Resolved", "Retired"}, generation : Nat]]
      /\ claimed \in [Requests -> Nat]
  BY DEF TypeOK
<1>i. RequestInv(q)
  OBVIOUS
<1>1. CASE ObserveConnection
  BY <1>1, <1>i, <1>t DEF ObserveConnection, Outdated, Open, counts
<1>2. ASSUME NEW r \in Requests, Request(r)
      PROVE  RequestInv(q)'
  <2> USE DEF SetRequest
  <2>1. CASE RegisterServerRequest(r)
    BY <2>1, <1>i, <1>t DEF RegisterServerRequest
  <2>2. CASE ClaimServerRequest(r)
    <3>1. CASE ClaimAvailable(r)
      BY <3>1, <1>i, <1>t DEF ClaimAvailable, ClaimCurrent, Bump
    <3>2. CASE SetRequest(r, "Retired") /\ UNCHANGED <<Rest, claimed>>
      BY <3>2, <1>i, <1>t
    <3> QED
      BY <2>2, <3>1, <3>2 DEF ClaimServerRequest
  <2>3. CASE MarkServerRequestResponded(r)
    BY <2>3, <1>i, <1>t DEF MarkServerRequestResponded
  <2>4. CASE ObserveServerRequestResolved(r)
    BY <2>4, <1>i, <1>t DEF ObserveServerRequestResolved
  <2> QED
    BY <1>2, <2>1, <2>2, <2>3, <2>4 DEF Request
<1>3. ASSUME \/ Attempt \/ Connect \/ Lose \/ BeginDispatch \/ UNCHANGED vars
             \/ \E p \in Prompts : Prompt(p)
      PROVE  UNCHANGED <<pending_requests, claimed>>
  BY <1>3 DEF Attempt, Connect, Lose, BeginDispatch, Prompt, CreatePrompt, AwaitChoice, QueuePrompt,
       ObserveDelivery, ReadAny, ObserveTurnStarted, ObserveTurnCompleted, TurnEnds, vars,
       projection, counts
<1> QED
  BY <1>1, <1>2, <1>3, <1>i DEF Next

(* The queue. *)

QueueInv == Distinct /\ GateHolds

\* A prompt that does not wait can only be the head, so that only the head is
\* ever taken out.
LEMMA HeadLeaves ==
  ASSUME TypeOK, QueueInv, NEW p \in Prompts, intents[p].state # "Queued"
  PROVE  \/ Retained(p) = queue /\ \A i \in DOMAIN queue : queue[i] # p
         \/ /\ queue # <<>>
            /\ Retained(p) = [i \in 1..Len(queue) - 1 |-> queue[i + 1]]
            /\ \A i \in 1..Len(queue) - 1 : queue[i + 1] # p
<1>1. queue \in Seq(Prompts)
  BY DEF TypeOK
<1>2. ASSUME NEW i \in DOMAIN queue, queue[i] = p
      PROVE  i = 1
  BY <1>1, <1>2 DEF QueueInv, GateHolds
<1>3. CASE \E i \in DOMAIN queue : queue[i] = p
  <2> DEFINE at == CHOOSE i \in DOMAIN queue : queue[i] = p
  <2>1. at = 1
    BY <1>2, <1>3
  <2>2. Retained(p) = [i \in 1..Len(queue) - 1 |-> IF i < at THEN queue[i] ELSE queue[i + 1]]
    BY <1>3 DEF Retained
  <2>3. Retained(p) = [i \in 1..Len(queue) - 1 |-> queue[i + 1]]
    <3>1. \A i \in 1..Len(queue) - 1 : ~(i < 1)
      BY <1>1
    <3> HIDE DEF at
    <3> QED
      BY <2>1, <2>2, <3>1
  <2>4. queue # <<>>
    BY <1>1, <1>3
  <2>5. \A i \in 1..Len(queue) - 1 : queue[i + 1] # p
    BY <1>1, <1>2
  <2> QED
    BY <2>3, <2>4, <2>5
<1>4. CASE ~\E i \in DOMAIN queue : queue[i] = p
  BY <1>4 DEF Retained
<1> QED
  BY <1>3, <1>4

\* The end of a prompt that does not wait opens the gate and breaks nothing.
LEMMA FinishStep ==
  ASSUME TypeOK, QueueInv, NEW p \in Prompts, intents[p].state # "Queued",
         NEW end, Finish(p, end)
  PROVE  QueueInv'
<1>1. queue \in Seq(Prompts) /\ intents \in [Prompts -> [state : States, turn : Nat]]
  BY DEF TypeOK
<1>2. queue' = Retained(p) /\ \A q \in Prompts : q # p => intents'[q] = intents[q]
  BY <1>1 DEF Finish
<1>3. CASE queue' = queue /\ \A i \in DOMAIN queue : queue[i] # p
  BY <1>1, <1>2, <1>3 DEF QueueInv, Distinct, GateHolds
<1>4. CASE /\ queue # <<>>
           /\ queue' = [i \in 1..Len(queue) - 1 |-> queue[i + 1]]
           /\ \A i \in 1..Len(queue) - 1 : queue[i + 1] # p
  <2>1. Len(queue) - 1 \in Nat /\ DOMAIN queue = 1..Len(queue)
    BY <1>1, <1>4
  <2>2. /\ queue' \in Seq(Prompts) /\ Len(queue') = Len(queue) - 1
        /\ DOMAIN queue' = 1..Len(queue) - 1
        /\ \A i \in 1..Len(queue) - 1 : queue'[i] = queue[i + 1]
    BY <1>1, <1>4, <2>1
  <2>3. Distinct'
    BY <2>1, <2>2 DEF QueueInv, Distinct
  <2>4. ASSUME NEW i \in 2..Len(queue')
        PROVE  intents'[queue'[i]].state = "Queued"
    <3>1. i + 1 \in 2..Len(queue) /\ queue'[i] = queue[i + 1] /\ queue[i + 1] \in Prompts
      <4>1. i \in 1..Len(queue) - 1 /\ i + 1 \in 2..Len(queue) /\ i + 1 \in DOMAIN queue
        BY <2>1, <2>2
      <4>2. QED
        BY <1>1, <2>2, <4>1
    <3>2. queue[i + 1] # p
      BY <1>4, <2>1, <2>2
    <3> QED
      BY <1>2, <3>1, <3>2 DEF QueueInv, GateHolds
  <2> QED
    BY <2>3, <2>4 DEF QueueInv, GateHolds
<1> QED
  BY <1>2, <1>3, <1>4, HeadLeaves

\* Nothing behind the head is touched by a step that leaves the queue alone and
\* changes prompts that do not wait.
LEMMA GateKept ==
  ASSUME TypeOK, QueueInv, queue' = queue,
         \A p \in Prompts : intents[p].state = "Queued" => intents'[p].state = "Queued"
  PROVE  QueueInv'
BY DEF QueueInv, Distinct, GateHolds, TypeOK

LEMMA QueueStep ==
  ASSUME TypeOK, \A q \in Prompts : PromptInv(q), QueueInv, [Next]_vars
  PROVE  QueueInv'
<1>t. /\ intents \in [Prompts -> [state : States, turn : Nat]] /\ queue \in Seq(Prompts)
      /\ sent \in [Prompts -> {"none", "lost", "running"} \cup Ends]
      /\ dispatched \in [Prompts -> Nat]
  BY DEF TypeOK
<1>1. CASE BeginDispatch
  <2>1. PICK p \in Ready : Move(p, "Submitting")
    BY <1>1 DEF BeginDispatch
  <2>2. p = queue[1] /\ queue # <<>> /\ queue' = queue
    BY <1>1, <1>t, <2>1 DEF BeginDispatch, Ready
  <2>3. \A i \in 2..Len(queue) : queue[i] # p /\ queue[i] \in Prompts
    BY <1>t, <2>2 DEF QueueInv, Distinct
  <2>4. \A i \in 2..Len(queue) : intents'[queue[i]] = intents[queue[i]]
    BY <1>t, <2>1, <2>3 DEF Move
  <2> QED
    BY <2>2, <2>4 DEF QueueInv, Distinct, GateHolds
<1>2. ASSUME NEW p \in Prompts, Prompt(p)
      PROVE  QueueInv'
  <2>i. PromptInv(p)
    OBVIOUS
  <2>1. CASE CreatePrompt(p)
    BY <2>1, <1>t, GateKept DEF CreatePrompt, Move
  <2>2. CASE AwaitChoice(p)
    BY <2>2, <1>t, GateKept DEF AwaitChoice, Move
  <2>3. CASE QueuePrompt(p)
    <3>1. CASE queue' = queue
      BY <2>3, <3>1, <1>t, GateKept DEF QueuePrompt, Move
    <3>2. CASE queue' = Append(queue, p) /\ \A i \in DOMAIN queue : queue[i] # p
      <4>1. /\ Len(queue') = Len(queue) + 1 /\ DOMAIN queue' = 1..Len(queue) + 1
            /\ queue'[Len(queue) + 1] = p
            /\ \A i \in 1..Len(queue) : queue'[i] = queue[i] /\ queue[i] \in Prompts
        BY <1>t, <3>2
      <4>2. Distinct'
        BY <1>t, <3>2, <4>1 DEF QueueInv, Distinct
      <4>3. /\ intents'[p].state = "Queued"
            /\ \A q \in Prompts : q # p => intents'[q] = intents[q]
        BY <2>3, <1>t DEF QueuePrompt, Move
      <4>4. ASSUME NEW i \in 2..Len(queue')
            PROVE  intents'[queue'[i]].state = "Queued"
        BY <1>t, <3>2, <4>1, <4>3 DEF QueueInv, GateHolds
      <4> QED
        BY <4>2, <4>4 DEF QueueInv, GateHolds
    <3> QED
      BY <2>3, <3>1, <3>2 DEF QueuePrompt
  <2>4. CASE ObserveDelivery(p)
    <3>1. intents[p].state # "Queued"
      BY <2>4 DEF ObserveDelivery
    <3>2. CASE Present(p)
      <4>1. CASE StartTurn(p)
        BY <3>1, <4>1, <1>t, GateKept DEF StartTurn
      <4>2. CASE Finish(p, sent[p])
        BY <3>1, <4>2, FinishStep
      <4> QED
        BY <3>2, <4>1, <4>2 DEF Present
    <3>3. CASE Absent(p) \/ Unknown(p)
      BY <3>1, <3>3, <1>t, GateKept DEF Absent, Requeue, Unknown, Move
    <3> QED
      BY <2>4, <3>2, <3>3 DEF ObserveDelivery, ReadAny
  <2>5. CASE ObserveTurnStarted(p)
    <3>1. intents[p].state # "Queued"
      BY <2>5, <2>i, <1>t DEF ObserveTurnStarted, PromptInv
    <3>2. CASE Finish(p, sent[p])
      BY <3>1, <3>2, FinishStep
    <3>3. CASE StartTurn(p)
      BY <3>1, <3>3, <1>t, GateKept DEF StartTurn
    <3> QED
      BY <2>5, <3>2, <3>3 DEF ObserveTurnStarted
  <2>6. CASE ObserveTurnCompleted(p)
    <3>1. intents[p].state # "Queued"
      BY <2>6, <2>i, <1>t DEF ObserveTurnCompleted, PromptInv, Ends
    <3>2. CASE Finish(p, sent[p])
      BY <3>1, <3>2, FinishStep
    <3>3. CASE UNCHANGED <<intents, queue, finished>>
      BY <3>3, GateKept
    <3> QED
      BY <2>6, <3>2, <3>3 DEF ObserveTurnCompleted
  <2>7. CASE TurnEnds(p)
    BY <2>7, GateKept DEF TurnEnds, projection
  <2> QED
    BY <1>2, <2>1, <2>2, <2>3, <2>4, <2>5, <2>6, <2>7 DEF Prompt
<1>3. CASE ObserveConnection
  BY <1>3, <1>t, GateKept DEF ObserveConnection, Unclear
<1>4. ASSUME \/ Attempt \/ Connect \/ Lose \/ UNCHANGED vars
             \/ \E r \in Requests : Request(r)
      PROVE  UNCHANGED <<intents, queue>>
  BY <1>4 DEF Attempt, Connect, Lose, vars, projection, Request, RegisterServerRequest,
       ClaimServerRequest, ClaimAvailable, ClaimCurrent, MarkServerRequestResponded,
       ObserveServerRequestResolved, Rest
<1> QED
  BY <1>1, <1>2, <1>3, <1>4, GateKept DEF Next

(* Results. *)

LEMMA EngineInvInit == Init => EngineInv
<1> SUFFICES ASSUME Init PROVE EngineInv
  OBVIOUS
<1>1. \A p \in Prompts : PromptInv(p)
  BY DEF Init, PromptInv, Unsent, New, Ends
<1>2. \A r \in Requests : RequestInv(r)
  BY DEF Init, RequestInv
<1>3. Distinct /\ GateHolds
  BY DEF Init, Distinct, GateHolds
<1> QED
  BY <1>1, <1>2, <1>3, EngineTypeInit DEF EngineInv

LEMMA EngineInvStep == EngineInv /\ [Next]_vars => EngineInv'
<1> SUFFICES ASSUME EngineInv, [Next]_vars PROVE EngineInv'
  OBVIOUS
<1>1. TypeOK'
  BY EngineTypeStep DEF EngineInv
<1>2. \A p \in Prompts : PromptInv(p)'
  BY PromptStep DEF EngineInv
<1>3. \A r \in Requests : RequestInv(r)'
  BY RequestStep DEF EngineInv
<1>4. QueueInv'
  BY QueueStep DEF EngineInv, QueueInv
<1> QED
  BY <1>1, <1>2, <1>3, <1>4 DEF EngineInv, QueueInv

\* The inductive invariant of the projection: a dispatch is counted once against
\* its proof of absence, and only the head of the queue is under way.
THEOREM EngineInvariance == Spec => []EngineInv
BY EngineInvInit, EngineInvStep, PTL DEF Spec

\* Every variable of the projection and of what surrounds it keeps its type.
THEOREM EngineTypeCorrect == Spec => []TypeOK
<1>1. EngineInv => TypeOK
  BY DEF EngineInv
<1> QED
  BY <1>1, EngineInvariance, PTL

\* A prompt is sent again only after a proof that it did not arrive, its end is
\* reported once, a request is claimed once, and nothing behind the head of the
\* queue is under way (engine lib.rs, CodexWorkflowProjection).
THEOREM EngineSafety == Spec => []WorkflowSafe
<1>1. EngineInv => WorkflowSafe
  <2> SUFFICES ASSUME EngineInv PROVE WorkflowSafe
    OBVIOUS
  <2>1. ASSUME NEW p \in Prompts
        PROVE  dispatched[p] <= absences[p] + 1 /\ finished[p] <= 1
    <3>1. /\ dispatched[p] = absences[p] + (IF intents[p].state \in Unsent THEN 0 ELSE 1)
          /\ finished[p] = (IF intents[p].state \in Ends THEN 1 ELSE 0)
          /\ absences[p] \in Nat
      BY DEF EngineInv, PromptInv, TypeOK
    <3> QED
      BY <3>1
  <2>2. ClaimedOnce
    BY DEF EngineInv, RequestInv, ClaimedOnce
  <2> QED
    BY <2>1, <2>2 DEF EngineInv, WorkflowSafe, AmbiguousNotRetried, FinishedOnce
<1> QED
  BY <1>1, EngineInvariance, PTL

------------------------------------------------------------------------------
(* Types. *)

\* What WizardTyped leaves out of the types of NewWizard: everything stays within the bounds.
WizardBounds ==
    /\ wizardRecord.rev \in 0..MaxRevision /\ inter.rev \in 0..MaxRevision
    /\ inter.created \in 0..MaxDrafts /\ drafts \in 0..MaxDrafts
    /\ \A t \in Wizard!Tasks : draft[t].rev \in 0..MaxRevision /\ id[t] \in 0..MaxDrafts
    /\ recordLate \in BOOLEAN /\ interLate \in BOOLEAN
    /\ wizardButtons \subseteq [rev : 0..MaxRevision, action : Wizard!Actions]
    /\ action \in Wizard!Actions \cup Wizard!Kinds \cup {"text"}
    /\ intended \subseteq Wizard!Ids \X {"intent", "post"}
    /\ \A i \in Wizard!Ids : spaces[i] = Wizard!NoSpace \/ spaces[i] \subseteq Wizard!Keys
    /\ wizardFaults \in 0..MaxWizardFaults

\* A prompt is asked for when there is a directory.
Asks(d) == d.phase = "prompt" => "cwd" \in d.payload
AsksLast ==
    /\ Asks(wizardRecord) /\ Asks(inter)
    /\ \A t \in Wizard!Tasks :
         wizardPc[t] \notin {"create", "post", "space", "clean", "remove"} => Asks(draft[t])

LEMMA WizardTypes == WizardTyped /\ WizardBounds => Wizard!TypeOK
<1> SUFFICES ASSUME WizardTyped, WizardBounds PROVE Wizard!TypeOK
  OBVIOUS
<1>1. ASSUME NEW d \in DraftTypes, d.rev \in 0..MaxRevision PROVE d \in Wizard!Drafts
  BY <1>1 DEF DraftTypes, Wizard!Drafts, WizardPhases, Wizard!Phases
<1>2. /\ wizardRecord \in Wizard!Drafts /\ \A t \in Wizard!Tasks : draft[t] \in Wizard!Drafts
  BY <1>1 DEF WizardTyped, WizardBounds
<1>3. /\ inter.phase \in Wizard!Phases \cup {"none"} /\ inter.payload \subseteq Wizard!Keys
      /\ inter.claim \in {"free", "held", "stale"}
  BY DEF WizardTyped, InterTypes, WizardPhases, Wizard!Phases
<1>4. /\ id \in [Wizard!Tasks -> 0..MaxDrafts] /\ posts \in [Wizard!Ids -> Nat]
  BY DEF WizardTyped, WizardBounds
<1>5. QED
  BY <1>2, <1>3, <1>4 DEF WizardTyped, WizardBounds, Wizard!TypeOK, WizardPlaces

LEMMA WizardFaultBound ==
  ASSUME WizardBounds, Wizard!Fault PROVE wizardFaults' \in 0..MaxWizardFaults
BY BoundsAssumption DEF WizardBounds, Wizard!Fault

LEMMA NoneBounded ==
  /\ Wizard!NoDraft.rev \in 0..MaxRevision /\ Wizard!NoInter.rev \in 0..MaxRevision
  /\ Wizard!NoInter.created \in 0..MaxDrafts /\ 0 \in 0..MaxRevision /\ 0 \in 0..MaxDrafts
BY BoundsAssumption, MaxDraftsAssumption DEF Wizard!NoDraft, Wizard!NoInter

\* What a step of a task may leave.
TaskBounds(t) ==
    /\ WAlone(t) /\ draft'[t].rev \in 0..MaxRevision /\ id'[t] \in 0..MaxDrafts
    /\ action' \in Wizard!Actions \cup Wizard!Kinds \cup {"text"}

LEMMA DoneBounds ==
  ASSUME WizardTyped, WizardBounds, NEW t \in Wizard!Tasks, Wizard!Done(t)
  PROVE  TaskBounds(t)
<1>1. WAlone(t) /\ draft'[t] = Wizard!NoDraft
  BY WDoneEffect
<1>2. id'[t] = 0
  BY DEF Wizard!Done, WizardTyped
<1>3. action' \in Wizard!Actions \cup Wizard!Kinds \cup {"text"}
  BY DEF Wizard!Done, WizardBounds
<1>4. QED
  BY <1>1, <1>2, <1>3, NoneBounded DEF TaskBounds

LEMMA GoBounds ==
  ASSUME WizardTyped, WizardBounds, NEW t \in Wizard!Tasks, NEW where, Wizard!Goto(t, where),
         UNCHANGED <<draft, id, action>>
  PROVE  TaskBounds(t)
BY DEF Wizard!Goto, WizardTyped, WizardBounds, WAlone, TaskBounds

LEMMA WorkBounds ==
  ASSUME WizardTyped, WizardBounds, NEW t \in Wizard!Tasks, NEW where, Wizard!Goto(t, where),
         NEW d, Wizard!Work(t, d), d.rev \in 0..MaxRevision, UNCHANGED id,
         action' \in Wizard!Actions \cup Wizard!Kinds \cup {"text"}
  PROVE  TaskBounds(t)
BY DEF Wizard!Goto, Wizard!Work, WizardTyped, WizardBounds, WAlone, TaskBounds

LEMMA WizardBoundsInit == Wizard!Init => WizardBounds
<1> SUFFICES ASSUME Wizard!Init PROVE WizardBounds
  OBVIOUS
<1>1. /\ wizardRecord = Wizard!NoDraft /\ inter = Wizard!NoInter /\ drafts = 0 /\ wizardFaults = 0
      /\ \A t \in Wizard!Tasks : draft[t] = Wizard!NoDraft /\ id[t] = 0
      /\ wizardButtons = {} /\ intended = {} /\ action = "text"
      /\ \A i \in Wizard!Ids : spaces[i] = Wizard!NoSpace
  BY DEF Wizard!Init
<1>2. recordLate \in BOOLEAN /\ interLate \in BOOLEAN
  BY DEF Wizard!Init
<1>3. 0 \in 0..MaxWizardFaults
  BY BoundsAssumption
<1>4. QED
  BY <1>1, <1>2, <1>3, NoneBounded DEF WizardBounds

\* Steps that write a draft.
LEMMA DraftBounds ==
  ASSUME WizardInv, WizardBounds, AsksLast,
         \/ \E kind \in Wizard!Kinds : Wizard!Begin(kind)
         \/ Wizard!Persist \/ Wizard!Store \/ Wizard!Offer
  PROVE  WizardBounds'
<1>1. WizardTyped /\ "chat" \in Wizard!Tasks /\ Wizard!Tasks = {"chat", "expirer"}
  BY DEF WizardInv, Wizard!Tasks
<1>2. ASSUME TaskBounds("chat") PROVE
        /\ \A t \in Wizard!Tasks : draft'[t].rev \in 0..MaxRevision /\ id'[t] \in 0..MaxDrafts
        /\ action' \in Wizard!Actions \cup Wizard!Kinds \cup {"text"}
  BY <1>1, <1>2 DEF TaskBounds, WAlone, WizardBounds
<1>3. ASSUME NEW kind \in Wizard!Kinds, Wizard!Begin(kind) PROVE WizardBounds'
  <2>1. \E d : Wizard!Work("chat", d) /\ d.rev = 0
    BY <1>3 DEF Wizard!Begin
  <2>2. Wizard!Goto("chat", "persist") /\ action' = kind /\ UNCHANGED id
    BY <1>3 DEF Wizard!Begin
  <2>3. TaskBounds("chat")
    BY <1>1, <2>1, <2>2, NoneBounded, WorkBounds
  <2>4. /\ \/ wizardRecord' = Wizard!NoDraft /\ inter' = Wizard!NoInter /\ wizardButtons' = {}
           \/ UNCHANGED <<wizardRecord, inter, wizardButtons>>
        /\ UNCHANGED <<interLate, recordLate, drafts, intended, spaces, posts, wizardFaults>>
    BY <1>3 DEF Wizard!Begin, Wizard!DeleteInter, Wizard!spaceVars
  <2>5. QED
    BY <1>2, <2>3, <2>4, NoneBounded DEF WizardBounds
<1>4. CASE Wizard!Persist
  <2>1. inter.rev + 1 \in 0..MaxRevision
    BY <1>4, BoundsAssumption DEF Wizard!Persist, WizardBounds
  <2>2. drafts' \in 0..MaxDrafts /\ wizardFaults' \in 0..MaxWizardFaults
    BY <1>4, MaxDraftsAssumption, WizardFaultBound DEF Wizard!Persist, WizardBounds
  <2>3. inter'.rev = inter.rev + 1 /\ inter'.created \in 0..MaxDrafts
    BY <1>4, <2>2 DEF Wizard!Persist, WizardBounds
  <2>4. [draft["chat"] EXCEPT !.rev = inter.rev + 1].rev = inter.rev + 1
    BY <1>1 DEF WizardTyped, DraftTypes
  <2>5. TaskBounds("chat")
    BY <1>1, <1>4, <2>1, <2>4, WorkBounds DEF Wizard!Persist, WizardBounds
  <2>6. /\ UNCHANGED <<wizardRecord, recordLate, intended, spaces, posts>>
        /\ interLate' = FALSE /\ wizardButtons' = {}
    BY <1>4 DEF Wizard!Persist, Wizard!spaceVars
  <2>7. QED
    BY <1>2, <2>1, <2>2, <2>3, <2>5, <2>6 DEF WizardBounds
<1>5. CASE Wizard!Store
  <2>1. draft["chat"].rev \in 0..MaxRevision /\ [draft["chat"] EXCEPT !.rev = 0].rev = 0
    BY <1>1 DEF WizardTyped, DraftTypes, WizardBounds
  <2>2. TaskBounds("chat")
    <3>1. CASE action = "mode"
      BY <1>1, <1>5, <3>1, DoneBounds DEF Wizard!Store
    <3>2. CASE action # "mode"
      <4> DEFINE d == IF action \in Wizard!Kinds THEN [draft["chat"] EXCEPT !.rev = 0]
                                                 ELSE draft["chat"]
      <4>1. d.rev \in 0..MaxRevision
        BY <2>1, NoneBounded
      <4>2. /\ Wizard!Goto("chat", Wizard!Following(draft["chat"].payload))
            /\ Wizard!Work("chat", d) /\ UNCHANGED <<action, id>>
        BY <1>5, <3>2 DEF Wizard!Store
      <4> HIDE DEF d
      <4>3. QED
        BY <1>1, <4>1, <4>2, WorkBounds DEF WizardBounds
    <3>3. QED
      BY <3>1, <3>2
  <2>3. /\ UNCHANGED <<inter, interLate, wizardButtons, drafts, intended, spaces, wizardFaults>>
        /\ wizardRecord' = draft["chat"] /\ recordLate' = FALSE
    BY <1>5 DEF Wizard!Store, Wizard!spaceVars
  <2>4. QED
    BY <1>2, <2>1, <2>2, <2>3 DEF WizardBounds
<1>6. CASE Wizard!Offer
  <2>1. TaskBounds("chat")
    BY <1>1, <1>6, DoneBounds DEF Wizard!Offer
  <2>2. /\ wizardRecord' = draft["chat"] /\ draft["chat"].rev \in 0..MaxRevision
        /\ UNCHANGED <<recordLate, inter, interLate, drafts, intended, spaces, wizardFaults>>
    BY <1>1, <1>6 DEF Wizard!Offer, Wizard!spaceVars, WizardBounds
  <2>3. PICK rev \in 0..MaxRevision :
          wizardButtons' = wizardButtons \cup
             [rev : {rev}, action : Wizard!Choices(draft["chat"]) \cup {"cancel"}]
    BY <1>6, <2>2 DEF Wizard!Offer, WizardBounds
  <2>4. Wizard!Choices(draft["chat"]) \cup {"cancel"} \subseteq Wizard!Actions
    <3>1. draft["chat"].phase \in Wizard!Phases
      BY <1>1, <1>6 DEF WizardInv, Formed, Wizard!Offer
    <3>2. Asks(draft["chat"])
      BY <1>1, <1>6 DEF AsksLast, Wizard!Offer
    <3>3. QED
      BY <3>1, <3>2 DEF Wizard!Choices, Wizard!Actions, Wizard!Phases, Asks
  <2>5. wizardButtons' \subseteq [rev : 0..MaxRevision, action : Wizard!Actions]
    BY <2>3, <2>4 DEF WizardBounds
  <2>6. QED
    BY <1>2, <2>1, <2>2, <2>5 DEF WizardBounds
<1>7. QED
  BY <1>3, <1>4, <1>5, <1>6
\* Steps of a button, a text or the expirer that take up a draft.
LEMMA TakenBounds ==
  ASSUME WizardInv, WizardBounds, AsksLast,
         \/ \E b \in wizardButtons : Wizard!Press(b)
         \/ Wizard!Text \/ Wizard!Scan
  PROVE  WizardBounds'
<1>1. WizardTyped /\ {"chat", "expirer"} = Wizard!Tasks
  BY DEF WizardInv, Wizard!Tasks
<1>2. ASSUME NEW t \in Wizard!Tasks, TaskBounds(t), wizardButtons' \subseteq wizardButtons,
             UNCHANGED <<wizardRecord, recordLate, inter, interLate, drafts, intended, spaces,
                         wizardFaults>>
      PROVE  WizardBounds'
  BY <1>2 DEF TaskBounds, WAlone, WizardBounds
<1>3. wizardRecord.rev \in 0..MaxRevision
  BY DEF WizardBounds
<1>4. ASSUME NEW b \in wizardButtons, Wizard!Press(b) PROVE WizardBounds'
  <2>1. b.action \in Wizard!Actions
    BY DEF WizardBounds
  <2>2. TaskBounds("chat")
    BY <1>1, <1>3, <1>4, <2>1, WorkBounds DEF Wizard!Press
  <2>3. QED
    BY <1>1, <1>2, <1>4, <2>2 DEF Wizard!Press, Wizard!spaceVars
<1>5. CASE Wizard!Text
  <2>1. \E where : Wizard!Goto("chat", where)
    BY <1>5 DEF Wizard!Text
  <2>2. TaskBounds("chat")
    BY <1>1, <1>3, <1>5, <2>1, WorkBounds DEF Wizard!Text
  <2>3. QED
    BY <1>1, <1>2, <1>5, <2>2 DEF Wizard!Text, Wizard!draftVars, Wizard!spaceVars
<1>6. CASE Wizard!Scan
  <2>1. action' \in Wizard!Actions \cup Wizard!Kinds \cup {"text"}
    BY <1>6 DEF Wizard!Scan, WizardBounds
  <2>2. TaskBounds("expirer")
    BY <1>1, <1>3, <1>6, <2>1, WorkBounds DEF Wizard!Scan
  <2>3. QED
    BY <1>1, <1>2, <1>6, <2>2 DEF Wizard!Scan, Wizard!draftVars, Wizard!spaceVars
<1>7. QED
  BY <1>4, <1>5, <1>6

LEMMA AdvanceBounds ==
  ASSUME WizardInv, WizardBounds, Wizard!Advance \/ Wizard!AdvanceFails
  PROVE  WizardBounds'
<1>1. WizardTyped /\ {"chat", "expirer"} = Wizard!Tasks
  BY DEF WizardInv, Wizard!Tasks
<1>2. CASE Wizard!Advance
  <2>1. PICK s \in Wizard!Steps(action, draft["chat"].payload) :
          /\ inter' = [inter EXCEPT !.phase = s[1], !.payload = s[2], !.rev = @ + 1]
          /\ Wizard!Work("chat", [phase |-> s[1], payload |-> s[2], rev |-> inter.rev + 1])
    BY <1>2 DEF Wizard!Advance
  <2>2. inter.rev + 1 \in 0..MaxRevision /\ inter.created \in 0..MaxDrafts
    <3>1. inter.rev < MaxRevision
      BY <1>2 DEF Wizard!Advance
    <3>2. QED
      BY <3>1, BoundsAssumption DEF WizardBounds
  <2>3. inter'.rev = inter.rev + 1 /\ inter'.created = inter.created
    BY <1>1, <2>1 DEF WizardTyped, InterTypes
  <2>4. Wizard!Goto("chat", "store") /\ UNCHANGED <<action, id>>
    BY <1>2 DEF Wizard!Advance
  <2>5. TaskBounds("chat")
    BY <1>1, <2>1, <2>2, <2>4, WorkBounds DEF WizardBounds
  <2>6. /\ UNCHANGED <<wizardRecord, recordLate, drafts, intended, spaces, wizardFaults>>
        /\ wizardButtons' \subseteq wizardButtons /\ interLate' = FALSE
    BY <1>2 DEF Wizard!Advance, Wizard!spaceVars
  <2>7. QED
    BY <1>1, <2>2, <2>3, <2>5, <2>6 DEF TaskBounds, WAlone, WizardBounds
<1>3. CASE Wizard!AdvanceFails
  <2>1. TaskBounds("chat") /\ wizardFaults' \in 0..MaxWizardFaults
    BY <1>1, <1>3, DoneBounds, WizardFaultBound DEF Wizard!AdvanceFails, WizardBounds
  <2>2. UNCHANGED <<wizardRecord, recordLate, inter, interLate, wizardButtons, drafts, intended,
                    spaces>>
    BY <1>3 DEF Wizard!AdvanceFails, Wizard!draftVars, Wizard!spaceVars
  <2>3. QED
    BY <1>1, <2>1, <2>2 DEF TaskBounds, WAlone, WizardBounds
<1>4. QED
  BY <1>2, <1>3

\* Steps that end a draft.
LEMMA FinishBounds ==
  ASSUME WizardInv, WizardBounds, NEW t \in Wizard!Tasks, Wizard!Finish(t)
  PROVE  WizardBounds'
<1>1. WizardTyped
  BY DEF WizardInv
<1>2. UNCHANGED <<wizardRecord, recordLate, interLate, wizardButtons, drafts, intended, spaces,
                  wizardFaults>>
  BY DEF Wizard!Finish, Wizard!spaceVars
<1>3. inter'.rev = inter.rev /\ inter'.created = inter.created
  BY <1>1 DEF Wizard!Finish, WizardTyped, InterTypes
<1>4. TaskBounds(t)
  <2>1. CASE Wizard!Claimable(t)
    <3>1. /\ id' = [id EXCEPT ![t] = inter.created] /\ UNCHANGED action
          /\ draft' = [draft EXCEPT ![t] = [draft[t] EXCEPT !.payload = inter.payload]]
          /\ wizardPc' = [wizardPc EXCEPT ![t] = "create"]
      BY <2>1 DEF Wizard!Finish, Wizard!Work, Wizard!Goto
    <3>2. [draft[t] EXCEPT !.payload = inter.payload].rev = draft[t].rev
      BY <1>1 DEF WizardTyped, DraftTypes
    <3>3. draft'[t].rev = draft[t].rev /\ id'[t] = inter.created
      BY <1>1, <3>1, <3>2 DEF WizardTyped
    <3>4. WAlone(t)
      BY <1>1, <3>1 DEF WizardTyped, WAlone
    <3>5. QED
      BY <3>1, <3>3, <3>4 DEF TaskBounds, WizardBounds
  <2>2. CASE ~Wizard!Claimable(t)
    BY <1>1, <2>2, DoneBounds DEF Wizard!Finish
  <2>3. QED
    BY <2>1, <2>2
<1>5. QED
  BY <1>2, <1>3, <1>4 DEF TaskBounds, WAlone, WizardBounds

LEMMA PublishBounds ==
  ASSUME WizardInv, WizardBounds, NEW t \in Wizard!Tasks,
         \/ Wizard!Create(t) \/ Wizard!Post(t) \/ Wizard!PostFails(t) \/ Wizard!Space(t)
  PROVE  WizardBounds'
<1>1. /\ WizardTyped /\ wizardPc[t] \in {"create", "post", "space"}
      /\ UNCHANGED <<wizardRecord, recordLate, inter, interLate, wizardButtons, drafts, draft,
                     action, id>>
  BY DEF WizardInv, Wizard!Create, Wizard!Post, Wizard!PostFails, Wizard!Space, Wizard!draftVars
<1>2. id[t] \in Wizard!Ids /\ draft[t].payload \subseteq Wizard!Keys
  BY <1>1 DEF WizardInv, Published, WizardTyped, DraftTypes
<1>3. TaskBounds(t)
  BY <1>1, GoBounds DEF Wizard!Create, Wizard!Post, Wizard!PostFails, Wizard!Space
<1>4. wizardFaults' \in 0..MaxWizardFaults
  BY WizardFaultBound DEF Wizard!Create, Wizard!Post, Wizard!PostFails, Wizard!Space, WizardBounds
<1>5. intended' \subseteq Wizard!Ids \X {"intent", "post"}
  BY <1>2 DEF Wizard!Create, Wizard!Post, Wizard!PostFails, Wizard!Space, WizardBounds
<1>6. spaces' = spaces \/ spaces' = [spaces EXCEPT ![id[t]] = draft[t].payload]
  BY DEF Wizard!Create, Wizard!Post, Wizard!PostFails, Wizard!Space
<1>7. \A i \in Wizard!Ids : spaces'[i] = Wizard!NoSpace \/ spaces'[i] \subseteq Wizard!Keys
  BY <1>1, <1>2, <1>6 DEF WizardBounds, WizardTyped
<1>8. QED
  BY <1>1, <1>4, <1>5, <1>7 DEF WizardBounds

LEMMA EndBounds ==
  ASSUME WizardInv, WizardBounds, NEW t \in Wizard!Tasks,
         \/ Wizard!Clean(t) \/ Wizard!Remove(t) \/ Wizard!Expire
  PROVE  WizardBounds'
<1>1. WizardTyped /\ "expirer" \in Wizard!Tasks
  BY DEF WizardInv, Wizard!Tasks
<1>2. \E u \in Wizard!Tasks : TaskBounds(u)
  BY <1>1, GoBounds, DoneBounds DEF Wizard!Clean, Wizard!Remove, Wizard!Expire, Wizard!Go
<1>3. inter' = Wizard!NoInter \/ (inter'.rev = inter.rev /\ inter'.created = inter.created)
  BY <1>1 DEF Wizard!Clean, Wizard!Remove, Wizard!Expire, Wizard!DeleteInter, WizardTyped,
     InterTypes
<1>4. /\ UNCHANGED <<recordLate, interLate, drafts, intended, spaces, wizardFaults>>
      /\ wizardRecord' \in {wizardRecord, Wizard!NoDraft} /\ wizardButtons' \subseteq wizardButtons
  BY DEF Wizard!Clean, Wizard!Remove, Wizard!Expire, Wizard!DeleteInter, Wizard!spaceVars
<1>5. QED
  BY <1>2, <1>3, <1>4, NoneBounded DEF TaskBounds, WAlone, WizardBounds

LEMMA EnvironmentBounds ==
  ASSUME WizardInv, WizardBounds,
         Wizard!Deadline \/ Wizard!LeaseEnds \/ Wizard!Crash \/ UNCHANGED wizardVars
  PROVE  WizardBounds'
<1>1. WizardTyped
  BY DEF WizardInv
<1>2. CASE Wizard!Deadline
  BY <1>2 DEF WizardBounds, Wizard!Deadline, Wizard!taskVars, Wizard!spaceVars
<1>3. CASE Wizard!LeaseEnds
  <2>1. inter'.rev = inter.rev /\ inter'.created = inter.created
    BY <1>1, <1>3 DEF Wizard!LeaseEnds, WizardTyped, InterTypes
  <2>2. QED
    BY <1>3, <2>1, WizardFaultBound DEF WizardBounds, Wizard!LeaseEnds, Wizard!taskVars,
       Wizard!spaceVars
<1>4. CASE Wizard!Crash
  <2>1. \A t \in Wizard!Tasks : draft'[t] = Wizard!NoDraft /\ id'[t] = 0
    BY <1>4 DEF Wizard!Crash
  <2>2. wizardFaults' \in 0..MaxWizardFaults
    BY <1>4, WizardFaultBound DEF Wizard!Crash
  <2>3. action' = "text" /\ UNCHANGED <<wizardRecord, recordLate, inter, interLate,
                                       wizardButtons, drafts, intended, spaces>>
    BY <1>4 DEF Wizard!Crash, Wizard!draftVars, Wizard!spaceVars
  <2>4. QED
    BY <2>1, <2>2, <2>3, NoneBounded DEF WizardBounds
<1>5. CASE UNCHANGED wizardVars
  BY <1>5 DEF WizardBounds, wizardVars
<1>6. QED
  BY <1>2, <1>3, <1>4, <1>5
\* A draft that waits for the prompt has its directory.
LEMMA AsksLastInit == Wizard!Init => AsksLast
BY DEF Wizard!Init, AsksLast, Asks, Wizard!NoDraft, Wizard!NoInter

LEMMA AskedTask ==
  ASSUME AsksLast, WizardTyped, NEW t \in Wizard!Tasks, WAlone(t), Asks(wizardRecord'),
         Asks(inter'),
         \/ wizardPc'[t] \in {"create", "post", "space", "clean", "remove"}
         \/ Asks(draft'[t])
  PROVE  AsksLast'
BY DEF AsksLast, WAlone, Asks

LEMMA AsksNone == Asks(Wizard!NoDraft) /\ Asks(Wizard!NoInter)
BY DEF Asks, Wizard!NoDraft, Wizard!NoInter

LEMMA AsksDraft ==
  ASSUME WizardInv, AsksLast,
         \/ \E kind \in Wizard!Kinds : Wizard!Begin(kind)
         \/ Wizard!Persist \/ Wizard!Store \/ Wizard!Offer
  PROVE  AsksLast'
<1>1. WizardTyped /\ "chat" \in Wizard!Tasks
  BY DEF WizardInv, Wizard!Tasks
<1>2. ASSUME NEW kind \in Wizard!Kinds, Wizard!Begin(kind) PROVE AsksLast'
  <2>1. \E d : Wizard!Work("chat", d) /\ d.phase \in {"normal_model", "plan_choice", "project"}
    BY <1>2 DEF Wizard!Begin
  <2>2. wizardRecord' \in {wizardRecord, Wizard!NoDraft} /\ inter' \in {inter, Wizard!NoInter}
    BY <1>2 DEF Wizard!Begin, Wizard!DeleteInter
  <2>3. WAlone("chat") /\ draft'["chat"].phase \in {"normal_model", "plan_choice", "project"}
    BY <1>1, <1>2, <2>1 DEF Wizard!Begin, Wizard!Goto, Wizard!Work, WAlone, WizardTyped
  <2>4. Asks(wizardRecord') /\ Asks(inter')
    BY <2>2, AsksNone DEF AsksLast
  <2>5. QED
    BY <1>1, <2>3, <2>4, AskedTask DEF Asks
<1>3. CASE Wizard!Persist
  <2>1. Asks(draft["chat"])
    BY <1>1, <1>3 DEF AsksLast, Wizard!Persist
  <2>2. inter'.phase = draft["chat"].phase /\ inter'.payload = draft["chat"].payload
    BY <1>3 DEF Wizard!Persist
  <2>3. /\ draft'["chat"].phase = draft["chat"].phase
        /\ draft'["chat"].payload = draft["chat"].payload
        /\ WAlone("chat") /\ UNCHANGED wizardRecord
    BY <1>1, <1>3 DEF Wizard!Persist, Wizard!Goto, Wizard!Work, WAlone, WizardTyped, DraftTypes
  <2>4. QED
    BY <1>1, <2>1, <2>2, <2>3, AskedTask DEF AsksLast, Asks
<1>4. CASE Wizard!Store \/ Wizard!Offer
  <2>1. Asks(draft["chat"]) /\ wizardRecord' = draft["chat"] /\ UNCHANGED inter
    BY <1>1, <1>4 DEF AsksLast, Wizard!Store, Wizard!Offer
  <2>2. CASE Wizard!Done("chat")
    <3>1. WAlone("chat") /\ draft'["chat"] = Wizard!NoDraft
      BY <1>1, <2>2, WDoneEffect
    <3>2. QED
      BY <1>1, <2>1, <3>1, AskedTask, AsksNone DEF AsksLast
  <2>3. CASE ~Wizard!Done("chat")
    <3>1. /\ \E where : Wizard!Goto("chat", where)
          /\ UNCHANGED id
          /\ Wizard!Work("chat", IF action \in Wizard!Kinds THEN [draft["chat"] EXCEPT !.rev = 0]
                                                           ELSE draft["chat"])
      BY <1>4, <2>3 DEF Wizard!Store, Wizard!Offer
    <3>2. WAlone("chat")
      BY <1>1, <3>1 DEF Wizard!Goto, Wizard!Work, WAlone, WizardTyped
    <3>3. /\ draft'["chat"].phase = draft["chat"].phase
          /\ draft'["chat"].payload = draft["chat"].payload
      BY <1>1, <3>1 DEF Wizard!Work, WizardTyped, DraftTypes
    <3>4. QED
      BY <1>1, <2>1, <3>2, <3>3, AskedTask DEF AsksLast, Asks
  <2>4. QED
    BY <2>2, <2>3
<1>5. QED
  BY <1>2, <1>3, <1>4

LEMMA AsksTaken ==
  ASSUME WizardInv, AsksLast,
         \/ \E b \in wizardButtons : Wizard!Press(b)
         \/ Wizard!Text \/ Wizard!Scan
  PROVE  AsksLast'
<1>1. WizardTyped
  BY DEF WizardInv
<1>2. PICK t \in Wizard!Tasks : Wizard!Work(t, wizardRecord) /\ \E where : Wizard!Goto(t, where)
  BY DEF Wizard!Press, Wizard!Text, Wizard!Scan, Wizard!Tasks
<1>3. UNCHANGED <<wizardRecord, inter, id>>
  BY DEF Wizard!Press, Wizard!Text, Wizard!Scan, Wizard!draftVars
<1>4. WAlone(t) /\ draft'[t] = wizardRecord
  BY <1>1, <1>2, <1>3 DEF Wizard!Work, Wizard!Goto, WAlone, WizardTyped
<1>5. QED
  BY <1>1, <1>3, <1>4, AskedTask DEF AsksLast

LEMMA AsksAdvance ==
  ASSUME WizardInv, AsksLast, Wizard!Advance \/ Wizard!AdvanceFails
  PROVE  AsksLast'
<1>1. WizardTyped /\ "chat" \in Wizard!Tasks
  BY DEF WizardInv, Wizard!Tasks
<1>2. CASE Wizard!Advance
  <2>1. PICK s \in Wizard!Steps(action, draft["chat"].payload) :
          /\ inter' = [inter EXCEPT !.phase = s[1], !.payload = s[2], !.rev = @ + 1]
          /\ Wizard!Work("chat", [phase |-> s[1], payload |-> s[2], rev |-> inter.rev + 1])
    BY <1>2 DEF Wizard!Advance
  <2>2. s[1] = "prompt" => "cwd" \in s[2]
    BY DEF Wizard!Steps, Wizard!ProjectSteps
  <2>3. inter'.phase = s[1] /\ inter'.payload = s[2]
    BY <1>1, <2>1 DEF WizardTyped, InterTypes
  <2>4. draft'["chat"].phase = s[1] /\ draft'["chat"].payload = s[2]
    BY <1>1, <2>1 DEF Wizard!Work, WizardTyped
  <2>5. WAlone("chat") /\ UNCHANGED wizardRecord
    BY <1>1, <1>2, <2>1 DEF Wizard!Advance, Wizard!Goto, Wizard!Work, WAlone, WizardTyped
  <2>6. QED
    BY <1>1, <2>2, <2>3, <2>4, <2>5, AskedTask DEF AsksLast, Asks
<1>3. CASE Wizard!AdvanceFails
  <2>1. WAlone("chat") /\ draft'["chat"] = Wizard!NoDraft
    BY <1>1, <1>3, WDoneEffect DEF Wizard!AdvanceFails
  <2>2. UNCHANGED <<wizardRecord, inter>>
    BY <1>3 DEF Wizard!AdvanceFails, Wizard!draftVars
  <2>3. QED
    BY <1>1, <2>1, <2>2, AskedTask, AsksNone DEF AsksLast
<1>4. QED
  BY <1>2, <1>3

LEMMA AsksEnd ==
  ASSUME WizardInv, AsksLast, NEW t \in Wizard!Tasks,
         \/ Wizard!Finish(t) \/ Wizard!Create(t) \/ Wizard!Post(t) \/ Wizard!PostFails(t)
         \/ Wizard!Space(t) \/ Wizard!Clean(t) \/ Wizard!Remove(t)
  PROVE  AsksLast'
<1>1. WizardTyped
  BY DEF WizardInv
<1>2. wizardRecord' \in {wizardRecord, Wizard!NoDraft}
  BY DEF Wizard!Finish, Wizard!Create, Wizard!Post, Wizard!PostFails, Wizard!Space, Wizard!Clean,
     Wizard!Remove, Wizard!draftVars
<1>3. \/ inter' = Wizard!NoInter
      \/ inter'.phase = inter.phase /\ inter'.payload = inter.payload
  BY <1>1 DEF Wizard!Finish, Wizard!Create, Wizard!Post, Wizard!PostFails, Wizard!Space,
     Wizard!Clean, Wizard!Remove, Wizard!draftVars, Wizard!DeleteInter, WizardTyped, InterTypes
<1>4. Asks(wizardRecord') /\ Asks(inter')
  BY <1>2, <1>3, AsksNone DEF AsksLast, Asks
<1>5. CASE Wizard!Done(t)
  <2>1. WAlone(t) /\ draft'[t] = Wizard!NoDraft
    BY <1>1, <1>5, WDoneEffect
  <2>2. QED
    BY <1>1, <1>4, <2>1, AskedTask, AsksNone
<1>6. CASE ~Wizard!Done(t)
  <2>1. PICK where \in {"create", "post", "space", "clean", "remove"} : Wizard!Goto(t, where)
    BY <1>6 DEF Wizard!Finish, Wizard!Create, Wizard!Post, Wizard!PostFails, Wizard!Space,
       Wizard!Clean, Wizard!Remove
  <2>2. \A u \in Wizard!Tasks \ {t} : draft'[u] = draft[u] /\ id'[u] = id[u]
    BY <1>1, <1>6 DEF Wizard!Finish, Wizard!Create, Wizard!Post, Wizard!PostFails, Wizard!Space,
       Wizard!Clean, Wizard!Remove, Wizard!Work, WizardTyped
  <2>3. WAlone(t) /\ wizardPc'[t] = where
    BY <1>1, <2>1, <2>2 DEF WAlone, Wizard!Goto, WizardTyped
  <2>4. QED
    BY <1>1, <1>4, <2>1, <2>3, AskedTask
<1>7. QED
  BY <1>5, <1>6

LEMMA AsksOther ==
  ASSUME WizardInv, AsksLast,
         \/ Wizard!Expire \/ Wizard!Deadline \/ Wizard!LeaseEnds \/ Wizard!Crash
         \/ UNCHANGED wizardVars
  PROVE  AsksLast'
<1>1. WizardTyped /\ "expirer" \in Wizard!Tasks
  BY DEF WizardInv, Wizard!Tasks
<1>2. /\ UNCHANGED wizardRecord /\ inter'.phase = inter.phase /\ inter'.payload = inter.payload
  BY <1>1 DEF Wizard!Expire, Wizard!Deadline, Wizard!LeaseEnds, Wizard!Crash, wizardVars,
     Wizard!draftVars, WizardTyped, InterTypes
<1>3. Asks(wizardRecord') /\ Asks(inter')
  BY <1>2 DEF AsksLast, Asks
<1>4. CASE Wizard!Expire
  <2>1. CASE Wizard!Done("expirer")
    BY <1>1, <1>3, <2>1, AskedTask, AsksNone, WDoneEffect
  <2>2. CASE Wizard!Go("expirer", "clean")
    <3>1. WAlone("expirer") /\ wizardPc'["expirer"] = "clean"
      BY <1>1, <2>2 DEF Wizard!Go, Wizard!Goto, WAlone, WizardTyped
    <3>2. QED
      BY <1>1, <1>3, <3>1, AskedTask
  <2>3. QED
    BY <1>4, <2>1, <2>2 DEF Wizard!Expire
<1>5. CASE Wizard!Deadline \/ Wizard!LeaseEnds \/ UNCHANGED wizardVars
  <2>1. UNCHANGED <<wizardPc, draft>>
    BY <1>5 DEF Wizard!Deadline, Wizard!LeaseEnds, wizardVars, Wizard!taskVars
  <2>2. QED
    BY <1>3, <2>1 DEF AsksLast
<1>6. CASE Wizard!Crash
  <2>1. \A t \in Wizard!Tasks : draft'[t] = Wizard!NoDraft
    BY <1>6 DEF Wizard!Crash
  <2>2. QED
    BY <1>3, <2>1, AsksNone DEF AsksLast
<1>7. QED
  BY <1>4, <1>5, <1>6

LEMMA WizardBoundsNext ==
  WizardInv /\ WizardBounds /\ AsksLast /\ [Wizard!Next]_wizardVars => WizardBounds' /\ AsksLast'
<1> SUFFICES ASSUME WizardInv, WizardBounds, AsksLast, [Wizard!Next]_wizardVars
             PROVE  WizardBounds' /\ AsksLast'
  OBVIOUS
<1>1. "chat" \in Wizard!Tasks
  BY DEF Wizard!Tasks
<1>2. WizardBounds'
  BY <1>1, DraftBounds, TakenBounds, AdvanceBounds, FinishBounds, PublishBounds, EndBounds,
     EnvironmentBounds DEF Wizard!Next
<1>3. AsksLast'
  BY AsksDraft, AsksTaken, AsksAdvance, AsksEnd, AsksOther DEF Wizard!Next
<1>4. QED
  BY <1>2, <1>3

\* The epoch counts the locks that are marked: each lock under way is one that the bound
\* already counts.
Marking == {w \in TotpWorkers : totpPc[w] = "lock"}
EpochBounds ==
    /\ security.epoch + Cardinality(Marking) <= locks
    /\ \A s \in TotpSpaces : leases[s].epoch \in 0..MaxLocks
    /\ \A w \in TotpWorkers : work[w].epoch \in 0..MaxLocks

LEMMA MarkingFinite == IsFiniteSet(Marking) /\ Cardinality(Marking) \in Nat
<1>1. IsFiniteSet(Marking)
  BY FS_Subset, TotpAssumption DEF Marking
<1>2. QED
  BY <1>1, FS_CardinalityType

LEMMA EpochTyped ==
  ASSUME TotpTyped, EpochBounds
  PROVE  security.epoch \in 0..MaxLocks
BY MarkingFinite, TotpAssumption DEF TotpTyped, EpochBounds, SecurityRows

LEMMA TotpTypes == TotpInv /\ EpochBounds => Totp!TypeOK
<1> SUFFICES ASSUME TotpInv, EpochBounds PROVE Totp!TypeOK
  OBVIOUS
<1>1. TotpTyped
  BY DEF TotpInv
<1>2. security \in [last : Totp!Timecodes \cup {-1}, until : 0..MaxTime + UnlockTicks,
                    forced : BOOLEAN, epoch : 0..MaxLocks, failures : 0..FailureLimit + MaxTime,
                    locked : 0..MaxTime + LockTicks]
  <2>1. security \in SecurityRows /\ security.epoch \in 0..MaxLocks
    BY <1>1, EpochTyped DEF TotpTyped
  <2>2. 0..FailureLimit \subseteq 0..FailureLimit + MaxTime
    BY TotpAssumption
  <2>3. QED
    BY <2>1, <2>2 DEF SecurityRows
<1>3. leases \in [TotpSpaces -> [until : 0..MaxTime + UnlockTicks, epoch : 0..MaxLocks]]
  BY <1>1 DEF TotpTyped, LeaseRows, EpochBounds
<1>4. \A w \in TotpWorkers :
        /\ totpPc[w] \in {"idle", "match", "recovered", "epoch", "insert", "failure", "lock"}
        /\ work[w].scope \in TotpSpaces \cup {"global"} /\ work[w].code \in Totp!Codes
  BY <1>1 DEF TotpTyped, TotpPlaces, WorkRows
<1>5. accepted \in [Totp!Codes -> 0..2]
  <2>1. ASSUME NEW c \in Totp!Codes PROVE accepted[c] \in 0..2
    <3>1. accepted[c] \in Nat
      BY <1>1 DEF TotpTyped
    <3>2. accepted[c] <= 1
      BY <3>1 DEF TotpInv, CodesSpent, Totp!Codes
    <3>3. QED
      BY <3>1, <3>2
  <2>2. QED
    BY <1>1, <2>1 DEF TotpTyped
<1>6. QED
  BY <1>1, <1>2, <1>3, <1>4, <1>5 DEF TotpTyped, Totp!TypeOK

LEMMA EpochInit == Totp!Init => EpochBounds
<1> SUFFICES ASSUME Totp!Init PROVE EpochBounds
  OBVIOUS
<1>1. Marking = {}
  BY DEF Totp!Init, Marking
<1>2. 0 \in 0..MaxLocks
  BY TotpAssumption
<1>3. security.epoch = 0 /\ locks = 0
  BY DEF Totp!Init
<1>4. /\ \A s \in TotpSpaces : leases[s].epoch = 0
      /\ \A w \in TotpWorkers : work[w].epoch = 0
  BY DEF Totp!Init, Totp!NoLease, Totp!Idle
<1>5. QED
  BY <1>1, <1>2, <1>3, <1>4, FS_EmptySet DEF EpochBounds

LEMMA EpochNext == TotpInv /\ EpochBounds /\ [Totp!Next]_(Totp!vars) => EpochBounds'
<1> SUFFICES ASSUME TotpTyped, EpochBounds, [Totp!Next]_(Totp!vars) PROVE EpochBounds'
  BY DEF TotpInv
<1>1. /\ security.epoch \in Nat /\ locks \in Nat /\ 0 \in 0..MaxLocks
      /\ security.epoch \in 0..MaxLocks
  BY EpochTyped, TotpAssumption DEF TotpTyped, SecurityRows
<1>2. ASSUME security'.epoch = security.epoch, locks' = locks,
             \A w \in TotpWorkers : totpPc'[w] = "lock" => totpPc[w] = "lock",
             \A s \in TotpSpaces : leases'[s].epoch \in 0..MaxLocks,
             \A w \in TotpWorkers : work'[w].epoch \in 0..MaxLocks
      PROVE  EpochBounds'
  <2>1. Marking' \subseteq Marking
    BY <1>2 DEF Marking
  <2>2. Cardinality(Marking') <= Cardinality(Marking) /\ Cardinality(Marking') \in Nat
    BY <2>1, MarkingFinite, FS_Subset, FS_CardinalityType
  <2>3. QED
    BY <1>1, <1>2, <2>2, MarkingFinite DEF EpochBounds
<1>3. CASE Totp!Tick \/ UNCHANGED Totp!vars
  <2>1. UNCHANGED <<security, locks, totpPc, leases, work>>
    BY <1>3 DEF Totp!Tick, Totp!vars
  <2>2. QED
    BY <1>2, <2>1 DEF EpochBounds
<1>4. CASE Totp!Restart
  <2>1. Marking' = {} /\ locks' = locks + 1 /\ security' = security
    BY <1>4 DEF Totp!Restart, Marking
  <2>2. /\ \A s \in TotpSpaces : leases'[s].epoch = 0
        /\ \A w \in TotpWorkers : work'[w].epoch = 0
    BY <1>4 DEF Totp!Restart, Totp!NoLease, Totp!Idle
  <2>3. security.epoch + 0 <= locks + 1
    BY <1>1, MarkingFinite DEF EpochBounds
  <2>4. QED
    BY <1>1, <2>1, <2>2, <2>3, FS_EmptySet DEF EpochBounds
<1>5. ASSUME NEW w \in TotpWorkers, Totp!ClearLeases(w) PROVE EpochBounds'
  <2>1. Marking' = Marking \cup {w} /\ w \notin Marking
    BY <1>5 DEF Totp!ClearLeases, Totp!Goto, Marking, TotpTyped
  <2>2. Cardinality(Marking') = Cardinality(Marking) + 1
    BY <2>1, MarkingFinite, FS_AddElement
  <2>3. locks' = locks + 1 /\ UNCHANGED <<security, work>>
    BY <1>5 DEF Totp!ClearLeases
  <2>4. \A s \in TotpSpaces : leases'[s].epoch = 0
    BY <1>5 DEF Totp!ClearLeases, Totp!NoLease
  <2>5. QED
    BY <1>1, <2>2, <2>3, <2>4, MarkingFinite DEF EpochBounds
<1>6. ASSUME NEW w \in TotpWorkers, Totp!MarkLocked(w) PROVE EpochBounds'
  <2>1. Marking' = Marking \ {w} /\ w \in Marking
    BY <1>6 DEF Totp!MarkLocked, Totp!Goto, Marking, TotpTyped
  <2>2. Cardinality(Marking') = Cardinality(Marking) - 1
    BY <2>1, MarkingFinite, FS_RemoveElement
  <2>3. security'.epoch = security.epoch + 1 /\ UNCHANGED <<locks, leases, work>>
    BY <1>6 DEF Totp!MarkLocked, Totp!Locked, TotpTyped, SecurityRows
  <2>4. QED
    BY <1>1, <2>2, <2>3, MarkingFinite DEF EpochBounds
<1>7. ASSUME NEW w \in TotpWorkers,
             \/ Totp!Verify(w) \/ Totp!AcceptTimecode(w) \/ Totp!ConsumeRecovery(w)
             \/ Totp!AcceptRecovery(w) \/ Totp!Refuse(w) \/ Totp!ReadEpoch(w)
             \/ Totp!InsertLease(w) \/ Totp!RecordFailure(w) \/ Totp!LockSpace(w)
      PROVE  EpochBounds'
  <2>1. locks' = locks
    BY <1>7 DEF Totp!Verify, Totp!AcceptTimecode, Totp!ConsumeRecovery, Totp!AcceptRecovery,
       Totp!Refuse, Totp!ReadEpoch, Totp!InsertLease, Totp!RecordFailure, Totp!LockSpace
  <2>2. security'.epoch = security.epoch
    <3>1. Totp!Opened(w).epoch = security.epoch /\ Totp!Opened(w) \in SecurityRows
      BY OpenedRow DEF Totp!Opened, TotpTyped, SecurityRows
    <3>2. CASE Totp!AcceptTimecode(w) \/ Totp!AcceptRecovery(w)
      BY <3>1, <3>2 DEF Totp!AcceptTimecode, Totp!AcceptRecovery, SecurityRows
    <3>3. CASE Totp!RecordFailure(w)
      BY <3>3 DEF Totp!RecordFailure, TotpTyped, SecurityRows
    <3>4. QED
      BY <1>7, <3>2, <3>3 DEF Totp!Verify, Totp!ConsumeRecovery, Totp!Refuse, Totp!ReadEpoch,
         Totp!InsertLease, Totp!LockSpace
  <2>3. \A v \in TotpWorkers : totpPc'[v] = "lock" => totpPc[v] = "lock"
    <3>1. totpPc' = totpPc \/ \E to \in TotpPlaces \ {"lock"} : Totp!Goto(w, to)
      BY <1>7, Zenon DEF Totp!Verify, Totp!AcceptTimecode, Totp!ConsumeRecovery,
         Totp!AcceptRecovery, Totp!Refuse, Totp!ReadEpoch, Totp!InsertLease,
         Totp!RecordFailure, Totp!LockSpace, TotpPlaces
    <3>2. QED
      BY <3>1 DEF Totp!Goto, TotpTyped
  <2>4. \A s \in TotpSpaces : leases'[s].epoch \in 0..MaxLocks
    <3>1. CASE Totp!InsertLease(w) \/ Totp!LockSpace(w)
      BY <1>1, <3>1 DEF Totp!InsertLease, Totp!LockSpace, Totp!NoLease, EpochBounds, TotpTyped
    <3>2. QED
      BY <1>7, <3>1 DEF Totp!Verify, Totp!AcceptTimecode, Totp!ConsumeRecovery,
         Totp!AcceptRecovery, Totp!Refuse, Totp!ReadEpoch, Totp!RecordFailure, EpochBounds
  <2>5. \A v \in TotpWorkers : work'[v].epoch \in 0..MaxLocks
    BY <1>1, <1>7 DEF Totp!Verify, Totp!AcceptTimecode, Totp!ConsumeRecovery,
       Totp!AcceptRecovery, Totp!Refuse, Totp!ReadEpoch, Totp!InsertLease,
       Totp!RecordFailure, Totp!LockSpace, Totp!Idle, EpochBounds, TotpTyped, WorkRows
  <2>6. QED
    BY <1>2, <2>1, <2>2, <2>3, <2>4, <2>5
<1>8. QED
  BY <1>3, <1>4, <1>5, <1>6, <1>7 DEF Totp!Next

LEMMA WizardTypesHold == ChatSpec => [](Wizard!TypeOK)
<1> DEFINE Inv == WizardInv /\ WizardBounds /\ AsksLast
<1>1. ChatInit => Inv
  BY WizardStart, WizardBoundsInit, AsksLastInit DEF ChatInit
<1>2. Inv /\ [ChatNext]_allVars => Inv'
  <2>1. [ChatNext]_allVars => [Wizard!Next]_wizardVars
    BY DEF ChatNext, allVars
  <2>2. QED
    BY <2>1, WizardNext, WizardBoundsNext
<1>3. Inv => Wizard!TypeOK
  BY WizardTypes DEF WizardInv
<1>4. QED
  BY <1>1, <1>2, <1>3, PTL DEF ChatSpec

LEMMA TotpTypesHold == ChatSpec => [](Totp!TypeOK)
<1> DEFINE Inv == TotpInv /\ EpochBounds
<1>1. ChatInit => Inv
  BY TotpInit, EpochInit DEF ChatInit
<1>2. Inv /\ [ChatNext]_allVars => Inv'
  BY TotpParts, TotpTypedNext, CodesNext, ForcedNext, EpochNext DEF TotpInv
<1>3. Inv => Totp!TypeOK
  BY TotpTypes
<1>4. QED
  BY <1>1, <1>2, <1>3, PTL DEF ChatSpec

LEMMA SessionTypesHold == ChatSpec => [](Sessions!TypeOK)
<1>1. SessionsInv => Sessions!TypeOK
  BY DEF SessionsInv, SessionsTyped, Sessions!TypeOK, SessionPlaces, OfRow, OfSession, Activating,
     Jobs
<1>2. QED
  BY <1>1, SessionsInvariant, PTL
==============================================================================
