------------------------------- MODULE Workflows -------------------------------
(* The workflows of a chat and what the bridge shows of a thread: ten modules  *)
(* that share no state, of which one is about each behaviour ("part"); the     *)
(* variables of the others keep their initial values.  WorkflowProjection is   *)
(* extended, the others are instances, with constants and variables renamed    *)
(* where two modules use the same name.                                        *)
EXTENDS WorkflowProjection

CONSTANTS
    Parts,         \* modules the behaviours are about
    \* Questions; MaxGeneration is that of WorkflowProjection
    QuestionIds, MaxQuestions, Options, Generation, MaxQuestionFaults, MaxAnswers,
    \* Plans
    PlanIds, MaxPlanTurns, MaxPlanFaults, NoPlan,
    \* NewWizard
    MaxRevision, MaxDrafts, MaxWizardFaults,
    \* SessionSpaces
    Roots, MaxThreads,
    \* StatusMessages
    MaxStatusChanges, MaxButtons, MaxComments, MaxStatusFaults,
    \* TotpUnlock
    TotpWorkers, TotpSpaces, RecoveryCodes, UnlockTicks, LockTicks,
    FailureLimit, MaxTime, MaxLocks,
    \* ThreadProjections
    MaxTurns, MaxPending, MaxTroubles,
    \* ThreadItems
    Agents, MaxItems, MaxTasks, MaxHistory, MaxSeconds, MaxAgentChanges

\* The modules a behaviour may be about.
ASSUME PartsAssumption ==
    Parts \subseteq {"engine", "question", "plan", "wizard", "session",
                    "status", "totp", "thread", "item", "approval"}

\* Durations and limits are natural numbers, and a recovery code is no time code.
ASSUME TotpAssumption ==
    /\ UnlockTicks \in Nat /\ LockTicks \in Nat /\ FailureLimit \in Nat
    /\ MaxTime \in Nat /\ MaxLocks \in Nat
    /\ IsFiniteSet(TotpWorkers) /\ "global" \notin TotpSpaces
    /\ \A c \in RecoveryCodes : c \notin 0..MaxTime + 1

\* Drafts, threads, turns and comments are numbered.
ASSUME MaxDraftsAssumption == MaxDrafts \in Nat
ASSUME MaxThreadsAssumption == MaxThreads \in Nat
ASSUME MaxTurnsAssumption == MaxTurns \in Nat
ASSUME MaxCommentsAssumption == MaxComments \in Nat

\* Subagents are numbers, which order their ids, and time has begun.
ASSUME ItemsAssumption ==
    /\ IsFiniteSet(Agents) /\ Agents \subseteq Nat
    /\ MaxItems \in Nat /\ MaxTasks \in Nat /\ MaxHistory \in Nat
    /\ MaxSeconds \in Nat \ {0} /\ MaxAgentChanges \in Nat

\* The bounds of the models are natural numbers.
ASSUME BoundsAssumption ==
    /\ Generation \in Nat /\ MaxGeneration \in Nat /\ Generation <= MaxGeneration
    /\ MaxQuestions \in Nat /\ MaxQuestionFaults \in Nat /\ MaxAnswers \in Nat
    /\ MaxPlanTurns \in Nat /\ MaxPlanFaults \in Nat
    /\ MaxRevision \in Nat /\ MaxWizardFaults \in Nat
    /\ MaxStatusChanges \in Nat /\ MaxButtons \in Nat /\ MaxStatusFaults \in Nat
    /\ MaxPending \in Nat /\ MaxTroubles \in Nat

VARIABLES
    part,
    \* Questions
    ids, secret, generation, expired, record, table, buttons, shown,
    presenter, chat, copy, answered, refusals, overlapped, faults, presses,
    \* Plans
    status, planButtons, planShown, prompted, planIntents, pc, plan, decision,
    turn, turns, started, revised, republished, planFaults,
    \* NewWizard
    wizardRecord, recordLate, inter, interLate, wizardButtons, wizardPc,
    draft, action, id, drafts, intended, spaces, posts, wizardFaults,
    \* SessionSpaces
    space, payload, sessionStarted, queued, confirms, byThread, byChat, owner,
    sessionPc, job, writer, late,
    \* StatusMessages
    row, content, print, live, made, comments, statusShown, statusPc,
    statusCopy, button, retired, statusFaults,
    \* TotpUnlock
    now, security, unused, leases, totpPc, work, accepted, shut, locks,
    \* ThreadProjections
    truth, events, phase, rebuilt, mem, threadRow, fresh, aged, quiet,
    debounce, threadShown, threadLive, troubles,
    \* ThreadItems
    agent, changes, resumed, history, clock, itemProjection,
    \* ApprovalProtocol
    request, approvalPhase, offered, answer, approvalRecord, confirmation

Questions == INSTANCE Questions WITH MaxFaults <- MaxQuestionFaults

Plans == INSTANCE Plans WITH
    MaxTurns <- MaxPlanTurns, MaxFaults <- MaxPlanFaults,
    buttons <- planButtons, shown <- planShown, intents <- planIntents,
    faults <- planFaults

Wizard == INSTANCE NewWizard WITH
    MaxFaults <- MaxWizardFaults, record <- wizardRecord,
    buttons <- wizardButtons, pc <- wizardPc, faults <- wizardFaults

Sessions == INSTANCE SessionSpaces WITH
    Spaces <- Roots, started <- sessionStarted, pc <- sessionPc

Status == INSTANCE StatusMessages WITH
    MaxChanges <- MaxStatusChanges, MaxFaults <- MaxStatusFaults,
    shown <- statusShown, pc <- statusPc, copy <- statusCopy,
    faults <- statusFaults

Totp == INSTANCE TotpUnlock WITH pc <- totpPc

Threads == INSTANCE ThreadProjections WITH
    row <- threadRow, shown <- threadShown, live <- threadLive

Items == INSTANCE ThreadItems WITH
    MaxTime <- MaxSeconds, MaxChanges <- MaxAgentChanges,
    projection <- itemProjection

Approvals == INSTANCE ApprovalProtocol WITH
    phase <- approvalPhase, record <- approvalRecord

questionVars == <<ids, secret, generation, expired, record, table, buttons,
    shown, presenter, chat, copy, answered, refusals, overlapped, faults,
    presses>>
planVars == <<status, planButtons, planShown, prompted, planIntents, pc, plan,
    decision, turn, turns, started, revised, republished, planFaults>>
wizardVars == <<wizardRecord, recordLate, inter, interLate, wizardButtons,
    wizardPc, draft, action, id, drafts, intended, spaces, posts,
    wizardFaults>>
sessionVars == <<space, payload, sessionStarted, queued, confirms, byThread,
    byChat, owner, sessionPc, job, writer, late>>
statusVars == <<row, content, print, live, made, comments, statusShown,
    statusPc, statusCopy, button, retired, statusFaults>>
totpVars == <<now, security, unused, leases, totpPc, work, accepted, shut,
    locks>>
threadVars == <<truth, events, phase, rebuilt, mem, threadRow, fresh, aged,
    quiet, debounce, threadShown, threadLive, troubles>>
itemVars == <<agent, changes, resumed, history, clock, itemProjection>>
approvalVars == <<request, approvalPhase, offered, answer, approvalRecord,
    confirmation>>

allVars ==
    <<part, vars, questionVars, planVars, wizardVars, sessionVars, statusVars,
      totpVars, threadVars, itemVars, approvalVars>>

ChatNext ==
    /\ UNCHANGED part
    /\ \/ /\ part = "engine" /\ Next
          /\ UNCHANGED <<questionVars, planVars, wizardVars, sessionVars,
                         statusVars, totpVars, threadVars, itemVars,
                         approvalVars>>
       \/ /\ part = "question" /\ Questions!Next
          /\ UNCHANGED <<vars, planVars, wizardVars, sessionVars, statusVars,
                         totpVars, threadVars, itemVars, approvalVars>>
       \/ /\ part = "plan" /\ Plans!Next
          /\ UNCHANGED <<vars, questionVars, wizardVars, sessionVars,
                         statusVars, totpVars, threadVars, itemVars,
                         approvalVars>>
       \/ /\ part = "wizard" /\ Wizard!Next
          /\ UNCHANGED <<vars, questionVars, planVars, sessionVars,
                         statusVars, totpVars, threadVars, itemVars,
                         approvalVars>>
       \/ /\ part = "session" /\ Sessions!Next
          /\ UNCHANGED <<vars, questionVars, planVars, wizardVars, statusVars,
                         totpVars, threadVars, itemVars, approvalVars>>
       \/ /\ part = "status" /\ Status!Next
          /\ UNCHANGED <<vars, questionVars, planVars, wizardVars,
                         sessionVars, totpVars, threadVars, itemVars,
                         approvalVars>>
       \/ /\ part = "totp" /\ Totp!Next
          /\ UNCHANGED <<vars, questionVars, planVars, wizardVars,
                         sessionVars, statusVars, threadVars, itemVars,
                         approvalVars>>
       \/ /\ part = "thread" /\ Threads!Next
          /\ UNCHANGED <<vars, questionVars, planVars, wizardVars,
                         sessionVars, statusVars, totpVars, itemVars,
                         approvalVars>>
       \/ /\ part = "item" /\ Items!Next
          /\ UNCHANGED <<vars, questionVars, planVars, wizardVars,
                         sessionVars, statusVars, totpVars, threadVars,
                         approvalVars>>
       \/ /\ part = "approval" /\ Approvals!Next
          /\ UNCHANGED <<vars, questionVars, planVars, wizardVars,
                         sessionVars, statusVars, totpVars, threadVars,
                         itemVars>>

ChatInit ==
    /\ part \in Parts
    /\ Init /\ Questions!Init /\ Plans!Init /\ Wizard!Init /\ Sessions!Init
    /\ Status!Init /\ Totp!Init /\ Threads!Init /\ Items!Init /\ Approvals!Init
ChatSpec == ChatInit /\ [][ChatNext]_allVars

------------------------------------------------------------------------------
\* Every variable keeps its type, in the module the behaviour is about.
TypesOK ==
    CASE part = "engine" -> TypeOK
      [] part = "question" -> Questions!TypeOK
      [] part = "plan" -> Plans!TypeOK
      [] part = "wizard" -> Wizard!TypeOK
      [] part = "session" -> Sessions!TypeOK
      [] part = "status" -> Status!TypeOK
      [] part = "totp" -> Totp!TypeOK
      [] part = "thread" -> Threads!TypeOK
      [] part = "item" -> Items!TypeOK
      [] part = "approval" -> TRUE

\* A request for input gets one reply, and a plan one decision, whichever buttons
\* and commands come and however the presenter and the chat's worker overlap.
AnsweredOnce ==
    /\ part = "question" => Questions!OneReply
    /\ part = "plan" => Plans!OneDecision

\* The wizard publishes a draft once, and only with a complete profile.
DraftPublishedOnce == part = "wizard" => Wizard!OnePost /\ Wizard!CompleteProfile

\* Until the first prompt of a space is known to have started, the space is not
\* active and the prompt is kept for another attempt.
FirstPromptSafe == part = "session" => Sessions!FirstPromptKept /\ Sessions!ActiveStarted

\* A space that was closed stays closed (upsert_session_space).
ClosedForGood == [][Sessions!StaysClosed]_sessionVars

\* No copy of a record that a task still holds undoes what another task has
\* stored: an answered question stays answered, a counted turn stays counted.
StaleCopiesLose == [][Questions!StaysResolved /\ Threads!KeepsTotals]_<<questionVars, threadVars>>

\* The button of a space's status comment works, whatever updates and failed
\* edits were under way.
ButtonWorks == part = "status" => Status!ButtonWorks

\* A code opens one window, and a lock closes it, whatever the workers had begun.
UnlocksHold == part = "totp" => Totp!CodeOnce /\ Totp!LockHolds

\* Token totals count each turn once, and the rebuilt projection agrees with the
\* app-server when it has caught up.
ProjectionAgrees == part = "thread" => Threads!CountedOnce /\ Threads!Agrees

\* The items of a thread keep their order and its subagents their ends, over
\* repeated events, drops and rebuilding.
ItemsAgree ==
    part = "item" => Items!ItemsInOrder /\ Items!EndsHaveTimes /\ Items!EndsSurvive

\* The daemon's answers to approvals keep to the contract of the client library,
\* and to what is recorded and confirmed.
ApprovalsAgree == part = "approval" => Approvals!WithinContract /\ Approvals!RecordAgrees

\* README.md:249-250, "Discussion Bot forwards messages to the matching Codex
\* session".
PromptReachesItsSession == part = "session" => Sessions!PromptReachesItsSession
==============================================================================
