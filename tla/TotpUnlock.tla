------------------------------ MODULE TotpUnlock ------------------------------
(* Verification of one-time codes (security.rs, the security row of the store  *)
(* and the /totp and /lock commands).  A code opens a window: the global one,  *)
(* kept in the store, or that of one space, a lease kept in memory.  Workers   *)
(* of different chats verify and lock at the same time.  Time is counted in    *)
(* the intervals of the codes, so that a code is named by its time.            *)
EXTENDS Integers, FiniteSets

CONSTANTS
    TotpWorkers,   \* workers of chats
    TotpSpaces,    \* spaces; the global scope is named "global"
    RecoveryCodes,
    UnlockTicks,   \* length of a window
    LockTicks,     \* length of the pause after repeated failures
    FailureLimit,  \* failures that start the pause (5 in the code)
    MaxTime,       \* bound on time
    MaxLocks       \* bound on /lock commands and restarts

VARIABLES
    now,
    security,      \* the row of rust_security_state
    unused,        \* recovery codes not consumed
    leases,        \* of each space: until when, and the epoch it was granted in
    pc, work,      \* of each worker: where it is, and what it verifies
    accepted,      \* how often each code was accepted
    shut,          \* the last global lock came after the last accepted code
    locks
vars == <<now, security, unused, leases, pc, work, accepted, shut, locks>>

Timecodes == 0..MaxTime + 1
Codes == Timecodes \cup RecoveryCodes
NoLease == [until |-> 0, epoch |-> 0]
Idle == [scope |-> "global", at |-> 0, code |-> 0, epoch |-> 0]

TypeOK ==
    /\ now \in 0..MaxTime
    /\ security \in [last : Timecodes \cup {-1}, until : 0..MaxTime + UnlockTicks, forced : BOOLEAN,
                     epoch : 0..MaxLocks, failures : 0..FailureLimit + MaxTime,
                     locked : 0..MaxTime + LockTicks]
    /\ unused \subseteq RecoveryCodes
    /\ leases \in [TotpSpaces -> [until : 0..MaxTime + UnlockTicks, epoch : 0..MaxLocks]]
    /\ \A w \in TotpWorkers :
          /\ pc[w] \in {"idle", "match", "recovered", "epoch", "insert", "failure", "lock"}
          /\ work[w].scope \in TotpSpaces \cup {"global"} /\ work[w].code \in Codes
    /\ accepted \in [Codes -> 0..2] /\ shut \in BOOLEAN /\ locks \in 0..MaxLocks

Init ==
    /\ now = 0
    /\ security = [last |-> -1, until |-> 0, forced |-> FALSE, epoch |-> 0,
                   failures |-> 0, locked |-> 0]
    /\ unused = RecoveryCodes /\ leases = [s \in TotpSpaces |-> NoLease]
    /\ pc = [w \in TotpWorkers |-> "idle"] /\ work = [w \in TotpWorkers |-> Idle]
    /\ accepted = [c \in Codes |-> 0] /\ shut = FALSE /\ locks = 0

Goto(w, where) == pc' = [pc EXCEPT ![w] = where]
Until(w) == work[w].at + UnlockTicks

\* is_totp_unlocked and is_unlocked_for_space.
GlobalOpen == ~security.forced /\ security.until > now
SpaceOpen(s) ==
    ~security.forced /\ leases[s].epoch = security.epoch /\ leases[s].until > now

Tick == now < MaxTime /\ now' = now + 1
        /\ UNCHANGED <<security, unused, leases, pc, work, accepted, shut, locks>>

\* /totp: nothing is verified during the pause.
Verify(w) ==
    /\ pc[w] = "idle" /\ security.locked <= now
    /\ \E scope \in TotpSpaces \cup {"global"}, code \in Codes :
          work' = [work EXCEPT ![w] = [scope |-> scope, at |-> now, code |-> code, epoch |-> 0]]
    /\ Goto(w, "match")
    /\ UNCHANGED <<now, security, unused, leases, accepted, shut, locks>>

------------------------------------------------------------------------------
(* verify_and_unlock_inner *)

\* The store takes a time code only when it is later than the last one it took.
Different(code) == code # security.last
Newer(code) == Different(code) /\ code > security.last
Window(w) == work[w].at - 1..work[w].at + 1

\* accept_totp_timecode opens the global window; for a space it is closed.
Opened(w) ==
    [security EXCEPT !.until = IF work[w].scope = "global" THEN Until(w) ELSE 0,
                     !.forced = FALSE, !.failures = 0, !.locked = 0]
AcceptTimecode(w) ==
    LET code == work[w].code IN
    /\ pc[w] = "match" /\ code \in Timecodes /\ code \in Window(w) /\ Newer(code)
    /\ security' = [Opened(w) EXCEPT !.last = code]
    /\ accepted' = [accepted EXCEPT ![code] = @ + 1] /\ shut' = FALSE
    /\ Goto(w, "epoch") /\ work' = [work EXCEPT ![w].code = 0]
    /\ UNCHANGED <<now, unused, leases, locks>>

\* A recovery code is consumed first, and accepted in a second transaction.
ConsumeRecovery(w) ==
    /\ pc[w] = "match" /\ work[w].code \in unused
    /\ unused' = unused \ {work[w].code}
    /\ Goto(w, "recovered")
    /\ UNCHANGED <<now, security, leases, work, accepted, shut, locks>>
AcceptRecovery(w) ==
    /\ pc[w] = "recovered"
    /\ security' = IF work[w].scope = "global" THEN Opened(w)
                   ELSE [Opened(w) EXCEPT !.until = security.until]
    /\ accepted' = [accepted EXCEPT ![work[w].code] = @ + 1] /\ shut' = FALSE
    /\ Goto(w, "epoch") /\ work' = [work EXCEPT ![w].code = 0]
    /\ UNCHANGED <<now, unused, leases, locks>>

Refuse(w) ==
    LET code == work[w].code IN
    /\ pc[w] = "match"
    /\ IF code \in Timecodes THEN code \notin Window(w) \/ ~Newer(code) ELSE code \notin unused
    /\ Goto(w, "failure") /\ work' = [work EXCEPT ![w] = [Idle EXCEPT !.at = work[w].at]]
    /\ UNCHANGED <<now, security, unused, leases, accepted, shut, locks>>

\* The lease has the epoch read after the code was accepted.
ReadEpoch(w) ==
    /\ pc[w] = "epoch"
    /\ work' = [work EXCEPT ![w].epoch = security.epoch]
    /\ Goto(w, "insert")
    /\ UNCHANGED <<now, security, unused, leases, accepted, shut, locks>>
InsertLease(w) ==
    /\ pc[w] = "insert"
    /\ leases' = IF work[w].scope = "global" THEN leases
                 ELSE [leases EXCEPT ![work[w].scope] =
                         [until |-> Until(w), epoch |-> work[w].epoch]]
    /\ Goto(w, "idle") /\ work' = [work EXCEPT ![w] = Idle]
    /\ UNCHANGED <<now, security, unused, accepted, shut, locks>>

\* record_totp_failure: the count is kept when the pause ends.
RecordFailure(w) ==
    /\ pc[w] = "failure"
    /\ security' =
          IF security.locked > work[w].at THEN security
          ELSE LET count == security.failures + 1 IN
               [security EXCEPT
                   !.failures = IF count > FailureLimit THEN FailureLimit ELSE count,
                   !.locked = IF count >= FailureLimit THEN work[w].at + LockTicks ELSE 0]
    /\ Goto(w, "idle") /\ work' = [work EXCEPT ![w] = Idle]
    /\ UNCHANGED <<now, unused, leases, accepted, shut, locks>>

------------------------------------------------------------------------------
(* /lock *)

LockSpace(w) ==
    /\ pc[w] = "idle"
    /\ \E s \in TotpSpaces : leases' = [leases EXCEPT ![s] = NoLease]
    /\ UNCHANGED <<now, security, unused, pc, work, accepted, shut, locks>>

\* TotpManager::lock clears the leases, then marks the row.
ClearLeases(w) ==
    /\ pc[w] = "idle" /\ locks < MaxLocks /\ locks' = locks + 1
    /\ leases' = [s \in TotpSpaces |-> NoLease]
    /\ Goto(w, "lock")
    /\ UNCHANGED <<now, security, unused, work, accepted, shut>>
EpochOnly == [security EXCEPT !.until = 0, !.epoch = @ + 1]
Locked == [security EXCEPT !.until = 0, !.forced = TRUE, !.epoch = @ + 1]
MarkLocked(w) ==
    /\ pc[w] = "lock"
    /\ security' = Locked /\ shut' = TRUE
    /\ Goto(w, "idle")
    /\ UNCHANGED <<now, unused, leases, work, accepted, locks>>

\* The leases are lost with the process.
Restart ==
    /\ locks < MaxLocks /\ locks' = locks + 1
    /\ leases' = [s \in TotpSpaces |-> NoLease]
    /\ pc' = [w \in TotpWorkers |-> "idle"] /\ work' = [w \in TotpWorkers |-> Idle]
    /\ UNCHANGED <<now, security, unused, accepted, shut>>

Next ==
    \/ Tick \/ Restart
    \/ \E w \in TotpWorkers :
          \/ Verify(w) \/ AcceptTimecode(w) \/ ConsumeRecovery(w) \/ AcceptRecovery(w)
          \/ Refuse(w) \/ ReadEpoch(w) \/ InsertLease(w) \/ RecordFailure(w)
          \/ LockSpace(w) \/ ClearLeases(w) \/ MarkLocked(w)
Spec == Init /\ [][Next]_vars

------------------------------------------------------------------------------
(* Properties *)

\* A code is accepted once: the window of three intervals, two workers at a time
\* and restarts never make a time code or a recovery code good again
\* (accept_totp_timecode, consume_recovery_code).
CodeOnce == \A c \in Codes : accepted[c] <= 1

\* After a global lock nothing is open until another code is accepted, even when
\* the lock ran between the acceptance of a code and its lease
\* (TotpManager::lock, verify_and_unlock_inner).
LockHolds == shut => ~GlobalOpen /\ \A s \in TotpSpaces : ~SpaceOpen(s)
=============================================================================
