--------------------------- MODULE MCUpdatePolling ---------------------------
(* Model checking of UpdatePolling on a few updates from two chats.        *)
EXTENDS UpdatePolling

CONSTANTS fast, slow

\* Chats alternate, so that each chat has updates below and above the other's.
MCChatOf == [id \in Ids |-> IF id % 2 = 1 THEN slow ELSE fast]

\* The slow chat's updates come first.
MCSlowFirst == [id \in Ids |-> IF id < MaxId THEN slow ELSE fast]

\* Handlers of the chat "slow" need not end.
SlowChatSpec == Spec /\ Fairness({fast})

\* daemon.rs:368-371, "a slow handler only queues its own key and never blocks
\* other chats or bots": an update of the fast chat is handled although the
\* slow chat's handler hangs.  The window of MaxBacklog unrecorded updates
\* makes it false.
OtherChatsProceed ==
    \A id \in Ids : id \in arrived /\ ChatOf[id] = fast ~> id \in done
==============================================================================
