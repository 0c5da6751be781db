----------------------------- MODULE CaptureWin -----------------------------
(***************************************************************************)
(* The capture task composed with the Windows hook thread: the two run     *)
(* concurrently and meet in calls and events only.                         *)
(***************************************************************************)
EXTENDS CaptureTask, WinHook

CONSTANT Backlog   \* bound: the user, and the arms of the task that do not serve
                   \* the hook thread's events, wait while more messages are posted

ASSUME BacklogAssumption == Backlog \in Nat

vars == <<calls, events, taskVars, hookVars>>

TypeOK == ApiTypeOK /\ TaskTypeOK /\ HookTypeOK

Init ==
    /\ calls = <<>>
    /\ events = <<>>
    /\ TaskInit
    /\ HookInit

Next ==
    \/ ServesEvents /\ UNCHANGED hookVars
    \/ Len(posted) <= Backlog /\ ServesOthers /\ UNCHANGED hookVars
    \/ Network /\ UNCHANGED hookVars
    \/ HookApi /\ UNCHANGED taskVars
    \/ HookLoop /\ UNCHANGED taskVars
    \/ Len(posted) <= Backlog /\ HookUser /\ UNCHANGED taskVars

Spec == Init /\ [][Next]_vars

(* a user who keeps moving the mouse while it is captured *)
UserMoves == Len(posted) <= Backlog /\ \E i \in Input : HookInput(i)

(* Fairness.  Both threads run; select! polls its arms in random order, so an  *)
(* arm that is ready again and again is served.                                *)
Fairness ==
    /\ WF_vars(HookApi /\ UNCHANGED taskVars)
    /\ WF_vars(HookLoop /\ UNCHANGED taskVars)
    /\ SF_vars(UserMoves /\ UNCHANGED taskVars)
    /\ SF_vars(ServesEvents /\ UNCHANGED hookVars)
    /\ SF_vars(Len(posted) <= Backlog /\ PendingTimeout /\ UNCHANGED hookVars)
    /\ \A c \in Client :
        /\ SF_vars(Len(posted) <= Backlog /\ ServesFrames(c) /\ UNCHANGED hookVars)
        /\ WF_vars(PeerIsAlive(c) /\ UNCHANGED hookVars)

LiveSpec == Spec /\ Fairness

-----------------------------------------------------------------------------
(* Properties.                                                                *)

(* The backend contract, implemented by the hook thread.                      *)
Contract == INSTANCE CaptureContract
    WITH active <- ACTIVE_CLIENT, pending <- PENDING_CLIENT, out <- events

(* The hook thread keeps the promises of CaptureContract whatever the capture *)
(* task calls: the message loop and the hook procedures of event_thread.rs    *)
(* only take steps the contract allows.                                       *)
ImplementsContract == Contract!Spec

(* The task is told of a capture before it sees its input, and of a crossing  *)
(* before it is told of the capture: in the event channel an Input of a       *)
(* barrier comes right after its Begin or another Input, and a Begin or a     *)
(* CancelPending right after the BeginPending of the same barrier.            *)
EventOrder == Contract!EventOrder

(* ACTIVE_CLIENT and PENDING_CLIENT are mutually exclusive and name barriers  *)
(* that exist (the doc of PENDING_CLIENT, event_thread.rs:212): a destroyed   *)
(* barrier is never left pending or active.                                   *)
BarrierStates ==
    /\ ACTIVE_CLIENT = None \/ PENDING_CLIENT = None
    /\ {ACTIVE_CLIENT, PENDING_CLIENT} \subseteq CLIENTS \cup {None}

(* nothing is under way between the task and the hook thread *)
Settled ==
    /\ calls = <<>>
    /\ events = <<>>
    /\ fan_to = {}
    /\ posted = <<>>
    /\ draining = <<>>

(* The host's mouse and keyboard are never swallowed for nobody: once all     *)
(* messages are handled, an active barrier with a client belongs to the       *)
(* client that the task is sending input to.  Holds as long as the user does  *)
(* not use the release bind: a key may stay in pressed_keys after a release.  *)
CaptureIsOwned ==
    Settled /\ ACTIVE_CLIENT # None =>
        \/ state = "Sending" /\ captures[active_client] = ACTIVE_CLIENT
        \/ ~is_default_capture_at(ACTIVE_CLIENT)

(* A crossing is never forgotten: once all messages are handled, a pending    *)
(* barrier with a client is one whose Ack the task waits for, so that the     *)
(* 500 ms timeout of pending_tick will clear it; the exception is a release   *)
(* bind that the task takes for pressed.                                      *)
PendingIsTracked ==
    Settled /\ PENDING_CLIENT # None =>
        \/ state = "Pending" /\ pending_key = PENDING_CLIENT
        \/ ~is_default_capture_at(PENDING_CLIENT)
        \/ keys_pressed(pressed_keys)

(* Every crossing ends: the Ack promotes it, or a pull-back, an error, the    *)
(* timeout, a release or a destroy clears it.                                 *)
CrossingIsResolved == PENDING_CLIENT # None ~> PENDING_CLIENT = None

(* A capture that the task has given up (release_capture) ends in the hook    *)
(* thread too, unless the task takes it up again.                             *)
AbandonedCaptureEnds ==
    ACTIVE_CLIENT # None /\ state = "Idle" ~> ACTIVE_CLIENT = None \/ state # "Idle"

(* When the session of the active client dies the user gets the mouse back,   *)
(* by moving it: the failed send of the input releases the capture.           *)
DeadLinkFreesMouse == \A c \in Client :
    ACTIVE_CLIENT # None /\ active_client = c /\ ~link[c] ~> ACTIVE_CLIENT = None \/ link[c]

-----------------------------------------------------------------------------
(* A statement of the repository that the model refutes.                      *)

(* expect("no such capture") (capture.rs:626): an event is handed to handles  *)
(* that are registered.                                                       *)
EventHasCapture == ~panicked
=============================================================================
