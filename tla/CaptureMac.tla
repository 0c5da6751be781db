----------------------------- MODULE CaptureMac -----------------------------
(***************************************************************************)
(* The capture task composed with the macOS backend: the task, the         *)
(* producer task and the tap thread meet in calls, events and the mutex.   *)
(***************************************************************************)
EXTENDS CaptureTask, MacTap

CONSTANT Backlog   \* bound: the user, and the arms of the task that do not serve
                   \* the tap's events, wait while more calls are under way

ASSUME MacAssumption ==
    /\ Backlog \in Nat
    /\ CoreGraphicsFails \in BOOLEAN

vars == <<calls, events, taskVars, tapVars>>

TypeOK == ApiTypeOK /\ TaskTypeOK /\ TapTypeOK

Init ==
    /\ calls = <<>>
    /\ events = <<>>
    /\ TaskInit
    /\ TapInit

Next ==
    \/ ServesEvents /\ UNCHANGED tapVars
    \/ Len(notify) <= Backlog /\ ServesOthers /\ UNCHANGED tapVars
    \/ Network /\ UNCHANGED tapVars
    \/ NotifyProducer /\ UNCHANGED taskVars
    \/ Producer /\ UNCHANGED taskVars
    \/ SwitchEnds /\ UNCHANGED taskVars
    \/ TapDisabledByUserInput /\ UNCHANGED taskVars
    \/ Len(notify) <= Backlog /\ TapUser /\ UNCHANGED taskVars

Spec == Init /\ [][Next]_vars

(* a user who keeps moving the mouse while it is captured *)
UserMoves == Len(notify) <= Backlog /\ \E i \in Input : TapInput(i)

(* Fairness.  The spawned senders, the producer task and a callback that has   *)
(* started all run; select! polls its arms in random order, so an arm that is  *)
(* ready again and again is served.                                            *)
Fairness ==
    /\ WF_vars(NotifyProducer /\ UNCHANGED taskVars)
    /\ WF_vars(Producer /\ UNCHANGED taskVars)
    /\ WF_vars(SwitchEnds /\ UNCHANGED taskVars)
    /\ SF_vars(UserMoves /\ UNCHANGED taskVars)
    /\ SF_vars(ServesEvents /\ UNCHANGED tapVars)
    /\ SF_vars(Len(notify) <= Backlog /\ PendingTimeout /\ UNCHANGED tapVars)
    /\ \A c \in Client :
        /\ SF_vars(Len(notify) <= Backlog /\ ServesFrames(c) /\ UNCHANGED tapVars)
        /\ WF_vars(PeerIsAlive(c) /\ UNCHANGED tapVars)

LiveSpec == Spec /\ Fairness

-----------------------------------------------------------------------------
(* Properties.                                                                *)

(* The backend contract, implemented by the tap thread and the producer task. *)
Contract == INSTANCE CaptureContract
    WITH active <- current_key, pending <- pending_tap_key, out <- events

(* The macOS backend keeps the promises of CaptureContract whatever the task  *)
(* calls and whenever the tap is disabled, as long as Core Graphics calls     *)
(* succeed.                                                                   *)
ImplementsContract == Contract!Spec

(* An Input in the event channel comes right after its Begin or another       *)
(* Input, a Begin or a CancelPending right after the BeginPending of the same *)
(* barrier, as in the Windows backend.                                        *)
EventOrder == Contract!EventOrder

(* pending_key and current_key are mutually exclusive (the doc of pending_key,*)
(* macos.rs:51) and name barriers that exist, and so does the edge that a     *)
(* callback is switching to.                                                  *)
BarrierStates ==
    /\ current_key = None \/ pending_tap_key = None
    /\ crossing # None => current_key = None /\ pending_tap_key = None
    /\ {current_key, pending_tap_key, crossing} \subseteq active_clients \cup {None}

(* hide_cursor and show_cursor are balanced over all paths that end a         *)
(* capture, also when the tap callback and the producer task both end it:     *)
(* the cursor is hidden once while a client is entered and visible otherwise. *)
CursorFollowsCapture == hidden = IF current_key = None THEN 0 ELSE 1

(* nothing is under way between the task and the backend *)
Settled ==
    /\ calls = <<>>
    /\ events = <<>>
    /\ fan_to = {}
    /\ notify = <<>>
    /\ crossing = None

(* The host's mouse and keyboard are never swallowed for nobody: once all     *)
(* messages are handled, the key that is captured belongs to the client that  *)
(* the task is sending input to.                                              *)
CaptureIsOwned ==
    Settled /\ current_key # None =>
        \/ state = "Sending" /\ captures[active_client] = current_key
        \/ ~is_default_capture_at(current_key)

(* Once all messages are handled, a pending barrier with a client is one      *)
(* whose Ack the task waits for, so that the 500 ms timeout will clear it.    *)
PendingIsTracked ==
    Settled /\ pending_tap_key # None =>
        \/ state = "Pending" /\ pending_key = pending_tap_key
        \/ ~is_default_capture_at(pending_tap_key)
        \/ keys_pressed(pressed_keys)

(* Every crossing ends, also one whose tap is disabled while it is pending.   *)
CrossingIsResolved == pending_tap_key # None ~> pending_tap_key = None

(* When the session of the active client dies the user gets the mouse back.   *)
DeadLinkFreesMouse == \A c \in Client :
    current_key # None /\ active_client = c /\ ~link[c] ~> current_key = None \/ link[c]

=============================================================================
