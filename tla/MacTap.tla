------------------------------- MODULE MacTap -------------------------------
(***************************************************************************)
(* The macOS capture backend, src/input-capture/src/macos.rs: a thread     *)
(* that runs the CGEventTap callback, and the producer task, which applies *)
(* the calls of trait Capture one after the other.  Both work on           *)
(* InputCaptureState under one mutex, which each holds until its events    *)
(* are in the event channel.                                               *)
(*                                                                         *)
(* Every call is sent to notify_tx by a task of its own.  These tasks run  *)
(* in the order in which they were spawned, so that the channel and the    *)
(* tasks waiting to send form one queue.  The tap thread sends into the    *)
(* channel directly and overtakes the tasks that have not sent yet.        *)
(***************************************************************************)
EXTENDS CaptureApi

CONSTANT CoreGraphicsFails   \* whether calls that hide, show or warp the cursor may fail

VARIABLES
    active_clients,    \* the keys with a barrier
    current_key,       \* the key whose client receives input, or None
    pending_tap_key,   \* pending_key: crossed, waiting for an Ack, or None
    crossing,          \* the edge that a tap callback has yet to make pending;
                       \* the callback holds the mutex
    notify,            \* calls on their way to the producer task
    tap_enabled,       \* the OS delivers events to the tap
    hidden             \* hide count of the cursor

tapVars == <<active_clients, current_key, pending_tap_key, crossing, notify, tap_enabled, hidden>>

TapDisabled == [op |-> "EventTapDisabled", key |-> None]

TapTypeOK ==
    /\ active_clients \subseteq Key
    /\ current_key \in Key \cup {None}
    /\ pending_tap_key \in Key \cup {None}
    /\ crossing \in Key \cup {None}
    /\ notify \in Seq(Calls \cup {TapDisabled})
    /\ tap_enabled \in BOOLEAN
    /\ hidden \in Int

TapInit ==
    /\ active_clients = {}
    /\ current_key = None
    /\ pending_tap_key = None
    /\ crossing = None
    /\ notify = <<>>
    /\ tap_enabled = TRUE
    /\ hidden = 0

hide_cursor == hidden' = hidden + 1

show_cursor == hidden' = hidden - 1

-----------------------------------------------------------------------------
(* impl Capture: spawn_local(notify_tx.send(..)).                           *)

NotifyProducer ==
    /\ calls # <<>>
    /\ calls' = Tail(calls)
    /\ notify' = Append(notify, Head(calls))
    /\ UNCHANGED <<events, active_clients, current_key, pending_tap_key, crossing, tap_enabled, hidden>>

-----------------------------------------------------------------------------
(* The producer task, handle_producer_event.  An error is logged and the    *)
(* call is lost; what was changed before it stays.                          *)

Unlocked == crossing = None

Handling(op) ==
    /\ Unlocked
    /\ notify # <<>>
    /\ Head(notify).op = op
    /\ notify' = Tail(notify)
    /\ UNCHANGED <<calls, crossing, tap_enabled>>

HandleCreate ==
    /\ Handling("create")
    /\ active_clients' = active_clients \cup {Head(notify).key}
    /\ UNCHANGED <<events, current_key, pending_tap_key, hidden>>

(* ends the capture if cond holds; show_cursor may fail before it is ended *)
EndCapture(cond) ==
    IF cond THEN show_cursor /\ current_key' = None ELSE UNCHANGED <<hidden, current_key>>

ShowCursorFails(cond) ==
    /\ CoreGraphicsFails
    /\ cond
    /\ UNCHANGED <<events, active_clients, current_key, pending_tap_key, hidden>>

(* mutated: a pending barrier survives its destruction *)
HandleDestroyKeepsPending ==
    /\ Handling("destroy")
    /\ EndCapture(current_key = Head(notify).key)
    /\ active_clients' = active_clients \ {Head(notify).key}
    /\ UNCHANGED <<events, pending_tap_key>>

HandleDestroy ==
    /\ Handling("destroy")
    /\ LET k == Head(notify).key IN
        \/ ShowCursorFails(current_key = k)
        \/ /\ EndCapture(current_key = k)
           /\ pending_tap_key' = IF pending_tap_key = k THEN None ELSE pending_tap_key
           /\ active_clients' = active_clients \ {k}
           /\ UNCHANGED events

(* mutated: the cursor is shown although no capture had hidden it *)
HandleReleaseShowsAlways ==
    /\ Handling("release")
    /\ show_cursor
    /\ current_key' = None
    /\ pending_tap_key' = None
    /\ UNCHANGED <<events, active_clients>>

HandleRelease ==
    /\ Handling("release")
    /\ \/ ShowCursorFails(current_key # None)
       \/ /\ EndCapture(current_key # None)
          /\ pending_tap_key' = None
          /\ UNCHANGED <<events, active_clients>>

(* mutated: starts a capture that is not pending any more *)
HandleStartCaptureUnchecked ==
    /\ Handling("start_capture")
    /\ pending_tap_key' = None
    /\ current_key = None
    /\ Room
    /\ hide_cursor
    /\ current_key' = Head(notify).key
    /\ events' = Append(events, Signal(Head(notify).key, "Begin"))
    /\ UNCHANGED active_clients

HandleStartCapture ==
    /\ Handling("start_capture")
    /\ LET k == Head(notify).key IN
        \/ /\ pending_tap_key # k
           /\ UNCHANGED <<events, current_key, pending_tap_key, hidden>>
        \/ /\ pending_tap_key = k
           /\ pending_tap_key' = None
           /\ current_key # None
           /\ UNCHANGED <<events, current_key, hidden>>
        \/ /\ pending_tap_key = k
           /\ pending_tap_key' = None
           /\ current_key = None
           /\ \/ /\ Room
                 /\ hide_cursor
                 /\ current_key' = k
                 /\ events' = Append(events, Signal(k, "Begin"))
              \/ /\ CoreGraphicsFails      \* hide_cursor fails
                 /\ UNCHANGED <<events, current_key, hidden>>
              \/ /\ CoreGraphicsFails      \* the warp of reset_cursor fails
                 /\ hide_cursor
                 /\ current_key' = k
                 /\ UNCHANGED events
    /\ UNCHANGED active_clients

HandleCancelPending ==
    /\ Handling("cancel_pending")
    /\ LET k == Head(notify).key IN
        \/ /\ pending_tap_key = k
           /\ Room
           /\ pending_tap_key' = None
           /\ events' = Append(events, Signal(k, "CancelPending"))
        \/ /\ pending_tap_key # k
           /\ UNCHANGED <<events, pending_tap_key>>
    /\ UNCHANGED <<active_clients, current_key, hidden>>

(* the error this ends with is logged like the others *)
HandleTapDisabled ==
    /\ Handling("EventTapDisabled")
    /\ \/ ShowCursorFails(current_key # None)
       \/ /\ EndCapture(current_key # None)
          /\ pending_tap_key' = None
          /\ UNCHANGED <<events, active_clients>>

-----------------------------------------------------------------------------
(* The tap callback.                                                        *)

InCallback ==
    /\ Unlocked
    /\ tap_enabled
    /\ UNCHANGED <<calls, active_clients, tap_enabled>>

(* input while a client is entered is swallowed and forwarded *)
TapInput(i) ==
    /\ InCallback
    /\ current_key # None
    /\ Room
    /\ events' = Append(events, InputEvent(current_key, i))
    /\ UNCHANGED <<current_key, pending_tap_key, crossing, notify, hidden>>

(* a move that crosses no barrier while one is pending *)
TapPullBack ==
    /\ InCallback
    /\ current_key = None
    /\ pending_tap_key # None
    /\ Room
    /\ pending_tap_key' = None
    /\ events' = Append(events, Signal(pending_tap_key, "CancelPending"))
    /\ UNCHANGED <<current_key, crossing, notify, hidden>>

(* a move across another barrier than the pending one sends two events *)
TapSwitch(k) ==
    /\ InCallback
    /\ current_key = None
    /\ pending_tap_key # None
    /\ k \in active_clients \ {pending_tap_key}
    /\ Room
    /\ pending_tap_key' = None
    /\ crossing' = k
    /\ events' = Append(events, Signal(pending_tap_key, "CancelPending"))
    /\ UNCHANGED <<current_key, notify, hidden>>

SwitchEnds ==
    /\ crossing # None
    /\ Room
    /\ pending_tap_key' = crossing
    /\ crossing' = None
    /\ events' = Append(events, Signal(crossing, "BeginPending"))
    /\ UNCHANGED <<calls, active_clients, current_key, notify, tap_enabled, hidden>>

TapCross(k) ==
    /\ InCallback
    /\ current_key = None
    /\ pending_tap_key = None
    /\ k \in active_clients
    /\ Room
    /\ pending_tap_key' = k
    /\ events' = Append(events, Signal(k, "BeginPending"))
    /\ UNCHANGED <<current_key, crossing, notify, hidden>>

(* TapDisabledByUserInput: the OS turns the tap off for good.  The notice    *)
(* goes behind what is in the channel and before the tasks waiting to send;  *)
(* that show_cursor failed is ignored.                                       *)
TapDisabledByUserInput ==
    /\ Unlocked
    /\ tap_enabled
    /\ tap_enabled' = FALSE
    /\ \/ EndCapture(current_key # None)
       \/ CoreGraphicsFails /\ current_key' = None /\ UNCHANGED hidden
    /\ \E sent \in 0 .. Len(notify) :
        notify' = SubSeq(notify, 1, sent) \o <<TapDisabled>> \o SubSeq(notify, sent + 1, Len(notify))
    /\ UNCHANGED <<calls, events, active_clients, pending_tap_key, crossing>>

-----------------------------------------------------------------------------
Producer ==
    \/ HandleCreate
    \/ HandleDestroy
    \/ HandleRelease
    \/ HandleStartCapture
    \/ HandleCancelPending
    \/ HandleTapDisabled

TapUser ==
    \/ \E k \in Key : TapCross(k) \/ TapSwitch(k)
    \/ TapPullBack
    \/ \E i \in Input : TapInput(i)

=============================================================================
