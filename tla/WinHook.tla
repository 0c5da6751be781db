------------------------------ MODULE WinHook ------------------------------
(***************************************************************************)
(* The Windows capture backend, src/input-capture/src/windows/             *)
(* event_thread.rs: one OS thread that owns the low-level mouse and        *)
(* keyboard hooks and runs a Windows message loop.                         *)
(*                                                                         *)
(* The capture task talks to it over two channels that are NOT ordered     *)
(* with respect to each other: barrier updates go through the mutex        *)
(* protected vector request_buffer and are announced by a ClientUpdate     *)
(* thread message, while Release is a thread message alone.  One           *)
(* ClientUpdate message drains everything that is in the buffer, also the  *)
(* updates pushed after a Release that still waits in the message queue.   *)
(***************************************************************************)
EXTENDS CaptureApi

VARIABLES
    CLIENTS,          \* the keys with a barrier
    ACTIVE_CLIENT,    \* the key whose client receives input, or None
    PENDING_CLIENT,   \* the key that was crossed and waits for an Ack, or None
    request_buffer,   \* Arc<Mutex<Vec<ClientUpdate>>>
    posted,           \* messages posted with PostThreadMessageW
    draining          \* requests drained from the buffer, not applied yet

hookVars == <<CLIENTS, ACTIVE_CLIENT, PENDING_CLIENT, request_buffer, posted, draining>>

HookTypeOK ==
    /\ CLIENTS \subseteq Key
    /\ ACTIVE_CLIENT \in Key \cup {None}
    /\ PENDING_CLIENT \in Key \cup {None}
    /\ request_buffer \in Seq(ClientUpdates)
    /\ posted \in Seq({"ClientUpdate", "Release"})
    /\ draining \in Seq(ClientUpdates)

HookInit ==
    /\ CLIENTS = {}
    /\ ACTIVE_CLIENT = None
    /\ PENDING_CLIENT = None
    /\ request_buffer = <<>>
    /\ posted = <<>>
    /\ draining = <<>>

-----------------------------------------------------------------------------
(* The main thread's side of the API.  A push and the post that follows it  *)
(* are one step: a drain between the two behaves like a drain right after   *)
(* the post, which then finds an empty buffer.                              *)

SignalRelease ==
    /\ calls # <<>>
    /\ Head(calls).op = "release"
    /\ calls' = Tail(calls)
    /\ posted' = Append(posted, "Release")
    /\ UNCHANGED <<events, CLIENTS, ACTIVE_CLIENT, PENDING_CLIENT, request_buffer, draining>>

ClientUpdate ==
    /\ calls # <<>>
    /\ Head(calls).op # "release"
    /\ calls' = Tail(calls)
    /\ request_buffer' = Append(request_buffer, Head(calls))
    /\ posted' = Append(posted, "ClientUpdate")
    /\ UNCHANGED <<events, CLIENTS, ACTIVE_CLIENT, PENDING_CLIENT, draining>>

-----------------------------------------------------------------------------
(* The message loop of the hook thread.                                     *)

LoopIdle == draining = <<>>

GetRelease ==
    /\ LoopIdle
    /\ posted # <<>>
    /\ Head(posted) = "Release"
    /\ posted' = Tail(posted)
    /\ ACTIVE_CLIENT' = None
    /\ PENDING_CLIENT' = None
    /\ UNCHANGED <<calls, events, CLIENTS, request_buffer, draining>>

GetClientUpdate ==
    /\ LoopIdle
    /\ posted # <<>>
    /\ Head(posted) = "ClientUpdate"
    /\ posted' = Tail(posted)
    /\ draining' = request_buffer
    /\ request_buffer' = <<>>
    /\ UNCHANGED <<calls, events, CLIENTS, ACTIVE_CLIENT, PENDING_CLIENT>>

(* update_clients: the drained requests are applied one after the other,    *)
(* without the lock                                                         *)
Applying(op) ==
    /\ draining # <<>>
    /\ Head(draining).op = op
    /\ draining' = Tail(draining)
    /\ UNCHANGED <<calls, request_buffer, posted>>

ApplyCreate ==
    /\ Applying("create")
    /\ CLIENTS' = CLIENTS \cup {Head(draining).key}
    /\ UNCHANGED <<events, ACTIVE_CLIENT, PENDING_CLIENT>>

(* mutated: a pending barrier survives its destruction *)
ApplyDestroyKeepsPending ==
    /\ Applying("destroy")
    /\ ACTIVE_CLIENT' = IF ACTIVE_CLIENT = Head(draining).key THEN None ELSE ACTIVE_CLIENT
    /\ CLIENTS' = CLIENTS \ {Head(draining).key}
    /\ UNCHANGED <<events, PENDING_CLIENT>>

ApplyDestroy ==
    /\ Applying("destroy")
    /\ LET k == Head(draining).key IN
        /\ PENDING_CLIENT' = IF PENDING_CLIENT = k THEN None ELSE PENDING_CLIENT
        /\ ACTIVE_CLIENT' = IF ACTIVE_CLIENT = k THEN None ELSE ACTIVE_CLIENT
        /\ CLIENTS' = CLIENTS \ {k}
    /\ UNCHANGED events

(* blocking_send_event(Begin) waits for room in the event channel *)
ApplyStartCapture ==
    /\ Applying("start_capture")
    /\ LET k == Head(draining).key IN
        \/ /\ PENDING_CLIENT # k
           /\ UNCHANGED <<events, ACTIVE_CLIENT, PENDING_CLIENT>>
        \/ /\ PENDING_CLIENT = k
           /\ Room
           /\ PENDING_CLIENT' = None
           /\ ACTIVE_CLIENT' = k
           /\ events' = Append(events, Signal(k, "Begin"))
    /\ UNCHANGED CLIENTS

ApplyCancelPending ==
    /\ Applying("cancel_pending")
    /\ PENDING_CLIENT' = IF PENDING_CLIENT = Head(draining).key THEN None ELSE PENDING_CLIENT
    /\ UNCHANGED <<events, CLIENTS, ACTIVE_CLIENT>>

-----------------------------------------------------------------------------
(* The hook procedures; Windows runs them in the same thread, while it      *)
(* waits for a message.                                                     *)

(* mutated: crosses again while a barrier is pending *)
MoveAcrossAgain(k) ==
    /\ LoopIdle
    /\ ACTIVE_CLIENT = None
    /\ k \in CLIENTS
    /\ Room
    /\ PENDING_CLIENT' = k
    /\ events' = Append(events, Signal(k, "BeginPending"))
    /\ UNCHANGED <<calls, CLIENTS, ACTIVE_CLIENT, request_buffer, posted, draining>>

(* a mouse move across a barrier while nothing is active or pending *)
MoveAcross(k) ==
    /\ LoopIdle
    /\ ACTIVE_CLIENT = None
    /\ PENDING_CLIENT = None
    /\ k \in CLIENTS
    /\ Room
    /\ PENDING_CLIENT' = k
    /\ events' = Append(events, Signal(k, "BeginPending"))
    /\ UNCHANGED <<calls, CLIENTS, ACTIVE_CLIENT, request_buffer, posted, draining>>

(* a mouse move back into the display while a client is pending *)
MoveWithin ==
    /\ LoopIdle
    /\ ACTIVE_CLIENT = None
    /\ PENDING_CLIENT # None
    /\ Room
    /\ PENDING_CLIENT' = None
    /\ events' = Append(events, Signal(PENDING_CLIENT, "CancelPending"))
    /\ UNCHANGED <<calls, CLIENTS, ACTIVE_CLIENT, request_buffer, posted, draining>>

(* input while a client is active is swallowed and forwarded; try_send      *)
(* loses it when the channel is full, which changes no state                *)
HookInput(i) ==
    /\ LoopIdle
    /\ ACTIVE_CLIENT # None
    /\ Room
    /\ events' = Append(events, InputEvent(ACTIVE_CLIENT, i))
    /\ UNCHANGED <<calls, hookVars>>

HookApi == SignalRelease \/ ClientUpdate

HookLoop ==
    \/ GetRelease
    \/ GetClientUpdate
    \/ ApplyCreate
    \/ ApplyDestroy
    \/ ApplyStartCapture
    \/ ApplyCancelPending

HookUser ==
    \/ \E k \in Key : MoveAcross(k)
    \/ MoveWithin
    \/ \E i \in Input : HookInput(i)
=============================================================================
