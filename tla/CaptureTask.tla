---------------------------- MODULE CaptureTask ----------------------------
(***************************************************************************)
(* The capture task of the controlling host: CaptureTask in                *)
(* src/src/capture.rs together with InputCapture (src/input-capture/src/   *)
(* lib.rs), the per-handle view of the backend it owns.                    *)
(*                                                                         *)
(* The task is a single select! loop, so one handler runs at a time and to *)
(* its end; what interleaves with it is the backend's OS thread, the peers *)
(* and the service.  Backend calls are queued in calls and the next        *)
(* handler starts when the backend's API has taken them.                   *)
(*                                                                         *)
(* Time is abstracted: the 500 ms Ack timeout and the 8 s no-progress      *)
(* timeout may expire at any moment the state allows, and entries leave    *)
(* the 5 s crossing window at any moment.                                  *)
(***************************************************************************)
EXTENDS CaptureApi

CONSTANTS
    Client,          \* handles of outgoing clients: CaptureType::Default
    Trigger,         \* handles of incoming peers: CaptureType::EnterOnly
    Scancode,        \* the keys of the keyboard
    ReleaseBind,     \* the release_bind chord; a user may lack one of its keys
    SendFailuresThreshold,
    CrossingStormThreshold,
    NetCap           \* bound on the control frames in flight to or from a peer

Handle == Client \cup Trigger

(* a key press or release, or pointer motion *)
Inputs == [scancode : Scancode, pressed : BOOLEAN] \cup {[scancode |-> None, pressed |-> FALSE]}

ASSUME TaskAssumption ==
    /\ Client \cap Trigger = {}
    /\ None \notin Handle
    /\ None \notin Scancode
    /\ Input = Inputs
    /\ SendFailuresThreshold \in Nat \ {0}
    /\ CrossingStormThreshold \in Nat \ {0}
    /\ NetCap \in Nat \ {0}

VARIABLES
    state,            \* State: Idle, Pending or Sending
    pending_handle,   \* the fields of State::Pending, None in the other states
    pending_key,
    active_client,    \* Option<ClientHandle>
    captures,         \* the registered captures; InputCapture's id_map and
                      \* position_map hold the same pairs
    fan_event,        \* InputCapture.pending: an event that several handles of a
    fan_to,           \* key subscribe to, and the handles it was not handed to yet
    pressed_keys,
    failures,         \* consecutive_send_failures, up to the threshold
    crossings,        \* recent_crossings.len(), up to the threshold
    panicked,         \* the task has panicked
    link,             \* a QUIC session with the client exists
    outbox,           \* control frames on their way to the client (stream A)
    inbox,            \* control frames of the client on their way to conn.recv()
    lost              \* handles reported by the pong watchdog (peer_lost_rx)

taskVars == <<state, pending_handle, pending_key, active_client, captures, fan_event, fan_to,
              pressed_keys, failures, crossings, panicked, link, outbox, inbox, lost>>

watchdogVars == <<failures, crossings>>
fanVars == <<fan_event, fan_to>>
netVars == <<link, inbox, lost>>

TaskTypeOK ==
    /\ state \in {"Idle", "Pending", "Sending"}
    /\ pending_handle \in IF state = "Pending" THEN Client ELSE {None}
    /\ pending_key \in IF state = "Pending" THEN Key ELSE {None}
    /\ active_client \in Client \cup {None}
    /\ captures \in [Handle -> Key \cup {None}]
    /\ fan_event \in IF fan_to = {} THEN {None} ELSE CaptureEvents
    /\ fan_to \subseteq Handle
    /\ pressed_keys \subseteq Scancode
    /\ failures \in 0 .. SendFailuresThreshold
    /\ crossings \in 0 .. CrossingStormThreshold
    /\ panicked \in BOOLEAN
    /\ link \in [Client -> BOOLEAN]
    /\ outbox \in [Client -> Seq({"Enter", "Leave"})]
    /\ inbox \in [Client -> Seq({"Ack", "Leave", "Pong"})]
    /\ lost \subseteq Client

TaskInit ==
    /\ state = "Idle"
    /\ pending_handle = None
    /\ pending_key = None
    /\ active_client = None
    /\ captures = [h \in Handle |-> None]
    /\ fan_event = None
    /\ fan_to = {}
    /\ pressed_keys = {}
    /\ failures = 0
    /\ crossings = 0
    /\ panicked = FALSE
    /\ link = [c \in Client |-> FALSE]
    /\ outbox = [c \in Client |-> <<>>]
    /\ inbox = [c \in Client |-> <<>>]
    /\ lost = {}

-----------------------------------------------------------------------------
(* What the handlers are made of.                                           *)

(* the select! loop is waiting: the last handler and its calls are done *)
Ready == calls = <<>> /\ ~panicked

NoCall == calls' = <<>>

AtMost(n, bound) == IF n < bound THEN n ELSE bound

(* LanMouseConnection::send of a control frame: an error without a session *)
Sendable(c) == link[c] /\ Len(outbox[c]) < NetCap
SendFails(c) == ~link[c]
Send(c, frame) == outbox' = [outbox EXCEPT ![c] = Append(@, frame)]

GoIdle == state' = "Idle" /\ pending_handle' = None /\ pending_key' = None

GoSending == state' = "Sending" /\ pending_handle' = None /\ pending_key' = None

ResetWatchdog == failures' = 0 /\ crossings' = 0

CountFailure == failures' = AtMost(failures + 1, SendFailuresThreshold)

is_default_capture_at(k) == \E c \in Client : captures[c] = k

keys_pressed(keys) == ReleaseBind \subseteq keys

(* release_capture; keys are the pressed keys when it is called.  The       *)
(* key-ups and the modifier reset go to the input stream, which this module *)
(* leaves out; an error of the Leave is only logged.                        *)
should_skip_release == state = "Idle" /\ active_client = None

ReleaseSkipped(keys) ==
    /\ should_skip_release
    /\ pressed_keys' = keys
    /\ NoCall
    /\ UNCHANGED <<state, pending_handle, pending_key, active_client, outbox>>

ReleasePending ==
    /\ state = "Pending"
    /\ calls' = <<Call("cancel_pending", pending_key), Release>>
    /\ GoIdle
    /\ pressed_keys' = {}
    /\ UNCHANGED <<active_client, outbox>>

(* mutated: the backend is not told *)
ReleaseActiveForgetsBackend ==
    /\ state # "Pending"
    /\ ~should_skip_release
    /\ active_client' = None
    /\ GoIdle
    /\ NoCall
    /\ pressed_keys' = {}
    /\ UNCHANGED outbox

ReleaseActive ==
    /\ state # "Pending"
    /\ ~should_skip_release
    /\ active_client' = None
    /\ IF active_client # None /\ link[active_client]
         THEN /\ Sendable(active_client)
              /\ Send(active_client, "Leave")
         ELSE UNCHANGED outbox
    /\ GoIdle
    /\ calls' = <<Release>>
    /\ pressed_keys' = {}

release_capture(keys) ==
    /\ ReleaseSkipped(keys) \/ ReleasePending \/ ReleaseActive
    /\ ResetWatchdog

-----------------------------------------------------------------------------
(* handle_capture_event, for handle h, event e and the keys that are pressed  *)
(* once e is counted.                                                         *)

(* get_type: .expect("no such capture") *)
NoSuchCapture(h, keys) ==
    /\ captures[h] = None
    /\ panicked' = TRUE
    /\ pressed_keys' = keys
    /\ NoCall
    /\ UNCHANGED <<state, pending_handle, pending_key, active_client, outbox, watchdogVars>>

(* an EnterOnly capture only triggers a CaptureBegin for the service, and      *)
(* gives the cursor back when no client is configured at its edge              *)
EnterOnlyEvent(h, keys) ==
    /\ captures[h] # None
    /\ h \in Trigger
    /\ IF is_default_capture_at(captures[h])
         THEN pressed_keys' = keys /\ NoCall
         ELSE pressed_keys' = {} /\ calls' = <<Release>>
    /\ UNCHANGED <<state, pending_handle, pending_key, active_client, outbox, watchdogVars, panicked>>

BeginPending(c, keys) ==
    /\ pressed_keys' = keys
    /\ crossings' = AtMost(crossings + 1, CrossingStormThreshold)
    /\ \/ /\ Sendable(c)
          /\ state' = "Pending"
          /\ pending_handle' = c
          /\ pending_key' = captures[c]
          /\ Send(c, "Enter")
          /\ failures' = 0
          /\ NoCall
       \/ /\ SendFails(c)
          /\ GoIdle
          /\ calls' = <<Call("cancel_pending", captures[c])>>
          /\ CountFailure
          /\ UNCHANGED outbox
    /\ UNCHANGED active_client

CancelPending(c, keys) ==
    /\ pressed_keys' = keys
    /\ calls' = <<Call("cancel_pending", captures[c])>>
    /\ IF state = "Pending" /\ pending_handle = c
         THEN GoIdle
         ELSE UNCHANGED <<state, pending_handle, pending_key>>
    /\ UNCHANGED <<active_client, outbox, watchdogVars>>

(* Begin after BeginPending and an Ack: Enter was sent already *)
Promote(c, keys) ==
    /\ state = "Pending" /\ pending_handle = c
    /\ active_client' = c
    /\ GoSending
    /\ failures' = 0
    /\ pressed_keys' = keys
    /\ NoCall
    /\ UNCHANGED <<outbox, crossings>>

(* any other Begin enters the client now *)
BeginEnter(c, keys) ==
    /\ ~(state = "Pending" /\ pending_handle = c)
    /\ active_client' = c
    /\ GoSending
    /\ \/ /\ Sendable(c)
          /\ Send(c, "Enter")
          /\ failures' = 0
          /\ pressed_keys' = keys
          /\ NoCall
       \/ /\ SendFails(c)
          /\ CountFailure
          /\ pressed_keys' = {}
          /\ calls' = <<Release>>
          /\ UNCHANGED outbox
    /\ UNCHANGED crossings

(* mutated: a failed send does not release the capture *)
ForwardInputKeepsCapture(c, keys) ==
    /\ IF state = "Sending" /\ SendFails(c)
         THEN CountFailure
         ELSE failures' = IF state = "Sending" THEN 0 ELSE failures
    /\ pressed_keys' = keys
    /\ NoCall
    /\ UNCHANGED <<state, pending_handle, pending_key, active_client, outbox, crossings>>

(* input goes to the handle the event was observed for; outside Sending it    *)
(* is dropped                                                                 *)
ForwardInput(c, keys) ==
    /\ IF state = "Sending" /\ SendFails(c)
         THEN CountFailure /\ pressed_keys' = {} /\ calls' = <<Release>>
         ELSE /\ failures' = IF state = "Sending" THEN 0 ELSE failures
              /\ pressed_keys' = keys
              /\ NoCall
    /\ UNCHANGED <<state, pending_handle, pending_key, active_client, outbox, crossings>>

ClientEvent(c, e, keys) ==
    /\ captures[c] # None
    /\ c \in Client
    /\ \/ e.ev = "BeginPending" /\ BeginPending(c, keys)
       \/ e.ev = "CancelPending" /\ CancelPending(c, keys)
       \/ e.ev = "Begin" /\ (Promote(c, keys) \/ BeginEnter(c, keys))
       \/ e.ev = "Input" /\ ForwardInput(c, keys)
    /\ UNCHANGED panicked

handle_capture_event(h, e, keys) ==
    IF keys_pressed(keys)
      THEN release_capture(keys) /\ UNCHANGED panicked
      ELSE NoSuchCapture(h, keys) \/ EnterOnlyEvent(h, keys) \/ ClientEvent(h, e, keys)

-----------------------------------------------------------------------------
(* The arms of the select! loop.                                              *)

(* update_pressed_keys *)
KeysAfter(e) ==
    IF e.ev # "Input" \/ e.input.scancode = None THEN pressed_keys
    ELSE IF e.input.pressed THEN pressed_keys \cup {e.input.scancode}
    ELSE pressed_keys \ {e.input.scancode}

Subscribers(k) == {h \in Handle : captures[h] = k}

FanOut(e, hs) ==
    /\ fan_to' = hs
    /\ fan_event' = IF hs = {} THEN None ELSE e

(* capture.next(): an event is handed to the handles of its key one by one,    *)
(* in the order of their registration, which is left open here                 *)
NextFanned(h) ==
    /\ Ready
    /\ h \in fan_to
    /\ FanOut(fan_event, fan_to \ {h})
    /\ handle_capture_event(h, fan_event, pressed_keys)
    /\ UNCHANGED <<events, captures, netVars>>

NextEvent(h) ==
    /\ Ready
    /\ fan_to = {}
    /\ events # <<>>
    /\ LET e == Head(events) IN
        /\ h \in Subscribers(e.key)
        /\ FanOut(e, Subscribers(e.key) \ {h})
        /\ handle_capture_event(h, e, KeysAfter(e))
    /\ events' = Tail(events)
    /\ UNCHANGED <<captures, netVars>>

NextEventUnsubscribed ==
    /\ Ready
    /\ fan_to = {}
    /\ events # <<>>
    /\ Subscribers(Head(events).key) = {}
    /\ pressed_keys' = KeysAfter(Head(events))
    /\ events' = Tail(events)
    /\ UNCHANGED <<calls, state, pending_handle, pending_key, active_client, captures, fanVars,
                   watchdogVars, panicked, outbox, netVars>>

(* conn.recv() *)
TakeFrame(c, frame) ==
    /\ Ready
    /\ inbox[c] # <<>>
    /\ Head(inbox[c]) = frame
    /\ inbox' = [inbox EXCEPT ![c] = Tail(@)]
    /\ UNCHANGED <<events, captures, fanVars, panicked, link, lost>>

FromOtherClient(c) == active_client # None /\ c # active_client

RecvIgnored(c) ==
    /\ FromOtherClient(c)
    /\ \E frame \in {"Ack", "Leave", "Pong"} : TakeFrame(c, frame)
    /\ UNCHANGED <<calls, state, pending_handle, pending_key, active_client, pressed_keys,
                   watchdogVars, outbox>>

RecvAck(c) ==
    /\ ~FromOtherClient(c)
    /\ TakeFrame(c, "Ack")
    /\ failures' = 0
    /\ \/ /\ state = "Pending" /\ pending_handle = c
          /\ calls' = <<Call("start_capture", pending_key)>>
          /\ UNCHANGED <<state, pending_handle, pending_key>>
       \/ /\ state = "Pending" /\ pending_handle # c
          /\ UNCHANGED <<calls, state, pending_handle, pending_key>>
       \/ /\ state # "Pending"
          /\ IF active_client # None THEN GoSending ELSE UNCHANGED <<state, pending_handle, pending_key>>
          /\ UNCHANGED calls
    /\ UNCHANGED <<active_client, pressed_keys, crossings, outbox>>

RecvLeave(c) ==
    /\ ~FromOtherClient(c)
    /\ TakeFrame(c, "Leave")
    /\ release_capture(pressed_keys)

RecvPong(c) ==
    /\ ~FromOtherClient(c)
    /\ TakeFrame(c, "Pong")
    /\ failures' = 0
    /\ UNCHANGED <<calls, state, pending_handle, pending_key, active_client, pressed_keys,
                   crossings, outbox>>

(* request_rx: Release, Create and Destroy; the other requests leave the       *)
(* capture state alone                                                         *)
Releases ==
    /\ Ready
    /\ release_capture(pressed_keys)
    /\ UNCHANGED <<events, captures, fanVars, panicked, link, inbox>>

RequestRelease == Releases /\ UNCHANGED lost

OthersAt(h, k) == Subscribers(k) \ {h} # {}

(* Service::activate_client deactivates the client that holds the position, so *)
(* a key has at most one Default capture                                       *)
RequestCreate(h, k) ==
    /\ Ready
    /\ captures[h] = None
    /\ h \in Client => ~is_default_capture_at(k)
    /\ captures' = [captures EXCEPT ![h] = k]
    /\ calls' = IF OthersAt(h, k) THEN <<>> ELSE <<Call("create", k)>>
    /\ UNCHANGED <<events, state, pending_handle, pending_key, active_client, fanVars, pressed_keys,
                   watchdogVars, panicked, outbox, netVars>>

RequestDestroy(h) ==
    /\ Ready
    /\ captures[h] # None
    /\ captures' = [captures EXCEPT ![h] = None]
    /\ calls' = IF OthersAt(h, captures[h]) THEN <<>> ELSE <<Call("destroy", captures[h])>>
    /\ UNCHANGED <<events, state, pending_handle, pending_key, active_client, fanVars, pressed_keys,
                   watchdogVars, panicked, outbox, netVars>>

(* mutated: the backend is not told *)
PendingTimeoutForgetsBackend ==
    /\ Ready
    /\ state = "Pending"
    /\ GoIdle
    /\ UNCHANGED <<calls, events, active_client, captures, fanVars, pressed_keys, watchdogVars,
                   panicked, outbox, netVars>>

(* pending_tick, 500 ms after Enter was sent *)
PendingTimeout ==
    /\ Ready
    /\ state = "Pending"
    /\ calls' = <<Call("cancel_pending", pending_key)>>
    /\ GoIdle
    /\ UNCHANGED <<events, active_client, captures, fanVars, pressed_keys, watchdogVars, panicked,
                   outbox, netVars>>

(* run_watchdog_light; SendingHasClient says that it never finds a ghost *)
GhostActive == state = "Sending" /\ active_client = None

WatchdogLight ==
    /\ Ready
    /\ IF GhostActive
         THEN GoIdle /\ calls' = <<Release>> /\ pressed_keys' = {} /\ failures' = 0
         ELSE UNCHANGED <<state, pending_handle, pending_key, calls, pressed_keys, failures>>
    /\ UNCHANGED <<events, active_client, captures, fanVars, crossings, panicked, outbox, netVars>>

(* run_watchdog_heavy: crossings leave the window, then three checks in turn *)
WindowExpires ==
    /\ Ready
    /\ crossings > 0
    /\ crossings' = crossings - 1
    /\ UNCHANGED <<calls, events, state, pending_handle, pending_key, active_client, captures, fanVars,
                   pressed_keys, failures, panicked, outbox, netVars>>

CrossingStorm ==
    /\ crossings >= CrossingStormThreshold
    /\ state = "Idle"
    /\ active_client = None
    /\ Releases
    /\ UNCHANGED lost

SendFailures ==
    /\ state = "Sending"
    /\ failures >= SendFailuresThreshold
    /\ Releases
    /\ UNCHANGED lost

NoProgress ==
    /\ state # "Idle"
    /\ Releases
    /\ UNCHANGED lost

WatchdogHeavy == WindowExpires \/ CrossingStorm \/ SendFailures \/ NoProgress

(* peer_lost_rx *)
PeerLost(c) ==
    /\ c \in lost
    /\ lost' = lost \ {c}
    /\ IF active_client = c
         THEN Releases
         ELSE Ready /\ UNCHANGED <<calls, events, state, pending_handle, pending_key, active_client,
                                   captures, fanVars, pressed_keys, watchdogVars, panicked, outbox,
                                   link, inbox>>

-----------------------------------------------------------------------------
(* The clients and their connections, as far as the task can tell.            *)

LeavesTask == UNCHANGED <<calls, events, state, pending_handle, pending_key, active_client, captures,
                          fanVars, pressed_keys, watchdogVars, panicked>>

LinkUp(c) ==
    /\ ~link[c]
    /\ link' = [link EXCEPT ![c] = TRUE]
    /\ LeavesTask
    /\ UNCHANGED <<outbox, inbox, lost>>

(* the session ends; PeerSession::run reports a synthetic Leave(0) unless      *)
(* another of its streams fails first, and the pong watchdog may report it     *)
LinkDown(c) ==
    /\ link[c]
    /\ link' = [link EXCEPT ![c] = FALSE]
    /\ outbox' = [outbox EXCEPT ![c] = <<>>]
    /\ \/ UNCHANGED <<inbox, lost>>
       \/ /\ Len(inbox[c]) < NetCap
          /\ inbox' = [inbox EXCEPT ![c] = Append(@, "Leave")]
          /\ UNCHANGED lost
       \/ /\ lost' = lost \cup {c}
          /\ UNCHANGED inbox
    /\ LeavesTask

(* the peer acknowledges Enter and Leave alike *)
PeerAcks(c) ==
    /\ outbox[c] # <<>>
    /\ Len(inbox[c]) < NetCap
    /\ outbox' = [outbox EXCEPT ![c] = Tail(@)]
    /\ inbox' = [inbox EXCEPT ![c] = Append(@, "Ack")]
    /\ LeavesTask
    /\ UNCHANGED <<link, lost>>

(* the peer's cursor crosses back, or it answers a ping *)
PeerSends(c, frame) ==
    /\ link[c]
    /\ Len(inbox[c]) < NetCap
    /\ inbox' = [inbox EXCEPT ![c] = Append(@, frame)]
    /\ LeavesTask
    /\ UNCHANGED <<link, outbox, lost>>

(* the arms of select!, those that serve the backend's events and the others *)
ServesEvents ==
    \/ \E h \in Handle : NextFanned(h) \/ NextEvent(h)
    \/ NextEventUnsubscribed

ServesFrames(c) == RecvIgnored(c) \/ RecvAck(c) \/ RecvLeave(c) \/ RecvPong(c)

ServesOthers ==
    \/ \E c \in Client : ServesFrames(c) \/ PeerLost(c)
    \/ RequestRelease
    \/ \E h \in Handle : RequestDestroy(h) \/ \E k \in Key : RequestCreate(h, k)
    \/ PendingTimeout
    \/ WatchdogLight
    \/ WatchdogHeavy

Network ==
    \E c \in Client :
        \/ LinkUp(c)
        \/ LinkDown(c)
        \/ PeerAcks(c)
        \/ \E frame \in {"Leave", "Pong"} : PeerSends(c, frame)

(* a peer reads stream A, or its session ends *)
PeerIsAlive(c) == PeerAcks(c) \/ LinkDown(c)

-----------------------------------------------------------------------------
(* State::Sending always has an active client, so that run_watchdog_light     *)
(* never finds the ghost-active state it looks for (capture.rs:1196).         *)
SendingHasClient == state = "Sending" => active_client # None
=============================================================================
