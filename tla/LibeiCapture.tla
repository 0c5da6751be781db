---------------------------- MODULE LibeiCapture ----------------------------
(***************************************************************************)
(* The libei capture backend (xdg input capture portal).  One task runs    *)
(* do_capture: it keeps the list of barrier keys, and a portal session as  *)
(* long as there are any.  While a session runs, three futures are polled  *)
(* concurrently: the session proper (activations and releases), the reader *)
(* of the EI socket (input events), and a waiter for whatever ends the     *)
(* session: a request, a change of the zones, the cancellation.  Requests  *)
(* and events pass through channels with one place each, whose senders     *)
(* wait in line.                                                           *)
(***************************************************************************)
EXTENDS Integers, Sequences, FiniteSets

CONSTANT
  Key \* barrier keys

NoKey == <<>>
NoEvent == <<>>
Request == {"Create", "Destroy"} \X Key

VARIABLES
  wanted,         \* keys the caller has created and not destroyed
  caller,         \* the request the caller is sending, <<"Terminate">>, or NoEvent
  notify,         \* channel of requests
  ei_clients,     \* active_clients of do_capture: its keys
  occurred,       \* the request that ended the session
  zones_changed,  \* the zones did
  outdated,       \* the monitors published are not those of the zones
  signal,         \* the change of the zones is yet to be received
  phase,          \* of do_capture: idle, session, apply, ok, err
  barriers,       \* keys with a barrier in this session
  session,        \* of the session: connect, select, begin, active, releasing, done, err, failed
  reader,         \* of the EI reader: wait, send, second, done
  read_key,       \* the key its event got, while it has a second half
  updater,        \* of the session update: wait, done
  current_key,    \* key of the latest activation in this session
  cancel_session, cancel_ei, devices_changed,
  released,       \* the release reached a waiting session
  cancelled,      \* the cancellation token
  chan, waiters,  \* channel of events; senders waiting for a place
  begun           \* key of the Begin that entered chan last

callVars == <<wanted, caller, notify>>
loopVars == <<ei_clients, occurred, zones_changed, outdated, signal, phase, updater, cancelled>>
sessVars == <<barriers, session, current_key, cancel_session, devices_changed, released>>
chanVars == <<chan, waiters, begun>>
leiVars == <<callVars, loopVars, sessVars, reader, read_key, cancel_ei, chanVars>>

LeiInit ==
  /\ wanted = {} /\ caller = NoEvent /\ notify = <<>>
  /\ ei_clients = {} /\ occurred = NoEvent /\ zones_changed = FALSE
  /\ outdated = FALSE /\ signal = FALSE /\ phase = "idle" /\ updater = "wait" /\ cancelled = FALSE
  /\ barriers = {} /\ session = "done" /\ current_key = NoKey
  /\ cancel_session = FALSE /\ devices_changed = FALSE /\ released = FALSE
  /\ reader = "done" /\ read_key = NoKey /\ cancel_ei = FALSE
  /\ chan = <<>> /\ waiters = <<>> /\ begun = NoKey

Finished == phase \in {"ok", "err"}

Apply(keys, e) == CASE e = NoEvent -> keys
                    [] e # NoEvent -> IF e[1] = "Create" THEN keys \cup {e[2]} ELSE keys \ {e[2]}

-----------------------------------------------------------------------------
(* The channel of events: a sender that finds no place waits in line, and a *)
(* place that becomes free goes to the first in line.                       *)


Enqueue(e) == waiters' = Append(waiters, e)

Place(e) == chan' = Append(chan, e) /\ begun' = IF e[2] = "Begin" THEN e[1] ELSE begun

\* Send e: TRUE in `placed` when there was a place at once.
Send(e, placed) ==
  IF chan = <<>> THEN placed /\ Place(e) /\ UNCHANGED waiters
  ELSE ~placed /\ Enqueue(e) /\ UNCHANGED <<chan, begun>>

-----------------------------------------------------------------------------
(* The caller, which is also the consumer: it takes no event while it waits. *)

Call(e) ==
  /\ caller = NoEvent /\ ~cancelled
  /\ IF e[1] = "Create" THEN e[2] \notin wanted ELSE e[2] \in wanted
  /\ caller' = e /\ wanted' = Apply(wanted, e)
  /\ UNCHANGED <<notify, loopVars, sessVars, reader, read_key, cancel_ei, chanVars>>

NotifySent ==
  /\ caller \in Request /\ notify = <<>>
  /\ notify' = <<caller>> /\ caller' = NoEvent
  /\ UNCHANGED <<wanted, loopVars, sessVars, reader, read_key, cancel_ei, chanVars>>

\* notify_waiters reaches a session that is waiting, and is lost otherwise.
Release ==
  /\ caller = NoEvent
  /\ session = "active" /\ released' = TRUE
  /\ UNCHANGED <<callVars, loopVars, barriers, session, current_key, cancel_session,
                 devices_changed, reader, read_key, cancel_ei, chanVars>>

Terminate ==
  /\ caller = NoEvent /\ ~cancelled
  /\ cancelled' = TRUE /\ caller' = <<"Terminate">>
  /\ UNCHANGED <<wanted, notify, ei_clients, occurred, zones_changed, outdated, signal, phase,
                 updater, sessVars, reader, read_key, cancel_ei, chanVars>>

TerminateReturns ==
  /\ caller = <<"Terminate">> /\ Finished
  /\ caller' = NoEvent
  /\ UNCHANGED <<wanted, notify, loopVars, sessVars, reader, read_key, cancel_ei, chanVars>>

\* poll_next; the place goes to the first sender in line, who goes on.
TakeEvent ==
  /\ caller = NoEvent /\ chan # <<>> /\ ~Finished
  /\ IF waiters = <<>> THEN chan' = <<>> /\ UNCHANGED <<waiters, begun, session, reader>>
     ELSE LET e == Head(waiters)
          IN /\ chan' = <<e>> /\ waiters' = Tail(waiters)
             /\ begun' = IF e[2] = "Begin" THEN e[1] ELSE begun
             /\ session' = IF e[2] = "Begin" THEN "active" ELSE session
             /\ reader' = CASE e[2] = "Begin" -> reader
                            [] e[2] = "Input" -> "second"
                            [] OTHER -> "wait"
  /\ read_key' = IF reader' = "wait" THEN NoKey ELSE read_key
  /\ UNCHANGED <<callVars, loopVars, barriers, current_key, cancel_session, devices_changed,
                 released, cancel_ei>>

-----------------------------------------------------------------------------
(* do_capture. *)

Updated(e, changed) ==
  /\ updater = "wait" /\ phase \in {"idle", "session"}
  /\ updater' = "done" /\ cancel_session' = TRUE
  /\ occurred' = e /\ zones_changed' = changed
  /\ UNCHANGED <<wanted, caller, ei_clients, outdated, phase, cancelled, barriers,
                 session, current_key, devices_changed, released, reader, read_key, cancel_ei, chanVars>>

\* handle_session_update_request: one of what may end the session.
UpdateByRequest == notify # <<>> /\ notify' = <<>> /\ Updated(Head(notify), FALSE) /\ UNCHANGED signal
UpdateByZones == signal /\ signal' = FALSE /\ Updated(NoEvent, TRUE) /\ UNCHANGED notify
UpdateByCancel == cancelled /\ Updated(NoEvent, FALSE) /\ UNCHANGED <<notify, signal>>
\* The session is over (cancel_update): not if it failed while being set up.
UpdateBySession ==
  /\ phase = "session" /\ session \in {"done", "err"} /\ reader = "done"
  /\ Updated(NoEvent, FALSE) /\ UNCHANGED <<notify, signal>>

\* Both futures joined.  The monitors are fetched only after a session, and
\* the fetch may fail; the session is closed and its error is the task's.
SessionJoined ==
  /\ phase = "session" /\ updater = "done" /\ session \in {"done", "err", "failed"} /\ reader = "done"
  /\ outdated' \in IF zones_changed THEN {outdated, FALSE} ELSE {outdated}
  /\ phase' = IF session = "done" THEN "apply" ELSE "err"
  /\ UNCHANGED <<callVars, ei_clients, occurred, zones_changed, signal, updater, cancelled,
                 sessVars, reader, read_key, cancel_ei, chanVars>>

IdleJoined ==
  /\ phase = "idle" /\ updater = "done" /\ phase' = "apply"
  /\ UNCHANGED <<callVars, ei_clients, occurred, zones_changed, outdated, signal, updater, cancelled,
                 sessVars, reader, read_key, cancel_ei, chanVars>>

\* The request is applied, and the next round begins with new tokens.
NextRound ==
  /\ phase = "apply"
  /\ ei_clients' = Apply(ei_clients, occurred)
  /\ occurred' = NoEvent /\ zones_changed' = FALSE
  /\ IF cancelled THEN phase' = "ok" /\ UNCHANGED <<updater, sessVars, reader, cancel_ei>>
     ELSE /\ updater' = "wait" /\ cancel_session' = FALSE /\ cancel_ei' = FALSE
          /\ current_key' = NoKey /\ devices_changed' = FALSE /\ released' = FALSE
          /\ barriers' = ei_clients'
          /\ IF ei_clients' = {} THEN phase' = "idle" /\ UNCHANGED <<session, reader>>
             ELSE /\ phase' = "session" /\ session' = "connect" /\ reader' = "done"
  /\ UNCHANGED <<callVars, outdated, signal, cancelled, read_key, chanVars>>

-----------------------------------------------------------------------------
(* do_capture_session. *)

SessionStep(s) ==
  /\ session' = s
  /\ UNCHANGED <<callVars, loopVars, barriers>>

\* connect_to_eis, update_barriers, enable: an error returns at once, without
\* cancelling the update.
Connect ==
  /\ phase = "session" /\ session = "connect"
  /\ \/ SessionStep("select") /\ reader' = "wait"
     \/ SessionStep("failed") /\ UNCHANGED reader
  /\ UNCHANGED <<current_key, cancel_session, devices_changed, released, read_key, cancel_ei, chanVars>>

\* The key is that of the barrier reported, or of the nearest one.
Activated(k) ==
  /\ session = "select" /\ k \in barriers
  /\ current_key' = k
  /\ \E placed \in BOOLEAN :
       Send(<<k, "Begin">>, placed) /\ SessionStep(IF placed THEN "active" ELSE "begin")
  /\ UNCHANGED <<cancel_session, devices_changed, released, reader, read_key, cancel_ei>>

\* The select of an active capture: release, devices changed, or cancelled.
ActiveReleased ==
  /\ session = "active" /\ (released \/ devices_changed)
  /\ SessionStep("releasing")
  /\ UNCHANGED <<current_key, cancel_session, devices_changed, released, reader, read_key, cancel_ei, chanVars>>

\* release_capture; an error ends the session future, but not the reader.
ReleaseCapture ==
  /\ session = "releasing"
  /\ \/ ~devices_changed /\ SessionStep("select") /\ UNCHANGED cancel_ei
     \/ devices_changed /\ SessionStep("done") /\ cancel_ei' = TRUE
     \/ SessionStep("err") /\ UNCHANGED cancel_ei
  /\ released' = FALSE
  /\ UNCHANGED <<current_key, cancel_session, devices_changed, reader, read_key, chanVars>>

SessionCancelled ==
  /\ IF session = "active" THEN cancel_session
     ELSE session = "select" /\ (cancel_session \/ devices_changed)
  /\ SessionStep("done") /\ cancel_ei' = TRUE
  /\ UNCHANGED <<current_key, cancel_session, devices_changed, released, reader, read_key, chanVars>>

-----------------------------------------------------------------------------
(* libei_event_handler. *)

ReaderStep(s) ==
  /\ reader' = s
  /\ UNCHANGED <<callVars, loopVars, barriers, session, current_key, released, cancel_ei>>

\* An input event, which may become two: a scroll in both directions.
EiInput ==
  /\ reader = "wait" /\ current_key # NoKey
  /\ \E placed \in BOOLEAN :
       Send(<<current_key, "Input">>, placed) /\ ReaderStep(IF placed THEN "second" ELSE "send")
  /\ read_key' = current_key
  /\ UNCHANGED <<cancel_session, devices_changed>>

\* The second event has the key that was read for the first.
EiSecond ==
  /\ reader = "second"
  /\ \/ ReaderStep("wait") /\ UNCHANGED chanVars
     \/ \E placed \in BOOLEAN :
          Send(<<read_key, "Second">>, placed) /\ ReaderStep(IF placed THEN "wait" ELSE "send")
  /\ read_key' = NoKey
  /\ UNCHANGED <<cancel_session, devices_changed>>

\* A seat or device is removed: notify_waiters.
EiDeviceRemoved ==
  /\ reader = "wait" /\ session \in {"select", "active"}
  /\ devices_changed' = TRUE
  /\ ReaderStep("wait") /\ UNCHANGED <<read_key, cancel_session, chanVars>>

\* The EI connection ends: the session is cancelled.
EiDisconnected ==
  /\ reader = "wait"
  /\ cancel_session' = TRUE
  /\ ReaderStep("done") /\ UNCHANGED <<read_key, devices_changed, chanVars>>

\* A reader that waits in line leaves it.
EiCancelled ==
  /\ cancel_ei /\ reader # "done"
  /\ ReaderStep("done")
  /\ waiters' = SelectSeq(waiters, LAMBDA e : e[2] = "Begin")
  /\ read_key' = NoKey
  /\ UNCHANGED <<cancel_session, devices_changed, chan, begun>>

ZonesChange ==
  /\ ~outdated /\ outdated' = TRUE /\ signal' = TRUE
  /\ UNCHANGED <<callVars, ei_clients, occurred, zones_changed, phase, updater, cancelled,
                 sessVars, reader, read_key, cancel_ei, chanVars>>

LeiNext ==
  \/ \E e \in Request : Call(e)
  \/ NotifySent \/ Release \/ Terminate \/ TerminateReturns \/ TakeEvent
  \/ UpdateByRequest \/ UpdateByZones \/ UpdateByCancel \/ UpdateBySession
  \/ SessionJoined \/ IdleJoined \/ NextRound
  \/ Connect \/ ActiveReleased \/ ReleaseCapture \/ SessionCancelled
  \/ \E k \in Key : Activated(k)
  \/ EiInput \/ EiSecond \/ EiDeviceRemoved \/ EiDisconnected \/ EiCancelled \/ ZonesChange

-----------------------------------------------------------------------------
\* No request of the caller is lost while sessions come and go: the keys of
\* do_capture, with the request that ended the session and the one in the
\* channel applied, are the keys the caller wants.
NoRequestLost ==
  ~Finished =>
    wanted = Apply(Apply(Apply(ei_clients, occurred),
                         IF notify = <<>> THEN NoEvent ELSE Head(notify)),
                   IF caller \in Request THEN caller ELSE NoEvent)

\* An input event enters the channel only after the Begin of its key, although
\* the key is set before the Begin is sent and both senders may wait in line.
\* (The second half of an event that became two is excepted: its key is read
\* before the first half has waited.)
InputFollowsBegin ==
  \A i \in DOMAIN chan : chan[i][2] = "Input" => chan[i][1] = begun

\* A session that ends in order leaves the published monitors up to date, also
\* when the zones changed while there was no session; unless the fetch failed,
\* or a change is yet to be received.
SessionRefreshesMonitors ==
  [][phase = "session" /\ phase' = "apply" /\ ~zones_changed /\ ~signal => ~outdated']_leiVars
=============================================================================
