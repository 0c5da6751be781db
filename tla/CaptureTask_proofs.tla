-------------------------- MODULE CaptureTask_proofs --------------------------
(***************************************************************************)
(* What the handlers of the capture task preserve, whichever backend they  *)
(* are composed with.                                                      *)
(***************************************************************************)
EXTENDS CaptureTask, TLAPS

TaskTypes == ApiTypeOK /\ TaskTypeOK

(* what the handlers of the task leave behind has the right type *)
HandlerTypes ==
    /\ calls' \in Seq(Calls)
    /\ state' \in {"Idle", "Pending", "Sending"}
    /\ pending_handle' \in IF state' = "Pending" THEN Client ELSE {None}
    /\ pending_key' \in IF state' = "Pending" THEN Key ELSE {None}
    /\ active_client' \in Client \cup {None}
    /\ pressed_keys' \subseteq Scancode
    /\ failures' \in 0 .. SendFailuresThreshold
    /\ crossings' \in 0 .. CrossingStormThreshold
    /\ outbox' \in [Client -> Seq({"Enter", "Leave"})]

(* the calls that the handlers make *)
LEMMA CallTypes ==
    /\ <<>> \in Seq(Calls)
    /\ <<Release>> \in Seq(Calls)
    /\ \A k \in Key :
        /\ <<Call("create", k)>> \in Seq(Calls)
        /\ <<Call("destroy", k)>> \in Seq(Calls)
        /\ <<Call("start_capture", k)>> \in Seq(Calls)
        /\ <<Call("cancel_pending", k)>> \in Seq(Calls)
        /\ <<Call("cancel_pending", k), Release>> \in Seq(Calls)
<1>1. Release \in Calls
  BY DEF Release, Calls
<1>2. ASSUME NEW k \in Key
      PROVE /\ Call("create", k) \in Calls
            /\ Call("destroy", k) \in Calls
            /\ Call("start_capture", k) \in Calls
            /\ Call("cancel_pending", k) \in Calls
  BY DEF Call, Calls, ClientUpdates
<1>. QED
  BY <1>1, <1>2

(* a frame appended to a client's stream A *)
LEMMA SendTypes ==
    ASSUME TaskTypes, NEW c \in Client, NEW frame \in {"Enter", "Leave"}, Send(c, frame)
    PROVE  outbox' \in [Client -> Seq({"Enter", "Leave"})]
<1>1. Append(outbox[c], frame) \in Seq({"Enter", "Leave"})
  BY DEF TaskTypes, TaskTypeOK
<1>. QED
  BY <1>1 DEF Send, TaskTypes, TaskTypeOK

LEMMA CounterTypes ==
    ASSUME TaskTypes
    PROVE  /\ 0 \in 0 .. SendFailuresThreshold
           /\ 0 \in 0 .. CrossingStormThreshold
           /\ AtMost(failures + 1, SendFailuresThreshold) \in 0 .. SendFailuresThreshold
           /\ AtMost(crossings + 1, CrossingStormThreshold) \in 0 .. CrossingStormThreshold
  BY TaskAssumption DEF TaskTypes, TaskTypeOK, AtMost

LEMMA ReleaseTypes ==
    ASSUME TaskTypes, NEW keys \in SUBSET Scancode, release_capture(keys)
    PROVE  HandlerTypes
<1>1. failures' \in 0 .. SendFailuresThreshold /\ crossings' \in 0 .. CrossingStormThreshold
  BY CounterTypes DEF release_capture, ResetWatchdog
<1>2. CASE ReleaseSkipped(keys)
  BY <1>1, <1>2, CallTypes DEF ReleaseSkipped, NoCall, HandlerTypes, TaskTypes, TaskTypeOK
<1>3. CASE ReleasePending
  BY <1>1, <1>3, CallTypes DEF ReleasePending, GoIdle, HandlerTypes, TaskTypes, TaskTypeOK
<1>4. CASE ReleaseActive
  <2>1. outbox' \in [Client -> Seq({"Enter", "Leave"})]
    BY <1>4, SendTypes DEF ReleaseActive, TaskTypes, TaskTypeOK
  <2>. QED
    BY <1>1, <1>4, <2>1, CallTypes DEF ReleaseActive, GoIdle, HandlerTypes, TaskTypes, TaskTypeOK
<1>. QED
  BY <1>2, <1>3, <1>4 DEF release_capture

LEMMA EventTypes ==
    ASSUME TaskTypes, NEW h \in Handle, NEW e \in CaptureEvents, NEW keys \in SUBSET Scancode,
           handle_capture_event(h, e, keys)
    PROVE  HandlerTypes /\ panicked' \in BOOLEAN
<1>1. CASE keys_pressed(keys)
  BY <1>1, ReleaseTypes DEF handle_capture_event, TaskTypes, TaskTypeOK
<1>2. CASE NoSuchCapture(h, keys)
  BY <1>2, CallTypes
  DEF NoSuchCapture, NoCall, watchdogVars, HandlerTypes, TaskTypes, TaskTypeOK
<1>3. CASE EnterOnlyEvent(h, keys)
  BY <1>3, CallTypes, Zenon
  DEF EnterOnlyEvent, NoCall, watchdogVars, HandlerTypes, TaskTypes, TaskTypeOK
<1>4. CASE ClientEvent(h, e, keys)
  <2>1. h \in Client /\ captures[h] \in Key /\ UNCHANGED panicked
    BY <1>4 DEF ClientEvent, TaskTypes, TaskTypeOK
  <2>2. CASE BeginPending(h, keys)
    <3>1. outbox' \in [Client -> Seq({"Enter", "Leave"})]
      BY <2>1, <2>2, SendTypes DEF BeginPending, TaskTypes, TaskTypeOK
    <3>2. failures' \in 0 .. SendFailuresThreshold /\ crossings' \in 0 .. CrossingStormThreshold
      BY <2>2, CounterTypes DEF BeginPending, CountFailure
    <3>. QED
      BY <2>1, <2>2, <3>1, <3>2, CallTypes, Zenon
      DEF BeginPending, NoCall, GoIdle, HandlerTypes, TaskTypes, TaskTypeOK
  <2>3. CASE CancelPending(h, keys)
    BY <2>1, <2>3, CallTypes
    DEF CancelPending, GoIdle, watchdogVars, HandlerTypes, TaskTypes, TaskTypeOK
  <2>4. CASE Promote(h, keys)
    BY <2>1, <2>4, CallTypes, CounterTypes
    DEF Promote, GoSending, NoCall, HandlerTypes, TaskTypes, TaskTypeOK
  <2>5. CASE BeginEnter(h, keys)
    <3>1. outbox' \in [Client -> Seq({"Enter", "Leave"})]
      BY <2>1, <2>5, SendTypes DEF BeginEnter, TaskTypes, TaskTypeOK
    <3>2. failures' \in 0 .. SendFailuresThreshold
      BY <2>5, CounterTypes DEF BeginEnter, CountFailure
    <3>. QED
      BY <2>1, <2>5, <3>1, <3>2, CallTypes, Zenon
      DEF BeginEnter, NoCall, GoSending, HandlerTypes, TaskTypes, TaskTypeOK
  <2>6. CASE ForwardInput(h, keys)
    <3>1. failures' \in 0 .. SendFailuresThreshold
      BY <2>6, CounterTypes DEF ForwardInput, CountFailure, TaskTypes, TaskTypeOK
    <3>. QED
      BY <2>1, <2>6, <3>1, CallTypes, Zenon
      DEF ForwardInput, NoCall, HandlerTypes, TaskTypes, TaskTypeOK
  <2>. QED
    BY <1>4, <2>1, <2>2, <2>3, <2>4, <2>5, <2>6
    DEF ClientEvent, TaskTypes, TaskTypeOK
<1>. QED
  BY <1>1, <1>2, <1>3, <1>4 DEF handle_capture_event

(* taking an event from the channel *)
LEMMA TakeTypes ==
    ASSUME TaskTypes, events # <<>>
    PROVE  /\ Head(events) \in CaptureEvents
           /\ KeysAfter(Head(events)) \in SUBSET Scancode
           /\ Tail(events) \in Seq(CaptureEvents)
           /\ Len(Tail(events)) <= EventCap
<1>1. /\ Head(events) \in CaptureEvents
      /\ Tail(events) \in Seq(CaptureEvents)
      /\ Len(Tail(events)) <= EventCap
  BY EventCapAssumption DEF TaskTypes, ApiTypeOK
<1>2. Head(events).ev = "Input" => Head(events).input \in Inputs
  BY <1>1, TaskAssumption DEF CaptureEvents
<1>3. \A i \in Inputs : i.scancode # None => i.scancode \in Scancode
  BY DEF Inputs
<1>. QED
  BY <1>1, <1>2, <1>3 DEF KeysAfter, TaskTypes, TaskTypeOK

LEMMA ServesEventsTypes ==
    ASSUME TaskTypes, ServesEvents
    PROVE  TaskTypes'
<1>1. ASSUME NEW h \in Handle, NextFanned(h)
      PROVE  TaskTypes'
  <2>1. fan_event \in CaptureEvents
    BY <1>1 DEF NextFanned, TaskTypes, TaskTypeOK
  <2>2. HandlerTypes /\ panicked' \in BOOLEAN
    BY <1>1, <2>1, EventTypes DEF NextFanned, TaskTypes, TaskTypeOK
  <2>3. fan_to' \subseteq Handle /\ fan_event' \in IF fan_to' = {} THEN {None} ELSE CaptureEvents
    BY <1>1, <2>1 DEF NextFanned, FanOut, TaskTypes, TaskTypeOK
  <2>. QED
    BY <1>1, <2>2, <2>3, Zenon
    DEF NextFanned, HandlerTypes, netVars, TaskTypes, ApiTypeOK, TaskTypeOK
<1>2. ASSUME NEW h \in Handle, NextEvent(h)
      PROVE  TaskTypes'
  <2>1. HandlerTypes /\ panicked' \in BOOLEAN
    BY <1>2, TakeTypes, EventTypes DEF NextEvent
  <2>2. fan_to' \subseteq Handle /\ fan_event' \in IF fan_to' = {} THEN {None} ELSE CaptureEvents
    BY <1>2, TakeTypes DEF NextEvent, FanOut, Subscribers
  <2>. QED
    BY <1>2, <2>1, <2>2, TakeTypes, Zenon
    DEF NextEvent, HandlerTypes, netVars, TaskTypes, ApiTypeOK, TaskTypeOK
<1>3. ASSUME NextEventUnsubscribed
      PROVE  TaskTypes'
  BY <1>3, TakeTypes
  DEF NextEventUnsubscribed, fanVars, watchdogVars, netVars, TaskTypes, ApiTypeOK, TaskTypeOK
<1>. QED
  BY <1>1, <1>2, <1>3 DEF ServesEvents

(* taking a frame from a client's inbox, and releasing *)
LEMMA FrameTypes ==
    ASSUME TaskTypes, NEW c \in Client, NEW frame, TakeFrame(c, frame)
    PROVE  inbox' \in [Client -> Seq({"Ack", "Leave", "Pong"})]
<1>1. Tail(inbox[c]) \in Seq({"Ack", "Leave", "Pong"})
  BY DEF TakeFrame, TaskTypes, TaskTypeOK
<1>. QED
  BY <1>1 DEF TakeFrame, TaskTypes, TaskTypeOK

LEMMA ServesFramesTypes ==
    ASSUME TaskTypes, NEW c \in Client, ServesFrames(c)
    PROVE  TaskTypes'
<1>1. PICK frame : TakeFrame(c, frame)
  BY DEF ServesFrames, RecvIgnored, RecvAck, RecvLeave, RecvPong
<1>2. HandlerTypes
  <2>1. CASE RecvIgnored(c)
    BY <2>1 DEF RecvIgnored, watchdogVars, HandlerTypes, TaskTypes, ApiTypeOK, TaskTypeOK
  <2>2. CASE RecvAck(c)
    BY <2>2, CallTypes, CounterTypes, Zenon
    DEF RecvAck, GoSending, HandlerTypes, TaskTypes, ApiTypeOK, TaskTypeOK
  <2>3. CASE RecvLeave(c)
    BY <2>3, ReleaseTypes DEF RecvLeave, TaskTypes, TaskTypeOK
  <2>4. CASE RecvPong(c)
    BY <2>4, CounterTypes DEF RecvPong, HandlerTypes, TaskTypes, ApiTypeOK, TaskTypeOK
  <2>. QED
    BY <2>1, <2>2, <2>3, <2>4 DEF ServesFrames
<1>. QED
  BY <1>1, <1>2, FrameTypes, Zenon
  DEF TakeFrame, HandlerTypes, fanVars, TaskTypes, ApiTypeOK, TaskTypeOK

LEMMA ReleasesTypes ==
    ASSUME TaskTypes, Releases, lost' \subseteq Client
    PROVE  TaskTypes'
<1>1. HandlerTypes
  BY ReleaseTypes DEF Releases, TaskTypes, TaskTypeOK
<1>. QED
  BY <1>1, Zenon
  DEF Releases, HandlerTypes, fanVars, TaskTypes, ApiTypeOK, TaskTypeOK

LEMMA ServesOthersTypes ==
    ASSUME TaskTypes, ServesOthers
    PROVE  TaskTypes'
<1>. USE DEF fanVars, watchdogVars, netVars, TaskTypes, ApiTypeOK, TaskTypeOK
<1>1. ASSUME NEW c \in Client, ServesFrames(c)
      PROVE  TaskTypes'
  BY <1>1, ServesFramesTypes, Zenon
<1>2. ASSUME NEW c \in Client, PeerLost(c)
      PROVE  TaskTypes'
  <2>1. CASE active_client = c
    BY <1>2, <2>1, ReleasesTypes, Zenon DEF PeerLost
  <2>2. CASE active_client # c
    BY <1>2, <2>2 DEF PeerLost
  <2>. QED
    BY <2>1, <2>2, Zenon
<1>3. ASSUME RequestRelease \/ CrossingStorm \/ SendFailures \/ NoProgress
      PROVE  TaskTypes'
  BY <1>3, ReleasesTypes, Zenon DEF RequestRelease, CrossingStorm, SendFailures, NoProgress
<1>4. ASSUME NEW h \in Handle, NEW k \in Key, RequestCreate(h, k)
      PROVE  TaskTypes'
  BY <1>4, CallTypes DEF RequestCreate
<1>5. ASSUME NEW h \in Handle, RequestDestroy(h)
      PROVE  TaskTypes'
  BY <1>5, CallTypes DEF RequestDestroy
<1>6. ASSUME PendingTimeout
      PROVE  TaskTypes'
  BY <1>6, CallTypes DEF PendingTimeout, GoIdle
<1>7. ASSUME WatchdogLight
      PROVE  TaskTypes'
  BY <1>7, CallTypes, CounterTypes, Zenon DEF WatchdogLight, GoIdle
<1>8. ASSUME WindowExpires
      PROVE  TaskTypes'
  <2>1. crossings - 1 \in 0 .. CrossingStormThreshold
    BY <1>8, TaskAssumption DEF WindowExpires
  <2>. QED
    BY <1>8, <2>1 DEF WindowExpires
<1>. QED
  BY <1>1, <1>2, <1>3, <1>4, <1>5, <1>6, <1>7, <1>8, Zenon DEF ServesOthers, WatchdogHeavy

LEMMA NetworkTypes ==
    ASSUME TaskTypes, Network
    PROVE  TaskTypes'
<1>. USE DEF fanVars, watchdogVars, netVars, LeavesTask, TaskTypes, ApiTypeOK, TaskTypeOK
<1>1. PICK c \in Client : \/ LinkUp(c)
                         \/ LinkDown(c)
                         \/ PeerAcks(c)
                         \/ \E frame \in {"Leave", "Pong"} : PeerSends(c, frame)
  BY DEF Network
<1>2. \A frame \in {"Ack", "Leave", "Pong"} : Append(inbox[c], frame) \in Seq({"Ack", "Leave", "Pong"})
  OBVIOUS
<1>3. CASE LinkUp(c)
  BY <1>3 DEF LinkUp
<1>4. CASE LinkDown(c)
  <2>1. link' \in [Client -> BOOLEAN] /\ lost' \subseteq Client
    BY <1>4 DEF LinkDown
  <2>2. outbox' \in [Client -> Seq({"Enter", "Leave"})]
    BY <1>4 DEF LinkDown
  <2>3. inbox' \in [Client -> Seq({"Ack", "Leave", "Pong"})]
    BY <1>2, <1>4, Zenon DEF LinkDown
  <2>. QED
    BY <1>4, <2>1, <2>2, <2>3, Zenon DEF LinkDown
<1>5. CASE PeerAcks(c)
  <2>1. Tail(outbox[c]) \in Seq({"Enter", "Leave"})
    BY <1>5 DEF PeerAcks
  <2>. QED
    BY <1>2, <1>5, <2>1 DEF PeerAcks
<1>6. ASSUME NEW frame \in {"Leave", "Pong"}, PeerSends(c, frame)
      PROVE  TaskTypes'
  BY <1>2, <1>6 DEF PeerSends
<1>. QED
  BY <1>1, <1>3, <1>4, <1>5, <1>6, Zenon

LEMMA TaskInitTypes ==
    ASSUME TaskInit
    PROVE  TaskTypeOK
<1>1. /\ 0 \in 0 .. SendFailuresThreshold
      /\ 0 \in 0 .. CrossingStormThreshold
      /\ <<>> \in Seq({"Enter", "Leave"})
      /\ <<>> \in Seq({"Ack", "Leave", "Pong"})
  BY TaskAssumption
<1>. QED
  BY <1>1, Zenon DEF TaskInit, TaskTypeOK

LEMMA TaskKeepsTypes ==
    ASSUME TaskTypeOK, UNCHANGED taskVars
    PROVE  TaskTypeOK'
  BY DEF TaskTypeOK, taskVars

(* a backend appends an event to the channel *)
LEMMA AppendTypes ==
    ASSUME ApiTypeOK, Room, NEW e \in CaptureEvents, events' = Append(events, e)
    PROVE  events' \in Seq(CaptureEvents) /\ Len(events') <= EventCap
  BY EventCapAssumption DEF Room, ApiTypeOK

LEMMA SignalTypes ==
    \A k \in Key, ev \in {"BeginPending", "CancelPending", "Begin"} : Signal(k, ev) \in CaptureEvents
  BY DEF Signal, CaptureEvents

LEMMA InputTypes == \A k \in Key, i \in Input : InputEvent(k, i) \in CaptureEvents
  BY DEF InputEvent, CaptureEvents

-----------------------------------------------------------------------------
(* The event arm takes at most the first event from the channel, and no other *)
(* arm touches it.                                                            *)
LEMMA EventsTaken ==
    ASSUME ServesEvents
    PROVE  UNCHANGED events \/ (events # <<>> /\ events' = Tail(events))
  BY Zenon DEF ServesEvents, NextFanned, NextEvent, NextEventUnsubscribed

LEMMA EventsKept ==
    ASSUME ServesOthers \/ Network
    PROVE  UNCHANGED events
<1>1. CASE ServesOthers
  BY <1>1, Zenon
  DEF ServesOthers, ServesFrames, RecvIgnored, RecvAck, RecvLeave, RecvPong, TakeFrame, PeerLost,
      RequestRelease, RequestDestroy, RequestCreate, PendingTimeout, WatchdogLight, WatchdogHeavy,
      WindowExpires, CrossingStorm, SendFailures, NoProgress, Releases
<1>2. CASE Network
  BY <1>2 DEF Network, LinkUp, LinkDown, PeerAcks, PeerSends, LeavesTask
<1>. QED
  BY <1>1, <1>2

-----------------------------------------------------------------------------
(* SendingHasClient is inductive: Sending is entered with active_client set,  *)
(* and active_client is cleared together with the state.                      *)

LEMMA EventKeepsClient ==
    ASSUME SendingHasClient, NEW h \in Handle, NEW e, NEW keys,
           handle_capture_event(h, e, keys)
    PROVE  SendingHasClient'
<1>. USE DEF SendingHasClient, GoIdle, GoSending
<1>1. CASE release_capture(keys)
  BY <1>1 DEF release_capture, ReleaseSkipped, ReleasePending, ReleaseActive
<1>2. CASE NoSuchCapture(h, keys) \/ EnterOnlyEvent(h, keys)
  BY <1>2 DEF NoSuchCapture, EnterOnlyEvent
<1>3. CASE ClientEvent(h, e, keys)
  BY <1>3, TaskAssumption
  DEF ClientEvent, BeginPending, CancelPending, Promote, BeginEnter, ForwardInput, Handle
<1>. QED
  BY <1>1, <1>2, <1>3 DEF handle_capture_event

LEMMA TaskKeepsClient ==
    ASSUME SendingHasClient, ServesEvents \/ ServesOthers \/ Network \/ UNCHANGED taskVars
    PROVE  SendingHasClient'
<1>1. CASE ServesEvents
  <2>1. CASE NextEventUnsubscribed
    BY <2>1 DEF NextEventUnsubscribed, SendingHasClient
  <2>. QED
    BY <1>1, <2>1, EventKeepsClient, Zenon DEF ServesEvents, NextFanned, NextEvent
<1>2. CASE ServesOthers
  <2>. USE DEF SendingHasClient, GoIdle, GoSending
  <2>1. ASSUME NEW keys, release_capture(keys)
        PROVE  SendingHasClient'
    BY <2>1 DEF release_capture, ReleaseSkipped, ReleasePending, ReleaseActive
  <2>2. ASSUME NEW c \in Client, ServesFrames(c)
        PROVE  SendingHasClient'
    BY <2>1, <2>2 DEF ServesFrames, RecvIgnored, RecvAck, RecvLeave, RecvPong
  <2>3. ASSUME NEW c \in Client, PeerLost(c)
        PROVE  SendingHasClient'
    BY <2>1, <2>3 DEF PeerLost, Releases
  <2>4. ASSUME RequestRelease \/ CrossingStorm \/ SendFailures \/ NoProgress
        PROVE  SendingHasClient'
    BY <2>1, <2>4 DEF RequestRelease, CrossingStorm, SendFailures, NoProgress, Releases
  <2>5. ASSUME NEW h \in Handle, RequestDestroy(h) \/ \E k \in Key : RequestCreate(h, k)
        PROVE  SendingHasClient'
    BY <2>5 DEF RequestDestroy, RequestCreate
  <2>6. ASSUME PendingTimeout \/ WatchdogLight \/ WindowExpires
        PROVE  SendingHasClient'
    BY <2>6 DEF PendingTimeout, WatchdogLight, WindowExpires
  <2>. QED
    BY <1>2, <2>2, <2>3, <2>4, <2>5, <2>6 DEF ServesOthers, WatchdogHeavy
<1>3. CASE Network
  BY <1>3 DEF Network, LinkUp, LinkDown, PeerAcks, PeerSends, LeavesTask, SendingHasClient
<1>4. CASE UNCHANGED taskVars
  BY <1>4 DEF taskVars, SendingHasClient
<1>. QED
  BY <1>1, <1>2, <1>3, <1>4

-----------------------------------------------------------------------------
(* The elements of a queue. *)

Elems(s) == {s[i] : i \in 1 .. Len(s)}

LEMMA ElemsFew ==
    /\ Elems(<<>>) = {}
    /\ \A x : Elems(<<x>>) = {x}
    /\ \A x, y : Elems(<<x, y>>) = {x, y}
<1>1. Elems(<<>>) = {}
  BY DEF Elems
<1>2. ASSUME NEW x PROVE Elems(<<x>>) = {x}
  BY DEF Elems
<1>3. ASSUME NEW x, NEW y PROVE Elems(<<x, y>>) = {x, y}
  <2>1. Len(<<x, y>>) = 2 /\ <<x, y>>[1] = x /\ <<x, y>>[2] = y
    OBVIOUS
  <2>2. 1 .. 2 = {1, 2}
    OBVIOUS
  <2>. QED
    BY <2>1, <2>2 DEF Elems
<1>. QED
  BY <1>1, <1>2, <1>3

LEMMA ElemsAppend ==
    ASSUME NEW S, NEW s \in Seq(S), NEW x \in S
    PROVE  Elems(Append(s, x)) = Elems(s) \cup {x}
<1>1. /\ Len(Append(s, x)) = Len(s) + 1 /\ Len(s) \in Nat
      /\ \A i \in 1 .. Len(s) : Append(s, x)[i] = s[i]
      /\ Append(s, x)[Len(s) + 1] = x
  OBVIOUS
<1>2. 1 .. (Len(s) + 1) = (1 .. Len(s)) \cup {Len(s) + 1}
  BY <1>1
<1>. QED
  BY <1>1, <1>2 DEF Elems

LEMMA ElemsTail ==
    ASSUME NEW S, NEW s \in Seq(S), s # <<>>
    PROVE  Elems(s) = Elems(Tail(s)) \cup {Head(s)}
<1>1. /\ Len(s) \in Nat \ {0} /\ Len(Tail(s)) = Len(s) - 1 /\ Head(s) = s[1]
      /\ \A i \in 1 .. Len(s) - 1 : Tail(s)[i] = s[i + 1]
  OBVIOUS
<1>2. ASSUME NEW i \in 1 .. Len(s) PROVE s[i] \in Elems(Tail(s)) \cup {Head(s)}
  <2>1. CASE i = 1
    BY <1>1, <2>1
  <2>2. CASE i # 1
    <3>1. i - 1 \in 1 .. Len(s) - 1 /\ Tail(s)[i - 1] = s[i]
      BY <1>1, <2>2
    <3>. QED
      BY <1>1, <3>1 DEF Elems
  <2>. QED
    BY <2>1, <2>2
<1>3. ASSUME NEW i \in 1 .. Len(Tail(s)) PROVE Tail(s)[i] \in Elems(s)
  <2>1. i + 1 \in 1 .. Len(s) /\ Tail(s)[i] = s[i + 1]
    BY <1>1
  <2>. QED
    BY <2>1 DEF Elems
<1>4. Head(s) \in Elems(s)
  BY <1>1 DEF Elems
<1>. QED
  BY <1>2, <1>3, <1>4 DEF Elems

LEMMA ElemsConcat ==
    ASSUME NEW S, NEW s \in Seq(S), NEW t \in Seq(S)
    PROVE  Elems(s \o t) \subseteq Elems(s) \cup Elems(t)
<1>1. /\ Len(s \o t) = Len(s) + Len(t) /\ Len(s) \in Nat /\ Len(t) \in Nat
      /\ \A i \in 1 .. Len(s) + Len(t) : (s \o t)[i] = IF i <= Len(s) THEN s[i] ELSE t[i - Len(s)]
  OBVIOUS
<1>2. ASSUME NEW i \in 1 .. Len(s) + Len(t) PROVE (s \o t)[i] \in Elems(s) \cup Elems(t)
  <2>1. CASE i <= Len(s)
    BY <1>1, <2>1 DEF Elems
  <2>2. CASE i > Len(s)
    <3>1. i - Len(s) \in 1 .. Len(t) /\ (s \o t)[i] = t[i - Len(s)]
      BY <1>1, <2>2
    <3>. QED
      BY <3>1 DEF Elems
  <2>. QED
    BY <1>1, <2>1, <2>2
<1>. QED
  BY <1>1, <1>2, Zenon DEF Elems

-----------------------------------------------------------------------------
(* What the task knows of the backend's pending and active barriers.          *)

(* the timeout will clear the pending barrier k, or the release bind is held *)
Tracked(k) == (state = "Pending" /\ pending_key = k) \/ keys_pressed(pressed_keys)

(* input captured at k has somewhere to go *)
Owned(k) == state = "Sending" /\ active_client # None /\ captures[active_client] = k

(* a client per barrier, and so no fan-out where there are no triggers *)
OneSubscriber ==
    /\ fan_to = {}
    /\ \A c, d \in Client : captures[c] # None /\ captures[c] = captures[d] => c = d

CallsPending(k) ==
    \/ Release \in Elems(calls)
    \/ \E op \in {"destroy", "start_capture", "cancel_pending"} : Call(op, k) \in Elems(calls)

CallsActive(k) == Release \in Elems(calls) \/ Call("destroy", k) \in Elems(calls)

(* release_capture lets go of what it forgets *)
LEMMA ReleaseCalls ==
    ASSUME NEW keys, release_capture(keys)
    PROVE  /\ Release \in Elems(calls') \/ UNCHANGED <<state, pending_handle, pending_key, active_client>>
           /\ Release \in Elems(calls') \/ pressed_keys' = keys
           /\ state = "Sending" => Release \in Elems(calls')
           /\ \A k : Call("create", k) \notin Elems(calls')
<1>1. \A k : Call("create", k) # Release
  BY DEF Call, Release
<1>2. \A k, l : Call("create", k) # Call("cancel_pending", l)
  BY DEF Call
<1>3. CASE ReleaseSkipped(keys)
  BY <1>3, ElemsFew DEF ReleaseSkipped, should_skip_release, NoCall
<1>4. CASE ReleasePending
  BY <1>1, <1>2, <1>4, ElemsFew DEF ReleasePending
<1>5. CASE ReleaseActive
  BY <1>1, <1>5, ElemsFew DEF ReleaseActive
<1>. QED
  BY <1>3, <1>4, <1>5 DEF release_capture
(* a handler runs when the calls of the last one are made *)
LEMMA CallsWait ==
    ASSUME ServesEvents \/ ServesOthers \/ Network
    PROVE  Elems(calls) \subseteq Elems(calls')
<1>1. Ready \/ UNCHANGED calls
  BY Zenon DEF ServesEvents, NextFanned, NextEvent, NextEventUnsubscribed, ServesOthers, ServesFrames,
         RecvIgnored, RecvAck, RecvLeave, RecvPong, TakeFrame, PeerLost, RequestRelease,
         RequestDestroy, RequestCreate, PendingTimeout, WatchdogLight, WatchdogHeavy,
         WindowExpires, CrossingStorm, SendFailures, NoProgress, Releases, Network, LinkUp,
         LinkDown, PeerAcks, PeerSends, LeavesTask
<1>. QED
  BY <1>1, ElemsFew DEF Ready

(* What a step of the task, other than one that takes an event, does to the   *)
(* claims on a barrier: each is kept, or handed on to a call.                 *)
HandsOver(k) ==
    /\ Tracked(k) => Tracked(k)' \/ CallsPending(k)'
    /\ Owned(k) => Owned(k)' \/ CallsActive(k)'

LEMMA ReleaseHandsOver ==
    ASSUME UNCHANGED captures, release_capture(pressed_keys), NEW k
    PROVE  HandsOver(k)
  BY ReleaseCalls DEF HandsOver, Tracked, Owned, CallsPending, CallsActive, keys_pressed

LEMMA CallHandsOver ==
    ASSUME UNCHANGED <<calls, captures, state, pending_key, active_client, pressed_keys>>, NEW k
    PROVE  HandsOver(k)
  BY DEF HandsOver, Tracked, Owned, keys_pressed

LEMMA TaskHandsOver ==
    ASSUME TaskTypes, SendingHasClient, OneSubscriber, Trigger = {}, ServesOthers \/ Network,
           NEW k \in Key
    PROVE  HandsOver(k)
<1>. USE DEF fanVars, watchdogVars, netVars
<1>1. CASE Network
  BY <1>1, CallHandsOver, Zenon DEF Network, LinkUp, LinkDown, PeerAcks, PeerSends, LeavesTask
<1>2. ASSUME NEW c \in Client, ServesFrames(c)
      PROVE  HandsOver(k)
  <2>1. CASE RecvIgnored(c)
    BY <2>1, CallHandsOver DEF RecvIgnored, TakeFrame
  <2>2. CASE RecvAck(c)
    <3>1. /\ UNCHANGED <<captures, active_client, pressed_keys>>
          /\ state = "Pending" => UNCHANGED <<state, pending_key>>
          /\ state = "Sending" => state' = "Sending"
      BY <2>2 DEF RecvAck, TakeFrame, SendingHasClient, GoSending
    <3>. QED
      BY <3>1, Zenon DEF HandsOver, Tracked, Owned, keys_pressed
  <2>3. CASE RecvLeave(c)
    BY <2>3, ReleaseHandsOver DEF RecvLeave, TakeFrame
  <2>4. CASE RecvPong(c)
    BY <2>4, CallHandsOver DEF RecvPong, TakeFrame
  <2>. QED
    BY <1>2, <2>1, <2>2, <2>3, <2>4 DEF ServesFrames
<1>3. ASSUME NEW c \in Client, PeerLost(c)
      PROVE  HandsOver(k)
  BY <1>3, ReleaseHandsOver, CallHandsOver DEF PeerLost, Releases
<1>4. ASSUME RequestRelease \/ CrossingStorm \/ SendFailures \/ NoProgress
      PROVE  HandsOver(k)
  BY <1>4, ReleaseHandsOver DEF RequestRelease, CrossingStorm, SendFailures, NoProgress, Releases
<1>5. ASSUME NEW h \in Handle, NEW l \in Key, RequestCreate(h, l)
      PROVE  HandsOver(k)
  <2>1. UNCHANGED <<state, pending_key, active_client, pressed_keys>>
    BY <1>5 DEF RequestCreate
  <2>2. Owned(k) => Owned(k)'
    BY <1>5, NoneAssumption, TaskAssumption
    DEF RequestCreate, Owned, Handle, TaskTypes, TaskTypeOK
  <2>. QED
    BY <2>1, <2>2 DEF HandsOver, Tracked, keys_pressed
<1>6. ASSUME NEW h \in Handle, RequestDestroy(h)
      PROVE  HandsOver(k)
  <2>1. UNCHANGED <<state, pending_key, active_client, pressed_keys>>
    BY <1>6 DEF RequestDestroy
  <2>2. ASSUME Owned(k) PROVE Owned(k)' \/ CallsActive(k)'
    <3>1. CASE h # active_client
      BY <1>6, <2>2, <3>1 DEF RequestDestroy, Owned, Handle, TaskTypes, TaskTypeOK
    <3>2. CASE h = active_client
      <4>1. captures[h] = k /\ h \in Client /\ captures[h] # None
        BY <2>2, <3>2, NoneAssumption DEF Owned, TaskTypes, TaskTypeOK
      <4>2. ~OthersAt(h, k)
        BY <4>1 DEF OthersAt, Subscribers, OneSubscriber, Handle
      <4>3. calls' = <<Call("destroy", k)>>
        BY <1>6, <4>1, <4>2 DEF RequestDestroy
      <4>. QED
        BY <4>3, ElemsFew DEF CallsActive
    <3>. QED
      BY <3>1, <3>2
  <2>. QED
    BY <2>1, <2>2 DEF HandsOver, Tracked, keys_pressed
<1>7. ASSUME PendingTimeout
      PROVE  HandsOver(k)
  <2>1. /\ UNCHANGED <<captures, active_client, pressed_keys>> /\ state = "Pending"
        /\ Elems(calls') = {Call("cancel_pending", pending_key)}
    BY <1>7, ElemsFew DEF PendingTimeout
  <2>. QED
    BY <2>1 DEF HandsOver, Tracked, Owned, CallsPending, keys_pressed
<1>8. ASSUME WatchdogLight
      PROVE  HandsOver(k)
  <2>1. ~GhostActive
    BY DEF GhostActive, SendingHasClient
  <2>. QED
    BY <1>8, <2>1, CallHandsOver DEF WatchdogLight
<1>9. ASSUME WindowExpires
      PROVE  HandsOver(k)
  BY <1>9, CallHandsOver DEF WindowExpires
<1>. QED
  BY <1>1, <1>2, <1>3, <1>4, <1>5, <1>6, <1>7, <1>8, <1>9 DEF ServesOthers, WatchdogHeavy
-----------------------------------------------------------------------------
(* What a step of the task does to the subscribers of a barrier: it is        *)
(* created for a subscriber, and destroyed when the last one leaves.          *)
CallsFollow(k) ==
    /\ Call("create", k) \in Elems(calls') =>
        \/ Call("create", k) \in Elems(calls) /\ UNCHANGED captures
        \/ Subscribers(k)' # {}
    /\ Subscribers(k)' = {} => Subscribers(k) = {} \/ Call("destroy", k) \in Elems(calls')

LEMMA NoCreateFollows ==
    ASSUME NEW k, UNCHANGED captures, UNCHANGED calls \/ Call("create", k) \notin Elems(calls')
    PROVE  CallsFollow(k)
  BY DEF CallsFollow, Subscribers

LEMMA OtherCalls ==
    /\ \A k : Call("create", k) # Release
    /\ \A k, l, op : op # "create" => Call("create", k) # Call(op, l)
    /\ \A k, l, op : k # l => Call(op, k) # Call(op, l)
  BY DEF Call, Release

LEMMA EventCalls ==
    ASSUME NEW h \in Handle, NEW e, NEW keys, handle_capture_event(h, e, keys), NEW k
    PROVE  Call("create", k) \notin Elems(calls')
<1>0. ASSUME \/ calls' = <<>> \/ calls' = <<Release>>
             \/ calls' = <<Call("cancel_pending", captures[h])>>
      PROVE  Call("create", k) \notin Elems(calls')
  BY <1>0, ElemsFew, OtherCalls
<1>1. CASE release_capture(keys)
  BY <1>1, ReleaseCalls
<1>2. CASE NoSuchCapture(h, keys)
  BY <1>0, <1>2 DEF NoSuchCapture, NoCall
<1>3. CASE EnterOnlyEvent(h, keys)
  BY <1>0, <1>3 DEF EnterOnlyEvent, NoCall
<1>4. CASE ClientEvent(h, e, keys)
  <2>1. CASE BeginPending(h, keys)
    BY <1>0, <2>1 DEF BeginPending, NoCall
  <2>2. CASE CancelPending(h, keys)
    BY <1>0, <2>2 DEF CancelPending
  <2>3. CASE Promote(h, keys)
    BY <1>0, <2>3 DEF Promote, NoCall
  <2>4. CASE BeginEnter(h, keys)
    BY <1>0, <2>4 DEF BeginEnter, NoCall
  <2>5. CASE ForwardInput(h, keys)
    BY <1>0, <2>5 DEF ForwardInput, NoCall
  <2>. QED
    BY <1>4, <2>1, <2>2, <2>3, <2>4, <2>5 DEF ClientEvent
<1>. QED
  BY <1>1, <1>2, <1>3, <1>4 DEF handle_capture_event

LEMMA TaskCallsFollow ==
    ASSUME TaskTypes, ServesEvents \/ ServesOthers \/ Network, NEW k \in Key
    PROVE  CallsFollow(k)
<1>. USE DEF fanVars, watchdogVars, netVars
<1>1. CASE ServesEvents
  <2>1. CASE NextEventUnsubscribed
    BY <2>1, NoCreateFollows DEF NextEventUnsubscribed
  <2>. QED
    BY <1>1, <2>1, EventCalls, NoCreateFollows, Zenon DEF ServesEvents, NextFanned, NextEvent
<1>2. CASE Network
  BY <1>2, NoCreateFollows, Zenon DEF Network, LinkUp, LinkDown, PeerAcks, PeerSends, LeavesTask
<1>3. ASSUME NEW c \in Client, ServesFrames(c)
      PROVE  CallsFollow(k)
  <2>1. CASE RecvIgnored(c) \/ RecvPong(c)
    BY <2>1, NoCreateFollows DEF RecvIgnored, RecvPong, TakeFrame
  <2>2. CASE RecvAck(c)
    <3>1. UNCHANGED captures
      BY <2>2 DEF RecvAck, TakeFrame
    <3>2. UNCHANGED calls \/ calls' = <<Call("start_capture", pending_key)>>
      BY <2>2 DEF RecvAck
    <3>. QED
      BY <3>1, <3>2, NoCreateFollows, ElemsFew, OtherCalls
  <2>3. CASE RecvLeave(c)
    BY <2>3, ReleaseCalls, NoCreateFollows DEF RecvLeave, TakeFrame
  <2>. QED
    BY <1>3, <2>1, <2>2, <2>3 DEF ServesFrames
<1>4. ASSUME NEW c \in Client, PeerLost(c)
      PROVE  CallsFollow(k)
  BY <1>4, ReleaseCalls, NoCreateFollows DEF PeerLost, Releases
<1>5. ASSUME RequestRelease \/ CrossingStorm \/ SendFailures \/ NoProgress
      PROVE  CallsFollow(k)
  BY <1>5, ReleaseCalls, NoCreateFollows
  DEF RequestRelease, CrossingStorm, SendFailures, NoProgress, Releases
<1>6. ASSUME NEW h \in Handle, NEW l \in Key, RequestCreate(h, l)
      PROVE  CallsFollow(k)
  <2>1. /\ captures[h] = None /\ captures' = [captures EXCEPT ![h] = l]
        /\ calls' = <<>> \/ calls' = <<Call("create", l)>>
    BY <1>6 DEF RequestCreate
  <2>2. Call("create", k) \in Elems(calls') => k = l
    BY <2>1, ElemsFew, OtherCalls
  <2>3. h \in Subscribers(l)'
    BY <2>1 DEF Subscribers, TaskTypes, TaskTypeOK
  <2>4. \A g \in Subscribers(k) : g \in Subscribers(k)'
    BY <2>1, NoneAssumption DEF Subscribers, TaskTypes, TaskTypeOK
  <2>. QED
    BY <2>2, <2>3, <2>4 DEF CallsFollow
<1>7. ASSUME NEW h \in Handle, RequestDestroy(h)
      PROVE  CallsFollow(k)
  <2>1. /\ captures[h] # None /\ captures' = [captures EXCEPT ![h] = None]
        /\ calls' = IF OthersAt(h, captures[h]) THEN <<>> ELSE <<Call("destroy", captures[h])>>
    BY <1>7 DEF RequestDestroy
  <2>2. Call("create", k) \notin Elems(calls')
    BY <2>1, ElemsFew, OtherCalls
  <2>3. CASE captures[h] # k
    <3>1. Subscribers(k)' = Subscribers(k)
      BY <2>1, <2>3, NoneAssumption DEF Subscribers, TaskTypes, TaskTypeOK
    <3>. QED
      BY <2>2, <3>1 DEF CallsFollow
  <2>4. CASE captures[h] = k
    <3>1. Subscribers(k)' = Subscribers(k) \ {h}
      BY <2>1, <2>4, NoneAssumption DEF Subscribers, TaskTypes, TaskTypeOK
    <3>2. Subscribers(k)' = {} => calls' = <<Call("destroy", k)>>
      BY <2>1, <2>4, <3>1 DEF OthersAt
    <3>. QED
      BY <2>2, <3>2, ElemsFew DEF CallsFollow
  <2>. QED
    BY <2>3, <2>4
<1>8. ASSUME PendingTimeout
      PROVE  CallsFollow(k)
  BY <1>8, NoCreateFollows, ElemsFew, OtherCalls DEF PendingTimeout
<1>9. ASSUME WatchdogLight
      PROVE  CallsFollow(k)
  BY <1>9, NoCreateFollows, ElemsFew, OtherCalls DEF WatchdogLight
<1>10. ASSUME WindowExpires
       PROVE  CallsFollow(k)
  BY <1>10, NoCreateFollows DEF WindowExpires
<1>. QED
  BY <1>1, <1>2, <1>3, <1>4, <1>5, <1>6, <1>7, <1>8, <1>9, <1>10 DEF ServesOthers, WatchdogHeavy
-----------------------------------------------------------------------------
(* Without triggers a barrier has at most one subscriber, and its events go   *)
(* to that one.                                                               *)

LEMMA TheSubscriber ==
    ASSUME TaskTypes, OneSubscriber, Trigger = {}, NEW h \in Handle, NextEvent(h)
    PROVE  /\ h \in Client /\ captures[h] = Head(events).key /\ captures[h] # None
           /\ fan_to' = {} /\ UNCHANGED captures
<1>1. Head(events).key \in Key
  BY TakeTypes DEF NextEvent, CaptureEvents
<1>2. h \in Client /\ captures[h] = Head(events).key /\ captures[h] # None
  BY <1>1, NoneAssumption DEF NextEvent, Subscribers, Handle
<1>3. Subscribers(Head(events).key) \ {h} = {}
  BY <1>2 DEF OneSubscriber, Subscribers, Handle
<1>. QED
  BY <1>2, <1>3 DEF NextEvent, FanOut

LEMMA SubscriberStep ==
    ASSUME TaskTypes, OneSubscriber, Trigger = {},
           ServesEvents \/ ServesOthers \/ Network \/ UNCHANGED taskVars
    PROVE  OneSubscriber'
<1>. USE DEF fanVars, watchdogVars, netVars
<1>0. ASSUME UNCHANGED <<captures, fan_to>>
      PROVE  OneSubscriber'
  BY <1>0 DEF OneSubscriber
<1>1. CASE ServesEvents
  <2>1. ASSUME NEW h \in Handle, NextEvent(h)
        PROVE  OneSubscriber'
    BY <2>1, TheSubscriber, Zenon DEF OneSubscriber
  <2>. QED
    BY <1>0, <1>1, <2>1, Zenon DEF ServesEvents, NextFanned, NextEventUnsubscribed, OneSubscriber
<1>2. CASE Network
  BY <1>0, <1>2, Zenon DEF Network, LinkUp, LinkDown, PeerAcks, PeerSends, LeavesTask
<1>3. ASSUME NEW c \in Client, ServesFrames(c) \/ PeerLost(c)
      PROVE  OneSubscriber'
  BY <1>0, <1>3
  DEF ServesFrames, RecvIgnored, RecvAck, RecvLeave, RecvPong, TakeFrame, PeerLost, Releases
<1>4. CASE RequestRelease \/ PendingTimeout \/ WatchdogLight \/ WatchdogHeavy
  BY <1>0, <1>4
  DEF RequestRelease, PendingTimeout, WatchdogLight, WatchdogHeavy, WindowExpires, CrossingStorm,
      SendFailures, NoProgress, Releases
<1>5. ASSUME NEW h \in Handle, RequestDestroy(h)
      PROVE  OneSubscriber'
  BY <1>5, NoneAssumption DEF RequestDestroy, OneSubscriber, Handle, TaskTypes, TaskTypeOK
<1>6. ASSUME NEW h \in Handle, NEW k \in Key, RequestCreate(h, k)
      PROVE  OneSubscriber'
  <2>1. /\ h \in Client /\ captures[h] = None /\ captures' = [captures EXCEPT ![h] = k]
        /\ \A c \in Client : captures[c] # k
        /\ UNCHANGED fan_to
    BY <1>6 DEF RequestCreate, is_default_capture_at, Handle
  <2>. QED
    BY <2>1 DEF OneSubscriber, Handle, TaskTypes, TaskTypeOK
<1>7. CASE UNCHANGED taskVars
  BY <1>0, <1>7 DEF taskVars
<1>. QED
  BY <1>1, <1>2, <1>3, <1>4, <1>5, <1>6, <1>7 DEF ServesOthers

(* taking the first event *)
LEMMA TailFacts ==
    ASSUME TaskTypes, events # <<>>, events' = Tail(events)
    PROVE  /\ Len(events) \in Nat \ {0} /\ Len(events') = Len(events) - 1
           /\ \A i \in 1 .. Len(events) - 1 : events'[i] = events[i + 1]
           /\ Head(events) = events[1]
           /\ events' = <<>> <=> Len(events) = 1
<1>1. events \in Seq(CaptureEvents)
  BY DEF TaskTypes, ApiTypeOK
<1>2. /\ Len(events) \in Nat \ {0} /\ Len(Tail(events)) = Len(events) - 1
      /\ \A i \in 1 .. Len(events) - 1 : Tail(events)[i] = events[i + 1]
      /\ Head(events) = events[1]
  BY <1>1
<1>3. \A s \in Seq(CaptureEvents) : s = <<>> <=> Len(s) = 0
  OBVIOUS
<1>4. Tail(events) \in Seq(CaptureEvents)
  BY <1>1
<1>5. Tail(events) = <<>> <=> Len(Tail(events)) = 0
  BY <1>3, <1>4, Zenon
<1>6. Len(Tail(events)) = 0 <=> Len(events) = 1
  BY <1>2
<1>. QED
  BY <1>2, <1>5, <1>6

(* A crossing is tracked, or cancelled, once the task has taken its event. *)
LEMMA CrossingTaken ==
    ASSUME TaskTypes, OneSubscriber, Trigger = {}, NEW h \in Handle, NextEvent(h),
           Head(events).ev = "BeginPending", NEW k, k = Head(events).key
    PROVE  Tracked(k)' \/ CallsPending(k)'
<1>. DEFINE e == Head(events)
            keys == KeysAfter(e)
<1>1. h \in Client /\ captures[h] = k /\ captures[h] # None
  BY TheSubscriber
<1>2. keys = pressed_keys
  BY DEF KeysAfter
<1>3. CASE keys_pressed(keys)
  <2>1. release_capture(keys)
    BY <1>3, Zenon DEF NextEvent, handle_capture_event
  <2>2. keys_pressed(pressed_keys)' \/ Release \in Elems(calls')
    BY <1>2, <1>3, <2>1, ReleaseCalls DEF keys_pressed
  <2>. QED
    BY <2>2 DEF Tracked, CallsPending
<1>4. CASE ~keys_pressed(keys)
  <2>1. BeginPending(h, keys)
    <3>1. ~EnterOnlyEvent(h, keys) /\ ~NoSuchCapture(h, keys)
      BY <1>1 DEF EnterOnlyEvent, NoSuchCapture
    <3>2. ClientEvent(h, e, keys)
      BY <1>4, <3>1, Zenon DEF NextEvent, handle_capture_event
    <3>. QED
      BY <3>2 DEF ClientEvent
  <2>2. CASE state' = "Pending" /\ pending_key' = k
    BY <2>2 DEF Tracked
  <2>3. CASE calls' = <<Call("cancel_pending", k)>>
    BY <2>3, ElemsFew DEF CallsPending
  <2>. QED
    BY <1>1, <2>1, <2>2, <2>3 DEF BeginPending
<1>. QED
  BY <1>3, <1>4

(* Where the release bind cannot be typed, a capture is owned once the task   *)
(* has taken its Begin, and its input does not change that.                   *)
LEMMA CaptureTaken ==
    ASSUME TaskTypes, OneSubscriber, Trigger = {}, ~(ReleaseBind \subseteq Scancode),
           NEW h \in Handle, NextEvent(h), NEW k
    PROVE  /\ Head(events) = Signal(k, "Begin") => Owned(k)'
           /\ Head(events).ev = "Input" => (Owned(k) => Owned(k)')
<1>. DEFINE e == Head(events)
            keys == KeysAfter(e)
<1>1. h \in Client /\ captures[h] = e.key /\ captures[h] # None /\ UNCHANGED captures
  BY TheSubscriber
<1>2. events # <<>>
  BY DEF NextEvent
<1>3. ~keys_pressed(keys)
  BY <1>2, TakeTypes DEF keys_pressed
<1>4. ClientEvent(h, e, keys)
  <2>1. ~EnterOnlyEvent(h, keys) /\ ~NoSuchCapture(h, keys)
    BY <1>1 DEF EnterOnlyEvent, NoSuchCapture
  <2>. QED
    BY <1>3, <2>1, Zenon DEF NextEvent, handle_capture_event
<1>5. ASSUME e = Signal(k, "Begin") PROVE Owned(k)'
  <2>1. Promote(h, keys) \/ BeginEnter(h, keys)
    BY <1>4, <1>5 DEF ClientEvent, Signal
  <2>2. state' = "Sending" /\ active_client' = h
    BY <2>1 DEF Promote, BeginEnter, GoSending
  <2>3. h # None
    BY <1>1, TaskAssumption DEF Handle
  <2>4. captures[h] = k
    BY <1>1, <1>5 DEF Signal
  <2>. QED
    BY <1>1, <2>2, <2>3, <2>4 DEF Owned
<1>6. ASSUME e.ev = "Input", Owned(k) PROVE Owned(k)'
  <2>1. ForwardInput(h, keys)
    BY <1>4, <1>6 DEF ClientEvent
  <2>. QED
    BY <1>1, <1>6, <2>1 DEF ForwardInput, Owned
<1>. QED
  BY <1>5, <1>6
-----------------------------------------------------------------------------
(* The requests on their way to a backend with these barriers leave none at   *)
(* k: an existing one is destroyed, and each create is followed by a destroy. *)
ClosedIn(q, barriers, k) ==
    /\ k \in barriers => Call("destroy", k) \in Elems(q)
    /\ \A i \in 1 .. Len(q) : q[i] = Call("create", k) =>
        \E j \in 1 .. Len(q) : j > i /\ q[j] = Call("destroy", k)

LEMMA ClosedAppend ==
    ASSUME NEW S, NEW q \in Seq(S), NEW x \in S, NEW barriers, NEW k
    PROVE  /\ x = Call("destroy", k) => ClosedIn(Append(q, x), barriers, k)
           /\ x # Call("create", k) /\ ClosedIn(q, barriers, k) =>
                ClosedIn(Append(q, x), barriers, k)
<1>1. /\ Len(Append(q, x)) = Len(q) + 1 /\ Len(q) \in Nat
      /\ \A i \in 1 .. Len(q) : Append(q, x)[i] = q[i]
      /\ Append(q, x)[Len(q) + 1] = x
  OBVIOUS
<1>2. Elems(Append(q, x)) = Elems(q) \cup {x}
  BY ElemsAppend
<1>3. Call("destroy", k) # Call("create", k)
  BY DEF Call
<1>4. ASSUME x = Call("destroy", k) PROVE ClosedIn(Append(q, x), barriers, k)
  <2>1. ASSUME NEW i \in 1 .. Len(q) + 1, Append(q, x)[i] = Call("create", k)
        PROVE  Len(q) + 1 > i
    BY <1>1, <1>3, <1>4, <2>1
  <2>. QED
    BY <1>1, <1>2, <1>4, <2>1 DEF ClosedIn
<1>5. ASSUME x # Call("create", k), ClosedIn(q, barriers, k)
      PROVE  ClosedIn(Append(q, x), barriers, k)
  <2>1. ASSUME NEW i \in 1 .. Len(q) + 1, Append(q, x)[i] = Call("create", k)
        PROVE  \E j \in 1 .. Len(q) + 1 : j > i /\ Append(q, x)[j] = Call("destroy", k)
    <3>1. i \in 1 .. Len(q) /\ q[i] = Call("create", k)
      BY <1>1, <1>5, <2>1
    <3>2. PICK j \in 1 .. Len(q) : j > i /\ q[j] = Call("destroy", k)
      BY <1>5, <3>1 DEF ClosedIn
    <3>. QED
      BY <1>1, <3>2
  <2>. QED
    BY <1>1, <1>2, <1>5, <2>1 DEF ClosedIn
<1>. QED
  BY <1>4, <1>5

LEMMA ClosedTail ==
    ASSUME NEW S, \A m \in S : m = Call(m.op, m.key), NEW q \in Seq(S), q # <<>>,
           NEW barriers, NEW k, ClosedIn(q, barriers, k)
    PROVE  /\ Head(q).op = "create" => ClosedIn(Tail(q), barriers \cup {Head(q).key}, k)
           /\ Head(q).op = "destroy" => ClosedIn(Tail(q), barriers \ {Head(q).key}, k)
           /\ Head(q).op # "destroy" => ClosedIn(Tail(q), barriers, k)
<1>1. /\ Len(q) \in Nat \ {0} /\ Len(Tail(q)) = Len(q) - 1 /\ Head(q) = q[1]
      /\ \A i \in 1 .. Len(q) - 1 : Tail(q)[i] = q[i + 1]
      /\ Head(q) \in S
  OBVIOUS
<1>2. Elems(q) = Elems(Tail(q)) \cup {Head(q)}
  BY ElemsTail
<1>3. ASSUME NEW i \in 1 .. Len(q), NEW j \in 1 .. Len(q), j > i
      PROVE  j - 1 \in 1 .. Len(Tail(q)) /\ Tail(q)[j - 1] = q[j]
  BY <1>1, <1>3
<1>4. ASSUME Head(q) = Call("create", k) PROVE Call("destroy", k) \in Elems(Tail(q))
  <2>1. PICK j \in 1 .. Len(q) : j > 1 /\ q[j] = Call("destroy", k)
    BY <1>1, <1>4 DEF ClosedIn
  <2>. QED
    BY <1>1, <1>3, <2>1 DEF Elems
<1>5. ASSUME NEW i \in 1 .. Len(Tail(q)), Tail(q)[i] = Call("create", k)
      PROVE  \E j \in 1 .. Len(Tail(q)) : j > i /\ Tail(q)[j] = Call("destroy", k)
  <2>1. i + 1 \in 1 .. Len(q) /\ q[i + 1] = Call("create", k)
    BY <1>1, <1>5
  <2>2. PICK j \in 1 .. Len(q) : j > i + 1 /\ q[j] = Call("destroy", k)
    BY <2>1 DEF ClosedIn
  <2>3. j - 1 > i /\ j - 1 \in 1 .. Len(Tail(q)) /\ Tail(q)[j - 1] = Call("destroy", k)
    BY <1>1, <2>1, <2>2
  <2>. QED
    BY <2>3
<1>6. Head(q) # Call("destroy", k) => ClosedIn(Tail(q), barriers, k)
  BY <1>2, <1>5 DEF ClosedIn
<1>7. Head(q) = Call(Head(q).op, Head(q).key)
  BY <1>1
<1>8. \A op, l : Call(op, l) = Call("destroy", k) => op = "destroy" /\ l = k
  BY DEF Call
<1>9. ASSUME Head(q).op = "create" PROVE ClosedIn(Tail(q), barriers \cup {Head(q).key}, k)
  <2>1. CASE Head(q).key # k
    BY <1>6, <1>7, <1>8, <2>1 DEF ClosedIn
  <2>2. CASE Head(q).key = k
    BY <1>4, <1>5, <1>7, <1>9, <2>2 DEF ClosedIn
  <2>. QED
    BY <2>1, <2>2
<1>10. ASSUME Head(q).op = "destroy" PROVE ClosedIn(Tail(q), barriers \ {Head(q).key}, k)
  <2>1. CASE Head(q).key # k
    BY <1>6, <1>7, <1>8, <2>1 DEF ClosedIn
  <2>2. CASE Head(q).key = k
    BY <1>5, <2>2 DEF ClosedIn
  <2>. QED
    BY <2>1, <2>2
<1>11. Head(q).op # "destroy" => ClosedIn(Tail(q), barriers, k)
  BY <1>6, <1>7, <1>8
<1>. QED
  BY <1>9, <1>10, <1>11
===============================================================================
