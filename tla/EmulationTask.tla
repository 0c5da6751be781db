--------------------------- MODULE EmulationTask ---------------------------
(***************************************************************************)
(* The input side of a receiving machine: EmulationProxy and EmulationTask *)
(* of src/emulation.rs, InputEmulation of input-emulation/src/lib.rs with  *)
(* the keys it has pressed for every peer, and the key-repeat task of the  *)
(* backend.  ListenTask (module Receiver) puts requests into the proxy's   *)
(* queue; the backend's keyboard is `down`, the keys the operating system  *)
(* holds pressed.                                                          *)
(*                                                                         *)
(* A handle of EmulationTask.handles is identified by its address: next_id *)
(* makes every handle fresh, and a handle's pressed keys die with it.      *)
(***************************************************************************)
EXTENDS Naturals, Sequences, FiniteSets

CONSTANTS
    Addr,         \* socket addresses of peers
    Key,          \* key codes
    Backend,      \* "windows", "macos" or "linux" (wlroots, libei, portal, x11)
    RequestCap,   \* bound: requests queued for EmulationTask
    EventCap,     \* bound: Enabled / Disabled events queued for ListenTask
    NoKey         \* an input event that is not a key event

ASSUME BackendAssumption == Backend \in {"windows", "macos", "linux"}
ASSUME AddrAssumption == IsFiniteSet(Addr)

VARIABLES
    emulation_active,  \* EmulationProxy.emulation_active
    exit_requested,    \* EmulationProxy.exit_requested
    request_rx,        \* queue of ProxyRequests
    event_rx,          \* queue of EmulationEnabled / EmulationDisabled
    phase,             \* where EmulationTask.run stands
    handles,           \* EmulationTask.handles
    created,           \* InputEmulation.handles
    pressed_keys,      \* InputEmulation.pressed_keys, {} for an unknown handle
    down,              \* keys the operating system holds pressed
    repeat,            \* the repeat task: {} or the key it repeats
    fresh              \* the repeat task was spawned and not yet polled

taskVars == <<emulation_active, exit_requested, request_rx, event_rx, phase,
              handles, created, pressed_keys, down, repeat, fresh>>

\* "hung": EmulationTask awaits a repeat task that nothing will stop.
Phase == {"new", "session", "idle", "hung", "exited"}

Input(a, k, d)  == [t |-> "Input", addr |-> a, key |-> k, state |-> d]
Remove(a)       == [t |-> "Remove", addr |-> a]
Terminate       == [t |-> "Terminate"]
Reenable        == [t |-> "Reenable"]

InputEvent   == (Key \X {0, 1}) \cup {<<NoKey, 0>>}
ProxyRequest == {Input(a, e[1], e[2]) : a \in Addr, e \in InputEvent}
                \cup {Remove(a) : a \in Addr} \cup {Terminate, Reenable}

TaskTypeOK ==
    /\ emulation_active \in BOOLEAN /\ exit_requested \in BOOLEAN
    /\ request_rx \in Seq(ProxyRequest) /\ Len(request_rx) <= RequestCap
    /\ event_rx \in Seq({"Enabled", "Disabled"})
    /\ phase \in Phase
    /\ handles \subseteq Addr
    /\ created \subseteq Addr
    /\ pressed_keys \in [Addr -> SUBSET Key]
    /\ down \subseteq Key
    /\ repeat \subseteq Key /\ Cardinality(repeat) <= 1
    /\ fresh \in BOOLEAN

TaskInit ==
    /\ emulation_active = FALSE /\ exit_requested = FALSE
    /\ request_rx = <<>> /\ event_rx = <<>>
    /\ phase = "new"
    /\ handles = {} /\ created = {}
    /\ pressed_keys = [a \in Addr |-> {}]
    /\ down = {} /\ repeat = {} /\ fresh = FALSE

----------------------------------------------------------------------------
(* The proxy, called by ListenTask. *)

Request(r) ==
    /\ Len(request_rx) < RequestCap
    /\ request_rx' = Append(request_rx, r)

\* EmulationProxy.consume: input that arrives while no emulation is active
\* is dropped here.
ProxyConsume(e, a) ==
    IF emulation_active THEN Request(Input(a, e[1], e[2])) ELSE UNCHANGED request_rx

ProxyRemove(a) == Request(Remove(a))

\* EmulationProxy.event: the flag follows the events as ListenTask takes them.
ProxyEvent ==
    /\ event_rx # <<>>
    /\ emulation_active' = (Head(event_rx) = "Enabled")
    /\ event_rx' = Tail(event_rx)
    /\ UNCHANGED <<exit_requested, request_rx, phase, handles,
                   created, pressed_keys, down, repeat, fresh>>

----------------------------------------------------------------------------
(* The backend's keyboard. *)

\* A key event that reaches the backend: the keys down afterwards.  The
\* macOS backend posts a key-up only from the repeat task it cancels, and it
\* cancels that task for every key event.
BackendDown(k, s) ==
    LET held == IF Backend = "macos" THEN down \ repeat ELSE down
    IN  IF s = 1 THEN held \cup {k}
        ELSE IF Backend = "macos" THEN held ELSE held \ {k}

\* Only the last key pressed repeats; any release ends the repetition.
BackendRepeat(k, s) ==
    IF Backend # "linux" /\ s = 1 THEN {k} ELSE {}

\* cancel_repeat_task on macOS: notify_waiters wakes a task that waits; one
\* that was spawned and not yet polled misses it, and is awaited for ever.
CancelHangs == Backend = "macos" /\ repeat # {} /\ fresh

\* mutated: nothing is released
ReleaseDownNothing(ks) == down

\* release_keys for the keys ks, then the handle's Modifiers event.
ReleaseDown(ks) ==
    IF Backend = "macos" THEN (IF ks = {} THEN down ELSE down \ repeat)
    ELSE down \ ks
ReleaseRepeat(ks) == IF ks = {} THEN repeat ELSE {}

\* The repeat task is first polled when EmulationTask yields, that is when
\* it finds its queue empty.
StillFresh(rest) == fresh /\ rest # <<>>

----------------------------------------------------------------------------
(* EmulationTask. *)

Pressed == UNION {pressed_keys[a] : a \in Addr}

Set(a, keys) == [pressed_keys EXCEPT ![a] = keys]

\* DropGuard: EmulationDisabled is reported however do_emulation ends.
GuardDropped == event_rx' = Append(event_rx, "Disabled")

\* The end of do_emulation after a session: InputEmulation::terminate
\* destroys every handle, then the DropGuard reports EmulationDisabled, and
\* run goes on to wait for Reenable unless exit_requested is set.
EndSession ==
    IF CancelHangs /\ Pressed # {}
    THEN /\ phase' = "hung"
         /\ \E a \in created : pressed_keys[a] # {} /\ pressed_keys' = Set(a, {})
         /\ UNCHANGED <<created, down, repeat, event_rx>>
    ELSE /\ phase' = IF exit_requested THEN "exited" ELSE "idle"
         /\ created' = {}
         /\ pressed_keys' = [a \in Addr |-> {}]
         /\ down' = ReleaseDown(Pressed)
         /\ repeat' = ReleaseRepeat(Pressed)
         /\ GuardDropped

\* InputEmulation::new succeeds: the guard reports EmulationEnabled and
\* create_clients creates every handle.  None of the backends' create()
\* suspends; but when select! polls wait_for_termination first, that empties
\* the queue, and on Terminate create_clients returns Ok(()) with the handles
\* created so far and do_emulation goes on to the session.
CreateEmulation ==
    /\ phase = "new" /\ Len(event_rx) < EventCap
    /\ phase' = "session"
    /\ event_rx' = Append(event_rx, "Enabled")
    /\ \/ /\ created' = handles
          /\ UNCHANGED request_rx
       \/ /\ handles # {} /\ \A i \in DOMAIN request_rx : request_rx[i] # Terminate
          /\ created' = handles
          /\ request_rx' = <<>>
       \/ /\ \E done \in SUBSET handles : done # handles /\ created' = done
          /\ \E i \in DOMAIN request_rx :
                /\ request_rx[i] = Terminate
                /\ request_rx' = SubSeq(request_rx, i + 1, Len(request_rx))
    /\ UNCHANGED <<emulation_active, exit_requested, handles, pressed_keys, down,
                   repeat, fresh>>

\* InputEmulation::new fails with every backend.
CreateEmulationFails ==
    /\ phase = "new"
    /\ phase' = IF exit_requested THEN "exited" ELSE "idle"
    /\ UNCHANGED <<emulation_active, exit_requested, request_rx, event_rx,
                   handles, created, pressed_keys, down, repeat, fresh>>

\* wait_for_termination while InputEmulation::new is pending: it takes and
\* forgets every request but Terminate.
WaitForTermination ==
    /\ phase = "new" /\ request_rx # <<>>
    /\ request_rx' = Tail(request_rx)
    /\ phase' = IF Head(request_rx) # Terminate THEN phase
                ELSE IF exit_requested THEN "exited" ELSE "idle"
    /\ UNCHANGED <<emulation_active, exit_requested, event_rx, handles, created, pressed_keys, down, repeat, fresh>>

\* InputEmulation::update_pressed_keys: does the event change a key's state?
Changes(keys, k, s) == (s = 1) # (k \in keys)

\* do_emulation_session takes an Input request.  A handle is created for a
\* new address; a key event reaches the backend only if it changes the set
\* of keys pressed for the handle.
SessionInput ==
    LET r == Head(request_rx)
        new == r.addr \notin handles
        known == new \/ r.addr \in created
        keys == pressed_keys[r.addr]
        changed == r.key # NoKey /\ known /\ Changes(keys, r.key, r.state)
        after == IF ~changed THEN keys
                 ELSE IF r.state = 1 THEN keys \cup {r.key} ELSE keys \ {r.key}
    IN  /\ phase = "session" /\ request_rx # <<>> /\ r.t = "Input"
        /\ request_rx' = Tail(request_rx)
        /\ handles' = handles \cup {r.addr}
        /\ created' = IF new THEN created \cup {r.addr} ELSE created
        /\ pressed_keys' = Set(r.addr, after)
        /\ down' = IF changed /\ ~CancelHangs THEN BackendDown(r.key, r.state) ELSE down
        /\ repeat' = IF changed /\ ~CancelHangs THEN BackendRepeat(r.key, r.state) ELSE repeat
        /\ fresh' = (Tail(request_rx) # <<>>
                     /\ (fresh \/ (changed /\ r.state = 1 /\ Backend # "linux")))
        /\ phase' = IF changed /\ CancelHangs THEN "hung" ELSE phase
        /\ UNCHANGED <<emulation_active, exit_requested, event_rx>>

\* The backend fails to consume an event: the session ends with the error
\* and with it the compositor's virtual keyboard.
SessionFails ==
    /\ Backend = "linux"
    /\ phase = "session" /\ request_rx # <<>>
    /\ Head(request_rx).t = "Input"
    /\ request_rx' = Tail(request_rx)
    /\ handles' = handles \cup {Head(request_rx).addr}
    /\ phase' = IF exit_requested THEN "exited" ELSE "idle"
    /\ created' = {} /\ pressed_keys' = [a \in Addr |-> {}]
    /\ down' = {} /\ repeat' = {}
    /\ GuardDropped
    /\ UNCHANGED <<emulation_active, exit_requested, fresh>>

\* Remove: InputEmulation::destroy releases the keys of the handle.
SessionRemove ==
    LET a == Head(request_rx).addr
        keys == pressed_keys[a]
    IN  /\ phase = "session" /\ request_rx # <<>>
        /\ Head(request_rx).t = "Remove"
        /\ request_rx' = Tail(request_rx)
        /\ handles' = handles \ {a}
        /\ pressed_keys' = Set(a, {})
        /\ IF CancelHangs /\ keys # {}
           THEN phase' = "hung" /\ UNCHANGED <<created, down, repeat>>
           ELSE /\ phase' = phase
                /\ created' = created \ {a}
                /\ down' = ReleaseDown(keys)
                /\ repeat' = ReleaseRepeat(keys)
        /\ fresh' = StillFresh(request_rx')
        /\ UNCHANGED <<emulation_active, exit_requested, event_rx>>

SessionTerminate ==
    /\ phase = "session" /\ request_rx # <<>> /\ Head(request_rx) = Terminate
    /\ request_rx' = Tail(request_rx)
    /\ EndSession
    /\ UNCHANGED <<emulation_active, exit_requested, handles, fresh>>

SessionReenable ==
    /\ phase = "session" /\ request_rx # <<>> /\ Head(request_rx) = Reenable
    /\ request_rx' = Tail(request_rx)
    /\ fresh' = StillFresh(request_rx')
    /\ UNCHANGED <<emulation_active, exit_requested, event_rx, phase, handles, created, pressed_keys, down, repeat>>

\* The inner loop of run, between two sessions.
Idle ==
    /\ phase = "idle" /\ request_rx # <<>>
    /\ request_rx' = Tail(request_rx)
    /\ phase' = CASE Head(request_rx) = Reenable -> "new"
                  [] Head(request_rx) = Terminate -> "exited"
                  [] OTHER -> "idle"
    /\ UNCHANGED <<emulation_active, exit_requested, event_rx, handles, created, pressed_keys, down, repeat, fresh>>

EmulationStep ==
    \/ CreateEmulation \/ CreateEmulationFails \/ WaitForTermination
    \/ SessionInput \/ SessionFails \/ SessionRemove \/ SessionTerminate
    \/ SessionReenable \/ Idle
=============================================================================
