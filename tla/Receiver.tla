------------------------------ MODULE Receiver ------------------------------
(***************************************************************************)
(* A receiving machine: the QUIC listener of src/listen.rs with one        *)
(* supervisor and its reader tasks per accepted connection, the ListenTask *)
(* of src/emulation.rs, and the part of src/service.rs that follows its    *)
(* events (incoming triggers and clipboard recipients).                    *)
(*                                                                         *)
(* A peer dials every connection from one endpoint, so a redial arrives    *)
(* from the same address: the sessions of an address a are <<a, 1>>,       *)
(* <<a, 2>>, ...  A connection is "open" until this machine's endpoint     *)
(* knows that it is closed, which may be long after the peer redialled;    *)
(* what arrived before can still be read then.  The streams and the        *)
(* datagrams of a session are not ordered among each other: a reader may   *)
(* find any frame next, and listen_rx orders what the readers found.       *)
(*                                                                         *)
(* Service takes the events of ListenTask in order and nothing else        *)
(* touches the state modelled here, so an event is handled when it is sent.*)
(***************************************************************************)
EXTENDS EmulationTask

CONSTANTS
    MaxSessions,  \* bound: connections per address
    Pos,          \* screen edges a peer may enter at
    Frame,        \* what may arrive on stream A
    ListenCap,    \* bound: events queued for ListenTask
    MaxTriggers,  \* bound: trigger handles ever allocated
    NoSession

\* Enter is named by its position.  "Bad" cannot be decoded, "Huge" announces
\* more than MAX_EVENT_SIZE, "Cut" ends the stream inside a frame and "Fin"
\* between two frames.
ASSUME FrameAssumption ==
    Frame \subseteq Pos \cup {"Ping", "Leave", "Hello", "Clip", "Bad", "Huge", "Cut", "Fin"}

VARIABLES
    conn,            \* state of the QUIC connection
    supervisor,      \* handle_quic_peer_supervisor of the session
    readers,         \* its datagram, accept and stream reader tasks run
    quic_conns,      \* LanMouseListener.quic_conns
    listen_rx,       \* queue of ListenEvents
    last_response,   \* addresses in ListenTask's last_response
    late,            \* those whose entry is older than one second
    fingerprints,    \* addresses in addr_to_fingerprint
    listen_task,     \* ListenTask.run
    incoming,        \* Service.incoming_conn_info: handle -> Incoming
    incoming_conns,  \* Service.incoming_conns
    triggers,        \* trigger handles created in the capture task
    next_trigger,    \* Service.next_trigger_handle
    clipboard_peers  \* addresses in Service.incoming_clipboard

listenVars   == <<conn, supervisor, readers, quic_conns>>
listenLocals == <<last_response, late, fingerprints, listen_task>>
incomingVars == <<incoming, incoming_conns, triggers, next_trigger>>
serviceVars  == <<incomingVars, clipboard_peers>>
vars == <<taskVars, listenVars, listen_rx, listenLocals, serviceVars>>

Session == Addr \X (1..MaxSessions)

Msg(a, f)        == [t |-> "Msg", addr |-> a, frame |-> f]
InputMsg(a, e)   == [t |-> "Input", addr |-> a, input |-> e]
Accept(a)        == [t |-> "Accept", addr |-> a]
Disconnected(a)  == [t |-> "Disconnected", addr |-> a]

ListenEvent == {Msg(a, f) : a \in Addr, f \in Frame}
               \cup {InputMsg(a, e) : a \in Addr, e \in InputEvent}
               \cup {Accept(a) : a \in Addr} \cup {Disconnected(a) : a \in Addr}

\* known: the Entered event carried a fingerprint, not the default "".
Incoming == [addr : Addr, pos : Pos, known : BOOLEAN]

TypeOK ==
    /\ TaskTypeOK
    /\ conn \in [Session -> {"free", "open", "closed"}]
    /\ supervisor \in [Session -> {"none", "hello", "run", "end"}]
    /\ readers \in [Session -> BOOLEAN]
    /\ quic_conns \in [Addr -> Session \cup {NoSession}]
    /\ listen_rx \in Seq(ListenEvent)
    /\ last_response \subseteq Addr /\ late \subseteq last_response
    /\ fingerprints \subseteq Addr
    /\ listen_task \in {"run", "terminating", "done"}
    /\ DOMAIN incoming \subseteq 0..(MaxTriggers - 1)
    /\ \A h \in DOMAIN incoming : incoming[h] \in Incoming
    /\ incoming_conns \subseteq Addr
    /\ triggers \subseteq 0..(MaxTriggers - 1) /\ next_trigger \in 0..MaxTriggers
    /\ clipboard_peers \subseteq Addr

Init ==
    /\ TaskInit
    /\ conn = [s \in Session |-> "free"]
    /\ supervisor = [s \in Session |-> "none"]
    /\ readers = [s \in Session |-> FALSE]
    /\ quic_conns = [a \in Addr |-> NoSession]
    /\ listen_rx = <<>>
    /\ last_response = {} /\ late = {} /\ fingerprints = {}
    /\ listen_task = "run"
    /\ incoming = [h \in {} |-> {}] /\ incoming_conns = {}
    /\ triggers = {} /\ next_trigger = 0
    /\ clipboard_peers = {}

----------------------------------------------------------------------------
(* The peer and the network. *)

\* The peer dials, having given up its earlier connections.
PeerDials(s) ==
    /\ listen_task = "run"
    /\ conn[s] = "free"
    /\ \A i \in 1..(s[2] - 1) : conn[<<s[1], i>>] # "free"
    /\ conn' = [conn EXCEPT ![s] = "open"]
    /\ supervisor' = [supervisor EXCEPT ![s] = "hello"]
    /\ UNCHANGED <<taskVars, readers, quic_conns, listen_rx, listenLocals, serviceVars>>

\* The endpoint learns that the peer is gone: a close frame or the idle timeout.
ConnectionCloses(s) ==
    /\ conn[s] = "open"
    /\ conn' = [conn EXCEPT ![s] = "closed"]
    /\ UNCHANGED <<taskVars, supervisor, readers, quic_conns, listen_rx, listenLocals, serviceVars>>

\* close() called by this side on the sessions of S.
LocallyClosed(S) ==
    conn' = [s \in Session |-> IF s \in S THEN "closed" ELSE conn[s]]

----------------------------------------------------------------------------
(* src/listen.rs *)

Push(e) ==
    /\ Len(listen_rx) < ListenCap
    /\ listen_rx' = Append(listen_rx, e)

\* server_hello succeeds: Accept is sent, the session registered (over any
\* session already there), the guard installed and the readers spawned.
HelloDone(s) ==
    /\ supervisor[s] = "hello" /\ conn[s] = "open"
    /\ Push(Accept(s[1]))
    /\ quic_conns' = [quic_conns EXCEPT ![s[1]] = s]
    /\ supervisor' = [supervisor EXCEPT ![s] = "run"]
    /\ readers' = [readers EXCEPT ![s] = TRUE]
    /\ UNCHANGED <<taskVars, conn, listenLocals, serviceVars>>

\* server_hello fails or no certificate was presented: the last owner of the
\* connection is dropped, which closes it.
HelloFails(s) ==
    /\ supervisor[s] = "hello"
    /\ supervisor' = [supervisor EXCEPT ![s] = "end"]
    /\ LocallyClosed({s})
    /\ UNCHANGED <<taskVars, readers, quic_conns, listen_rx, listenLocals, serviceVars>>

\* mutated: no guard removes the entry
SupervisorEndsRegistered(s) ==
    /\ supervisor' = [supervisor EXCEPT ![s] = "end"]
    /\ UNCHANGED quic_conns

\* The supervisor returns: QuicConnGuard removes whatever is registered for
\* the address.  The reader tasks still own the connection.
SupervisorEnds(s) ==
    /\ supervisor' = [supervisor EXCEPT ![s] = "end"]
    /\ quic_conns' = [quic_conns EXCEPT ![s[1]] = NoSession]

\* The next frame of stream A.
SupervisorRead(s, f) ==
    /\ supervisor[s] = "run"
    /\ CASE f = "Bad" -> UNCHANGED <<supervisor, quic_conns, listen_rx>>
         [] f \in {"Huge", "Fin"} -> SupervisorEnds(s) /\ UNCHANGED listen_rx
         [] f = "Cut" -> SupervisorEnds(s) /\ Push(Disconnected(s[1]))
         [] OTHER -> Push(Msg(s[1], f)) /\ UNCHANGED <<supervisor, quic_conns>>
    /\ UNCHANGED <<taskVars, conn, readers, listenLocals, serviceVars>>

\* read_frame fails because the connection is closed: the error is returned
\* without a Disconnected event.
SupervisorLosesConnection(s) ==
    /\ supervisor[s] = "run" /\ conn[s] = "closed"
    /\ SupervisorEnds(s)
    /\ UNCHANGED <<taskVars, conn, readers, listen_rx, listenLocals, serviceVars>>

\* An input event arrives: server_datagram_reader_task, server_accept_bi_task
\* for the first frame of stream B and server_stream_reader_task for the rest
\* pass it on.  (The accepting task also parks streams the peer never writes
\* to, answers HTTP/3 requests, and passes clipboard frames on as "Clip".)
ReadInput(s, e) ==
    /\ readers[s]
    /\ Push(InputMsg(s[1], e))
    /\ UNCHANGED <<taskVars, listenVars, listenLocals, serviceVars>>

\* The readers find the connection closed.
ReadersEnd(s) ==
    /\ conn[s] = "closed" /\ readers[s]
    /\ readers' = [readers EXCEPT ![s] = FALSE]
    /\ UNCHANGED <<taskVars, conn, supervisor, quic_conns, listen_rx, listenLocals, serviceVars>>

\* spawn_wake_task: after a sleep every registered connection is closed.
Wake ==
    /\ listen_task = "run"
    /\ LocallyClosed({quic_conns[a] : a \in Addr})
    /\ UNCHANGED <<taskVars, supervisor, readers, quic_conns, listen_rx, listenLocals, serviceVars>>

----------------------------------------------------------------------------
(* Service::handle_emulation_event *)

\* mutated: the trigger handle that is replaced stays
ReplaceIncomingKeepsOld(old, i) ==
    /\ next_trigger < MaxTriggers
    /\ next_trigger' = next_trigger + 1
    /\ triggers' = triggers \cup {next_trigger}
    /\ incoming' = [h \in DOMAIN incoming \cup {next_trigger} |->
                        IF h = next_trigger THEN i ELSE incoming[h]]
    /\ incoming_conns' = incoming_conns \cup {i.addr}

\* add_incoming after remove_incoming of the handles old.
ReplaceIncoming(old, i) ==
    /\ next_trigger < MaxTriggers
    /\ next_trigger' = next_trigger + 1
    /\ triggers' = (triggers \ old) \cup {next_trigger}
    /\ incoming' = [h \in (DOMAIN incoming \ old) \cup {next_trigger} |->
                        IF h = next_trigger THEN i ELSE incoming[h]]
    /\ incoming_conns' = incoming_conns \cup {i.addr}

\* Entered: add_incoming for a new address, update_incoming for a known one
\* (update_incoming finds one entry of the address).
PeerEntered(i) ==
    \/ /\ i.addr \notin incoming_conns
       /\ ReplaceIncoming({}, i)
    \/ /\ i.addr \in incoming_conns
       /\ \E h \in DOMAIN incoming :
             /\ incoming[h].addr = i.addr
             /\ IF incoming[h] = i THEN UNCHANGED incomingVars
                ELSE ReplaceIncoming({h}, i)

PeerConnected(a) == clipboard_peers' = clipboard_peers \cup {a}

\* The trigger is kept across a disconnect, the clipboard recipient is not.
PeersDisconnected(S) == clipboard_peers' = clipboard_peers \ S

----------------------------------------------------------------------------
(* ListenTask of src/emulation.rs.  reply() sends to quic_conns[addr] or   *)
(* drops the answer; nothing here depends on it.                           *)

Take(e) ==
    /\ listen_task = "run" /\ listen_rx # <<>> /\ e = Head(listen_rx)
    /\ listen_rx' = Tail(listen_rx)

Heard(a) ==
    /\ last_response' = last_response \cup {a}
    /\ late' = late \ {a}

TaskKeeps == UNCHANGED <<emulation_active, exit_requested, event_rx, phase,
                         handles, created, pressed_keys, down, repeat,
                         fresh>>

\* Enter: Entered with the fingerprint known for the address, if any.  (The
\* ReleaseNotify sent first is the release of module CaptureTask.)
TakeEnter(a, p) ==
    /\ Take(Msg(a, p)) /\ Heard(a)
    /\ PeerEntered([addr |-> a, pos |-> p, known |-> a \in fingerprints])
    /\ UNCHANGED <<taskVars, listenVars, fingerprints, listen_task, clipboard_peers>>

TakeLeave(a) ==
    /\ Take(Msg(a, "Leave")) /\ Heard(a)
    /\ ProxyRemove(a) /\ TaskKeeps
    /\ UNCHANGED <<listenVars, fingerprints, listen_task, serviceVars>>

\* Ping is answered with Pong, Hello with Hello, and clipboard frames are
\* handed to Service: all of them refresh last_response.
TakeOther(a, f) ==
    /\ f \in {"Ping", "Hello", "Clip"}
    /\ Take(Msg(a, f)) /\ Heard(a)
    /\ UNCHANGED <<taskVars, listenVars, fingerprints, listen_task, serviceVars>>

TakeInput(a, e) ==
    /\ Take(InputMsg(a, e)) /\ Heard(a)
    /\ ProxyConsume(e, a) /\ TaskKeeps
    /\ UNCHANGED <<listenVars, fingerprints, listen_task, serviceVars>>

TakeAccept(a) ==
    /\ Take(Accept(a))
    /\ fingerprints' = fingerprints \cup {a}
    /\ PeerConnected(a)
    /\ UNCHANGED <<taskVars, listenVars, last_response, late, listen_task, incomingVars>>

\* mutated: the emulation keeps the handle of the peer
TakeDisconnectedKeepsHandle(a) ==
    /\ Take(Disconnected(a))
    /\ fingerprints' = fingerprints \ {a}
    /\ last_response' = last_response \ {a} /\ late' = late \ {a}
    /\ PeersDisconnected({a})
    /\ UNCHANGED <<taskVars, listenVars, listen_task, incomingVars>>

TakeDisconnected(a) ==
    /\ Take(Disconnected(a))
    /\ fingerprints' = fingerprints \ {a}
    /\ last_response' = last_response \ {a} /\ late' = late \ {a}
    /\ ProxyRemove(a) /\ TaskKeeps
    /\ PeersDisconnected({a})
    /\ UNCHANGED <<listenVars, listen_task, incomingVars>>

\* An entry of last_response turns one second old.
Age(a) ==
    /\ listen_task = "run" /\ a \in last_response \ late
    /\ late' = late \cup {a}
    /\ UNCHANGED <<taskVars, listenVars, listen_rx, last_response, fingerprints,
                   listen_task, serviceVars>>

\* mutated: only the peers that are still registered are swept
SweepRegistered ==
    /\ listen_task = "run" /\ Len(request_rx) < RequestCap
    /\ \E a \in late :
          /\ quic_conns[a] # NoSession
          /\ request_rx' = Append(request_rx, Remove(a))
          /\ LocallyClosed({quic_conns[a]})
          /\ PeersDisconnected({a})
          /\ last_response' = last_response \ {a} /\ late' = late \ {a}
    /\ TaskKeeps
    /\ UNCHANGED <<supervisor, readers, quic_conns, listen_rx, fingerprints,
                   listen_task, incomingVars>>

\* The five-second tick: every address that has not been heard of for a
\* second is removed from the emulation and its connection closed.
Sweep ==
    /\ listen_task = "run" /\ late # {}
    /\ \E q \in [1..Cardinality(late) -> late] :
          /\ \A a \in late : \E i \in DOMAIN q : q[i] = a
          /\ Len(request_rx) + Len(q) <= RequestCap
          /\ request_rx' = request_rx \o [i \in DOMAIN q |-> Remove(q[i])]
    /\ LocallyClosed({quic_conns[a] : a \in late})
    /\ PeersDisconnected(late)
    /\ last_response' = last_response \ late /\ late' = {}
    /\ TaskKeeps
    /\ UNCHANGED <<supervisor, readers, quic_conns, listen_rx, fingerprints,
                   listen_task, incomingVars>>

\* The proxy's Enabled / Disabled event.
TakeProxyEvent ==
    /\ listen_task = "run"
    /\ ProxyEvent
    /\ UNCHANGED <<listenVars, listen_rx, listenLocals, serviceVars>>

\* EmulationRequest::Reenable, from a frontend.
RequestReenable ==
    /\ listen_task = "run"
    /\ Request(Reenable) /\ TaskKeeps
    /\ UNCHANGED <<listenVars, listen_rx, listenLocals, serviceVars>>

\* EmulationRequest::Terminate: the loop ends, the listener's tasks are
\* aborted, and ListenTask awaits EmulationTask.
RequestTerminate ==
    /\ listen_task = "run"
    /\ listen_task' = "terminating"
    /\ exit_requested' = TRUE
    /\ Request(Terminate)
    /\ UNCHANGED <<emulation_active, event_rx, phase, handles, created,
                   pressed_keys, down, repeat, fresh, listenVars, listen_rx,
                   last_response, late, fingerprints, serviceVars>>

TerminateDone ==
    /\ listen_task = "terminating" /\ phase = "exited"
    /\ listen_task' = "done"
    /\ UNCHANGED <<taskVars, listenVars, listen_rx, last_response, late,
                   fingerprints, serviceVars>>

----------------------------------------------------------------------------
\* What the session's tasks do of their own accord.
SessionStep(s) == SupervisorLosesConnection(s) \/ ReadersEnd(s)

\* What the peer makes them read.
Arrival(s) ==
    \/ HelloDone(s) \/ HelloFails(s)
    \/ \E f \in Frame : SupervisorRead(s, f)
    \/ \E e \in InputEvent : ReadInput(s, e)

ListenStep ==
    \/ \E a \in Addr :
          \/ \E p \in Pos : TakeEnter(a, p)
          \/ TakeLeave(a) \/ TakeAccept(a) \/ TakeDisconnected(a)
          \/ \E f \in Frame : TakeOther(a, f)
          \/ \E e \in InputEvent : TakeInput(a, e)
    \/ TakeProxyEvent

EmulationTaskStep ==
    EmulationStep /\ UNCHANGED <<listenVars, listen_rx, listenLocals, serviceVars>>

Next ==
    \/ \E s \in Session :
          \/ PeerDials(s) \/ ConnectionCloses(s)
          \/ Arrival(s) \/ SessionStep(s)
    \/ Wake \/ RequestReenable \/ RequestTerminate
    \/ ListenStep \/ Sweep \/ (\E a \in Addr : Age(a))
    \/ EmulationTaskStep \/ TerminateDone

Spec == Init /\ [][Next]_vars

\* Every task of the runtime goes on; last_response entries age and the tick
\* comes round.
Fairness ==
    /\ \A s \in Session : WF_vars(SessionStep(s))
    /\ WF_vars(ListenStep) /\ SF_vars(Sweep)
    /\ \A a \in Addr : WF_vars(Age(a))
    /\ WF_vars(EmulationTaskStep) /\ WF_vars(TerminateDone)

LiveSpec == Spec /\ Fairness

----------------------------------------------------------------------------
(* Safety *)

\* A session is registered in quic_conns only while its supervisor runs: no
\* reply, Leave or clipboard event is ever handed to a session whose reader
\* has returned, although a redial overwrites the entry and a guard removes
\* it without looking whose it is.
RegisteredIsSupervised ==
    \A a \in Addr : LET s == quic_conns[a]
                    IN  s # NoSession => s[1] = a /\ supervisor[s] = "run"

IsInput(i, a) == request_rx[i].t = "Input" /\ request_rx[i].addr = a

\* A key held down for a peer is released some day: the peer is in
\* last_response, where the sweep will find it, or a Remove that no later
\* input of the peer undoes is on its way to EmulationTask.
KeysAreWatched ==
    \A a \in Addr :
        \/ a \in last_response
        \/ pressed_keys[a] = {} /\ \A i \in DOMAIN request_rx : ~IsInput(i, a)
        \/ \E i \in DOMAIN request_rx :
              /\ request_rx[i] = Remove(a)
              /\ \A j \in DOMAIN request_rx : j > i => ~IsInput(j, a)

\* The operating system holds a key down, or repeats it, only while some peer
\* holds it: the key-ups of release_keys and the end of the repeat task miss
\* no key.
NoStuckKey == down \cup repeat \subseteq Pressed

\* Every incoming peer has exactly one trigger handle in the capture task, and
\* update_incoming's expect("no such client") never fails.
OneTriggerPerPeer ==
    /\ incoming_conns = {incoming[h].addr : h \in DOMAIN incoming}
    /\ triggers = DOMAIN incoming
    /\ \A g, h \in DOMAIN incoming : incoming[g].addr = incoming[h].addr => g = h

----------------------------------------------------------------------------
(* Liveness *)

Gone(a) == \A s \in Session : s[1] = a => conn[s] \in {"free", "closed"}

\* When a peer is gone for good, no key stays pressed for it: whatever its
\* readers still had to deliver, the sweep removes it in the end.
KeysAreReleased ==
    []<>(\A a \in Addr : Gone(a) /\ listen_task = "run" => pressed_keys[a] = {})
=============================================================================
