----------------------------- MODULE Connection -----------------------------
(***************************************************************************)
(* The connection manager, src/src/connect.rs: dials, sessions, their      *)
(* supervisors, and the tables that say which session a client's input     *)
(* goes to.                                                                *)
(*                                                                         *)
(* All tasks run on one thread and no mutex is held across an await, so    *)
(* what a task does between two awaits is one step.  A connect_to_handle   *)
(* task that succeeds becomes the supervisor of its session and keeps its  *)
(* identity here; a supervisor that redials does so too.                   *)
(***************************************************************************)
EXTENDS Integers, FiniteSets

CONSTANTS
    Client,        \* handles of clients
    Ip, Port,      \* the addresses of other machines
    HostIps,       \* the addresses a client can be configured with or resolved to
    Task,          \* bound: connect_to_handle tasks and supervisors that exist at once
    None,
    Reasons,       \* the reasons for which connections end by themselves
    Edits,         \* the kinds of configuration changes the user makes
    StreamErrors   \* whether a stream may fail although its connection is open

ASSUME ConnectionAssumption ==
    /\ None \notin Task \cup Client
    /\ None \notin Ip \X Port
    /\ HostIps \in [Client -> SUBSET Ip]
    /\ Reasons \subseteq {"TimedOut", "WakeCode", "PeerClosed", "LocallyClosed"}
    /\ Edits \subseteq {"hostname", "ips", "port", "remove"}
    /\ StreamErrors \in BOOLEAN

Addr == Ip \X Port

VARIABLES
    registered,    \* handles in the ClientManager
    ips,           \* ClientState.ips
    port,          \* ClientConfig.port
    active_addr,   \* ClientState.active_addr
    peers,         \* the session at an address, by its task
    connecting,    \* clients that dial() and send() believe are being dialled
    backing_off,   \* clients with a RetryState whose next_attempt_at is in the future
    task,          \* connect_to_handle and supervisor tasks
    sending        \* a send() that waits for its stream: client, address and session,
                   \* which is None once its supervisor has ended

clientVars == <<registered, ips, port>>

vars == <<clientVars, active_addr, peers, connecting, backing_off, task, sending>>

(* why a connection ended: quinn's ConnectionError, where Watchdog is a        *)
(* LocallyClosed whose close was made by pong_health_watchdog                  *)
Reason == Reasons \cup {"Watchdog"}

(* addrs: the candidates of a dial, the remote address of a session *)
TaskIn(phase, c, addrs, reason) == [phase |-> phase, client |-> c, addrs |-> addrs, reason |-> reason]

Free == TaskIn("free", None, {}, None)

TaskState ==
    {Free}
    \cup [phase : {"spawned"}, client : Client, addrs : {{}}, reason : {None}]
    \cup [phase : {"dial"}, client : Client, addrs : SUBSET Addr, reason : {None}]
    \cup [phase : {"up"}, client : Client, addrs : {{a} : a \in Addr}, reason : {None}]
    \cup [phase : {"closed"}, client : Client, addrs : {{a} : a \in Addr}, reason : Reason]

Sends == [client : Client, addr : Addr, task : Task \cup {None}]

TypeOK ==
    /\ registered \subseteq Client
    /\ ips \in [Client -> SUBSET Ip]
    /\ port \in [Client -> Port]
    /\ active_addr \in [Client -> Addr \cup {None}]
    /\ peers \in [Addr -> Task \cup {None}]
    /\ connecting \subseteq Client
    /\ backing_off \subseteq Client
    /\ task \in [Task -> TaskState]
    /\ sending \in Sends \cup {None}

Init ==
    /\ registered = Client
    /\ ips = HostIps
    /\ port \in [Client -> Port]
    /\ active_addr = [c \in Client |-> None]
    /\ peers = [a \in Addr |-> None]
    /\ connecting = {}
    /\ backing_off = {}
    /\ task = [t \in Task |-> Free]
    /\ sending = None

-----------------------------------------------------------------------------
(* ClientManager::set_active_addr, which ignores a handle that is gone *)
set_active_addr(c, a) ==
    active_addr' = IF c \in registered THEN [active_addr EXCEPT ![c] = a] ELSE active_addr

record_retry_failure(c) == backing_off' = backing_off \cup {c}

(* spawn_local(connect_to_handle(c)) *)
Spawned(c) == TaskIn("spawned", c, {}, None)

(* the second half of send(), and all of dial() *)
DialUnlessWaiting(c) ==
    /\ c \notin backing_off
    /\ c \notin connecting
    /\ connecting' = connecting \cup {c}
    /\ \E t \in Task :
        /\ task[t] = Free
        /\ task' = [task EXCEPT ![t] = Spawned(c)]

-----------------------------------------------------------------------------
(* The capture task's calls.  It makes one at a time.                         *)

dial(c) ==
    /\ sending = None
    /\ DialUnlessWaiting(c)
    /\ UNCHANGED <<clientVars, active_addr, peers, backing_off, sending>>

HasPeer(c) == active_addr[c] # None /\ peers[active_addr[c]] # None

(* mutated: any session will do *)
SendStartsAnywhere(c) ==
    /\ sending = None
    /\ HasPeer(c)
    /\ \E a \in Addr :
        /\ peers[a] # None
        /\ sending' = [client |-> c, addr |-> a, task |-> peers[a]]
    /\ UNCHANGED <<clientVars, active_addr, peers, connecting, backing_off, task>>

SendStarts(c) ==
    /\ sending = None
    /\ HasPeer(c)
    /\ sending' = [client |-> c, addr |-> active_addr[c], task |-> peers[active_addr[c]]]
    /\ UNCHANGED <<clientVars, active_addr, peers, connecting, backing_off, task>>

(* the connection of the session that is being sent to is open *)
SessionOpen == sending.task # None /\ task[sending.task].phase = "up"

SendSucceeds ==
    /\ sending # None
    /\ SessionOpen
    /\ sending' = None
    /\ UNCHANGED <<clientVars, active_addr, peers, connecting, backing_off, task>>

(* mutated: the address stays active when its session is dropped *)
SendFailsKeepsAddress ==
    /\ sending # None
    /\ StreamErrors \/ ~SessionOpen
    /\ peers' = [peers EXCEPT ![sending.addr] = None]
    /\ sending' = None
    /\ UNCHANGED <<clientVars, active_addr, connecting, backing_off, task>>

SendFails ==
    /\ sending # None
    /\ StreamErrors \/ ~SessionOpen
    /\ peers' = [peers EXCEPT ![sending.addr] = None]
    /\ set_active_addr(sending.client, None)
    /\ sending' = None
    /\ UNCHANGED <<clientVars, connecting, backing_off, task>>

SendDials(c) ==
    /\ sending = None
    /\ ~HasPeer(c)
    /\ DialUnlessWaiting(c)
    /\ UNCHANGED <<clientVars, active_addr, peers, backing_off, sending>>

-----------------------------------------------------------------------------
(* connect_to_handle.                                                         *)

(* mutated: a client without an address stays in connecting *)
ConnectStartsForgetsConnecting(t) ==
    /\ task[t].phase = "spawned"
    /\ LET c == task[t].client IN
        task' = [task EXCEPT ![t] =
            IF c \notin registered \/ ips[c] = {} THEN Free
            ELSE TaskIn("dial", c, ips[c] \X {port[c]}, None)]
    /\ UNCHANGED <<clientVars, connecting, active_addr, peers, backing_off, sending>>

ConnectStarts(t) ==
    /\ task[t].phase = "spawned"
    /\ LET c == task[t].client IN
        \/ /\ c \in registered /\ ips[c] # {}
           /\ task' = [task EXCEPT ![t] = TaskIn("dial", c, ips[c] \X {port[c]}, None)]
           /\ UNCHANGED connecting
        \/ /\ c \notin registered \/ ips[c] = {}
           /\ task' = [task EXCEPT ![t] = Free]
           /\ connecting' = connecting \ {c}
    /\ UNCHANGED <<clientVars, active_addr, peers, backing_off, sending>>

(* dial_any or client_hello fails *)
DialFails(t) ==
    /\ task[t].phase = "dial"
    /\ record_retry_failure(task[t].client)
    /\ connecting' = connecting \ {task[t].client}
    /\ task' = [task EXCEPT ![t] = Free]
    /\ UNCHANGED <<clientVars, active_addr, peers, sending>>

(* mutated: the session is not entered in the table *)
DialSucceedsUnregistered(t, a) ==
    /\ task[t].phase = "dial"
    /\ a \in task[t].addrs
    /\ LET c == task[t].client IN
        /\ set_active_addr(c, a)
        /\ connecting' = connecting \ {c}
        /\ backing_off' = backing_off \ {c}
        /\ task' = [task EXCEPT ![t] = TaskIn("up", c, {a}, None)]
    /\ UNCHANGED <<clientVars, peers, sending>>

DialSucceeds(t, a) ==
    /\ task[t].phase = "dial"
    /\ a \in task[t].addrs
    /\ LET c == task[t].client IN
        /\ set_active_addr(c, a)
        /\ peers' = [peers EXCEPT ![a] = t]
        /\ connecting' = connecting \ {c}
        /\ backing_off' = backing_off \ {c}
        /\ task' = [task EXCEPT ![t] = TaskIn("up", c, {a}, None)]
    /\ UNCHANGED <<clientVars, sending>>

BackoffExpires(c) ==
    /\ c \in backing_off
    /\ backing_off' = backing_off \ {c}
    /\ UNCHANGED <<clientVars, active_addr, peers, connecting, task, sending>>

-----------------------------------------------------------------------------
(* Sessions and their supervisors.                                            *)

Closes(t, reason) ==
    /\ task[t].phase = "up"
    /\ task' = [task EXCEPT ![t] = TaskIn("closed", task[t].client, task[t].addrs, reason)]
    /\ UNCHANGED <<clientVars, active_addr, peers, connecting, backing_off, sending>>

(* the network, the peer, or a reader of this session that ends; the latter    *)
(* is reported as LocallyClosed by PeerSession::run                            *)
ConnectionCloses(t) == \E reason \in Reasons : Closes(t, reason)

(* pong_health_watchdog closes the connection *)
PongTimeout(t) == Closes(t, "Watchdog")

should_retry_after_close(reason) == reason \in {"TimedOut", "WakeCode"}

(* a send() that holds the session of t will see it dead *)
DropSession(t) ==
    sending' = IF sending # None /\ sending.task = t THEN [sending EXCEPT !.task = None] ELSE sending

(* redials at once, and without entering connecting, or is done *)
RedialOrEnd(t) ==
    \/ /\ should_retry_after_close(task[t].reason)
       /\ record_retry_failure(task[t].client)
       /\ task' = [task EXCEPT ![t] = Spawned(task[t].client)]
    \/ /\ ~should_retry_after_close(task[t].reason)
       /\ task' = [task EXCEPT ![t] = Free]
       /\ UNCHANGED backing_off

(* mutated: the dead session stays in the table *)
SupervisorEndsKeepsPeer(t) ==
    /\ task[t].phase = "closed"
    /\ set_active_addr(task[t].client, None)
    /\ RedialOrEnd(t)
    /\ DropSession(t)
    /\ UNCHANGED <<clientVars, peers, connecting>>

(* spawn_peer_supervisor after peer.run(): the entry at the address is removed *)
(* and the client's address cleared whichever session they are about           *)
SupervisorEnds(t) ==
    /\ task[t].phase = "closed"
    /\ peers' = [a \in Addr |-> IF a \in task[t].addrs THEN None ELSE peers[a]]
    /\ set_active_addr(task[t].client, None)
    /\ RedialOrEnd(t)
    /\ DropSession(t)
    /\ UNCHANGED <<clientVars, connecting>>

-----------------------------------------------------------------------------
(* Changes of the configuration, while dials and sessions go on.              *)

ConfigVars == <<peers, connecting, backing_off, task, sending>>

(* set_hostname: another host, whose addresses are not known yet; the client's *)
(* fixed addresses, if the user has given it some, stay                        *)
SetHostname(c) ==
    /\ "hostname" \in Edits
    /\ c \in registered
    /\ active_addr' = [active_addr EXCEPT ![c] = None]
    /\ \E fixed \in SUBSET ips[c] :
        /\ fixed = {} \/ "ips" \in Edits
        /\ ips' = [ips EXCEPT ![c] = fixed]
    /\ UNCHANGED <<registered, port, ConfigVars>>

(* set_dns_ips and set_fix_ips *)
SetIps(c) ==
    /\ c \in registered
    /\ "ips" \in Edits \/ ips[c] = {}
    /\ \E new \in SUBSET HostIps[c] : ips' = [ips EXCEPT ![c] = new]
    /\ UNCHANGED <<registered, port, active_addr, ConfigVars>>

(* set_port moves the active address to the new port, without a session there *)
SetPort(c) ==
    /\ "port" \in Edits
    /\ c \in registered
    /\ \E p \in Port \ {port[c]} :
        /\ port' = [port EXCEPT ![c] = p]
        /\ active_addr' = [active_addr EXCEPT ![c] = IF @ = None THEN None ELSE <<@[1], p>>]
    /\ UNCHANGED <<registered, ips, ConfigVars>>

RemoveClient(c) ==
    /\ "remove" \in Edits
    /\ c \in registered
    /\ registered' = registered \ {c}
    /\ active_addr' = [active_addr EXCEPT ![c] = None]
    /\ ips' = [ips EXCEPT ![c] = {}]
    /\ UNCHANGED <<port, ConfigVars>>

(* add_client: the slab hands out the handle again *)
AddClient(c) ==
    /\ c \notin registered
    /\ registered' = registered \cup {c}
    /\ UNCHANGED <<ips, port, active_addr, ConfigVars>>

-----------------------------------------------------------------------------
Capture == (\E c \in Client : dial(c) \/ SendStarts(c) \/ SendDials(c)) \/ SendSucceeds \/ SendFails

Tasks == \E t \in Task :
    \/ ConnectStarts(t)
    \/ DialFails(t)
    \/ \E a \in Addr : DialSucceeds(t, a)
    \/ ConnectionCloses(t)
    \/ PongTimeout(t)
    \/ SupervisorEnds(t)

Edit == \E c \in Client :
    SetHostname(c) \/ SetIps(c) \/ SetPort(c) \/ RemoveClient(c) \/ AddClient(c)

Next ==
    \/ Capture
    \/ Tasks
    \/ \E c \in Client : BackoffExpires(c)
    \/ Edit

Spec == Init /\ [][Next]_vars

(* Fairness.  Tasks that can run do (WF), time passes (WF), the user keeps      *)
(* trying to reach the client, whose send() dials (SF), and the client's host   *)
(* is reachable: a dial that is tried again and again succeeds (SF).            *)
Fairness ==
    /\ \A t \in Task :
        /\ WF_vars(ConnectStarts(t))
        /\ WF_vars(SupervisorEnds(t))
        /\ WF_vars(DialFails(t) \/ \E a \in Addr : DialSucceeds(t, a))
    /\ \A c \in Client :
        /\ SF_vars(SendDials(c))
        /\ SF_vars(\E t \in Task, a \in Addr : task[t].client = c /\ DialSucceeds(t, a))
        /\ WF_vars(BackoffExpires(c))
    /\ WF_vars(SendSucceeds \/ SendFails)

LiveSpec == Spec /\ Fairness

-----------------------------------------------------------------------------
(* Properties.                                                                *)

(* connecting never blocks a client for good: while a handle is in the set, a *)
(* connect_to_handle task that will take it out is running.                   *)
ConnectingHasDial == \A c \in connecting :
    \E t \in Task : task[t].client = c /\ task[t].phase \in {"spawned", "dial"}

(* Every session in the peers table has a supervisor that is still running,   *)
(* so that the death of the session will be noticed and the entry removed.    *)
PeersAreSupervised == \A a \in Addr :
    peers[a] # None => task[peers[a]].phase \in {"up", "closed"} /\ task[peers[a]].addrs = {a}

(* While clients have addresses of their own and keep their ports, a client   *)
(* with an active address has a session there that was dialled for it: send() *)
(* does not write to another client's session.                                *)
ActiveHasSession == \A c \in Client :
    active_addr[c] # None => HasPeer(c) /\ task[peers[active_addr[c]]].client = c

(* With addresses of their own, clients never get each other's input, even     *)
(* when set_port has moved active_addr away from the session it was set for:  *)
(* the session that send() writes to was dialled for the client it sends for. *)
SendsToOwnSession ==
    sending # None /\ sending.task # None => task[sending.task].client = sending.client

(* every task of the bound is in use, so that send() could not spawn one *)
Exhausted == \A t \in Task : task[t] # Free

(* A client whose host is reachable has a session again and again, whatever   *)
(* ends its sessions, in whatever order the supervisors of old and new        *)
(* sessions clean up, and though its port changes (connect_to_handle and      *)
(* spawn_peer_supervisor).                                                    *)
Reconnects == \A c \in Client : []<>(HasPeer(c) \/ Exhausted)

-----------------------------------------------------------------------------
(* Statements of the repository that the model refutes.                       *)

(* "The supervisor's redial branch already handles this reason and schedules  *)
(* a fresh dial" (connect.rs:1673), of a connection the pong watchdog closed. *)
WatchdogCloseRedials == [][\A t \in Task :
    task[t].reason = "Watchdog" /\ task'[t].phase # "closed" => task'[t].phase = "spawned"]_vars
=============================================================================
