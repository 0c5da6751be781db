------------------------------ MODULE Registry ------------------------------
(* The client registry of the daemon (src/client.rs) and the handlers of     *)
(* src/service.rs that keep four things in step with it: the barriers of the *)
(* capture task, the configuration file, the frontends, and the last monitor *)
(* snapshot.  A client sits at one edge of the desktop, or at one edge of    *)
(* one monitor; at most one client may be active at a BarrierKey.            *)
(*                                                                           *)
(* Every handler of Service runs to its end before the capture task reads    *)
(* the Create and Destroy requests the handler queued, and the queue is      *)
(* FIFO, so the requests of a handler are applied as its last part.  The     *)
(* release profile aborts on a panic: a failed assertion of InputCapture     *)
(* ends the process, and only a restart follows.                             *)
EXTENDS Naturals, Sequences

CONSTANTS Handle,       \* slab slots, in slab order
          Position,     \* the edges in use
          DefaultPosition,
          Monitor,      \* monitor ids
          Geometry,     \* position and size of a monitor
          None          \* Option::None

ASSUME RegistryAssumption ==
    /\ Handle \subseteq Nat
    /\ DefaultPosition \in Position
    /\ None \notin Monitor
    /\ None \notin [pos : Position, monitor : Monitor \union {None}, active : BOOLEAN]
    /\ None \notin UNION {[S -> Geometry] : S \in SUBSET Monitor}

VARIABLES
    clients,        \* ClientManager.clients: the slab
    captures,       \* CaptureTask.captures: the barriers requested for a handle
    enabled,        \* a capture session runs: id_map mirrors captures
    last_monitors,  \* Service.last_monitors
    config,         \* the clients of config.toml
    told,           \* the clients as the frontends have been told
    crash           \* the assertion of InputCapture that ended the process

vars == <<clients, captures, enabled, last_monitors, config, told, crash>>

Client == [pos : Position, monitor : Monitor \union {None}, active : BOOLEAN]
Slab == [Handle -> Client \union {None}]
BarrierKey == Position \X (Monitor \union {None})
Snapshot == UNION {[S -> Geometry] : S \in SUBSET Monitor}

MkClient(p, m, a) == [pos |-> p, monitor |-> m, active |-> a]
Registered(cs) == {h \in Handle : cs[h] # None}
active_clients(cs) == {h \in Registered(cs) : cs[h].active}
get_key(cs, h) == <<cs[h].pos, cs[h].monitor>>
SetActive(c, a) == MkClient(c.pos, c.monitor, a)

(* the other active clients at the key of h: client_at, then deactivate *)
client_at(cs, h) ==
    {o \in active_clients(cs) \ {h} : get_key(cs, o) = get_key(cs, h)}

(* the registry after activate_client(h) *)
Activated(cs, h) ==
    [x \in Handle |-> IF x = h THEN SetActive(cs[x], TRUE)
                      ELSE IF x \in client_at(cs, h) THEN SetActive(cs[x], FALSE)
                      ELSE cs[x]]

(* The clients of a configuration after activate_client has run on each     *)
(* active one in slab order: of those at one key the last stays active.     *)
Restored(cfg) ==
    [h \in Handle |->
        IF cfg[h] = None THEN None
        ELSE SetActive(cfg[h], /\ cfg[h].active
                               /\ \A later \in client_at(cfg, h) : later < h)]

NoClients == [h \in Handle |-> None]

-----------------------------------------------------------------------------
(* The requests of one handler at the capture task: the barriers of         *)
(* `destroys` go, then those of `creates` come with the keys they have in   *)
(* cs.  In a running session InputCapture::create asserts that the handle   *)
(* has no barrier and InputCapture::destroy expects one; without a session  *)
(* the list of captures takes any request.                                  *)
Requests(destroys, creates, cs) ==
    /\ captures' = [h \in Handle |->
            LET left == IF h \in destroys THEN <<>> ELSE captures[h]
            IN  IF h \in creates THEN Append(left, get_key(cs, h)) ELSE left]
    /\ crash' = IF enabled /\ \E h \in destroys : captures[h] = <<>> THEN "destroy"
                ELSE IF enabled /\ \E h \in creates \ destroys : captures[h] # <<>> THEN "create"
                ELSE "no"

(* broadcast_client for each of hs, with the state it has in cs *)
Broadcast(hs, cs) == told' = [h \in Handle |-> IF h \in hs THEN cs[h] ELSE told[h]]

(* Config::set_clients keeps the old list when there is no client left *)
save_config == config' = IF clients' = NoClients THEN config ELSE clients'

(* mutated: the request is not written back *)
RequestUnsaved(cs, destroys, creates, notified) ==
    /\ crash = "no"
    /\ clients' = cs
    /\ Requests(destroys, creates, cs)
    /\ Broadcast(notified, cs)
    /\ UNCHANGED <<enabled, last_monitors, config>>

(* the part every frontend request shares *)
Request(cs, destroys, creates, notified) ==
    /\ crash = "no"
    /\ clients' = cs
    /\ Requests(destroys, creates, cs)
    /\ Broadcast(notified, cs)
    /\ save_config
    /\ UNCHANGED <<enabled, last_monitors>>

AddClient(h) ==
    /\ h \notin Registered(clients)
    /\ Request([clients EXCEPT ![h] = MkClient(DefaultPosition, None, FALSE)], {}, {}, {h})

RemoveClient(h) ==
    /\ h \in Registered(clients)
    /\ Request([clients EXCEPT ![h] = None], active_clients(clients) \intersect {h}, {}, {h})

(* activate_client; of an active client it changes nothing *)
ActivateClient(h) ==
    /\ h \in Registered(clients)
    /\ Request(Activated(clients, h), client_at(clients, h), {h} \ active_clients(clients),
               {h} \union client_at(clients, h))

DeactivateClient(h) ==
    /\ h \in active_clients(clients)
    /\ Request([clients EXCEPT ![h] = SetActive(@, FALSE)], {h}, {}, {h})

(* update_pos and update_monitor: an active client is deactivated and       *)
(* activated at its new key                                                 *)
Rebind(h, c) ==
    /\ h \in Registered(clients)
    /\ get_key(clients, h) # <<c.pos, c.monitor>>
    /\ LET moved == [clients EXCEPT ![h] = c]
       IN  IF h \in active_clients(clients)
           THEN Request(Activated(moved, h), {h} \union client_at(moved, h), {h},
                        {h} \union client_at(moved, h))
           ELSE Request(moved, {}, {}, {h})

UpdatePos(h, p) ==
    h \in Registered(clients) /\ Rebind(h, MkClient(p, clients[h].monitor, clients[h].active))

UpdateMonitor(h, m) ==
    h \in Registered(clients) /\ Rebind(h, MkClient(clients[h].pos, m, clients[h].active))

SaveConfiguration == Request(clients, {}, {}, {})

(* handle_config_change: config.toml was edited; every client is removed    *)
(* and the listed ones are added and activated                              *)
ConfigChange(cfg) ==
    /\ crash = "no"
    /\ cfg # config
    /\ config' = cfg
    /\ clients' = Restored(cfg)
    /\ Requests(active_clients(clients), active_clients(clients'), clients')
    /\ told' = clients'
    /\ UNCHANGED <<enabled, last_monitors>>

-----------------------------------------------------------------------------
(* reconcile_monitors_changed *)
BoundTo(S) == {h \in active_clients(clients) : clients[h].monitor \in S}
Detached(old, new) == BoundTo(DOMAIN old \ DOMAIN new)

(* mutated: a monitor that comes back is not looked at *)
ReattachedNever(old, new) == {}

Reattached(old, new) == BoundTo(DOMAIN new \ DOMAIN old)
Recreated(old, new) ==
    {h \in BoundTo(DOMAIN old \intersect DOMAIN new) : old[clients[h].monitor] # new[clients[h].monitor]}

(* ICaptureEvent::MonitorsChanged.  The first snapshot is only stored; the  *)
(* geometry round trip of deactivate_client and activate_client displaces   *)
(* nobody, for no two active clients share a key.                           *)
MonitorsChanged(new) ==
    /\ crash = "no"
    /\ last_monitors' = new
    /\ IF last_monitors = None
       THEN UNCHANGED <<captures, crash, told>>
       ELSE /\ Requests(Detached(last_monitors, new) \union Recreated(last_monitors, new),
                        Reattached(last_monitors, new) \union Recreated(last_monitors, new), clients)
            /\ Broadcast(Reattached(last_monitors, new) \union Recreated(last_monitors, new), clients)
    /\ UNCHANGED <<clients, enabled, config>>

(* the capture session ends with an error of the backend *)
SessionEnds ==
    /\ crash = "no"
    /\ enabled
    /\ enabled' = FALSE
    /\ UNCHANGED <<clients, captures, last_monitors, config, told, crash>>

(* EnableCapture: do_capture creates the listed captures in a new session *)
Reenable ==
    /\ crash = "no"
    /\ ~enabled
    /\ enabled' = TRUE
    /\ crash' = IF \E h \in Handle : Len(captures[h]) > 1 THEN "create" ELSE "no"
    /\ UNCHANGED <<clients, captures, last_monitors, config, told>>

Started(cfg) ==
    /\ clients = Restored(cfg)
    /\ captures = [h \in Handle |-> IF h \in active_clients(clients) THEN <<get_key(clients, h)>> ELSE <<>>]
    /\ enabled = TRUE
    /\ last_monitors = None
    /\ config = cfg
    /\ told = clients
    /\ crash = "no"

(* The process starts again, after a crash or not: Service::run activates   *)
(* the clients of the file and the frontends reconnect and synchronise.     *)
Restart ==
    /\ clients' = Restored(config)
    /\ captures' = [h \in Handle |->
            IF h \in active_clients(clients') THEN <<get_key(clients', h)>> ELSE <<>>]
    /\ enabled' = TRUE
    /\ last_monitors' = None
    /\ told' = clients'
    /\ crash' = "no"
    /\ UNCHANGED config

Init == \E cfg \in Slab : Started(cfg)

Next ==
    \/ \E h \in Handle :
        \/ AddClient(h)
        \/ RemoveClient(h)
        \/ ActivateClient(h)
        \/ DeactivateClient(h)
        \/ \E p \in Position : UpdatePos(h, p)
        \/ \E m \in Monitor \union {None} : UpdateMonitor(h, m)
    \/ SaveConfiguration
    \/ \E cfg \in Slab : ConfigChange(cfg)
    \/ \E new \in Snapshot : MonitorsChanged(new)
    \/ SessionEnds
    \/ Reenable
    \/ Restart

Spec == Init /\ [][Next]_vars

-----------------------------------------------------------------------------
TypeOK ==
    /\ clients \in Slab
    /\ captures \in [Handle -> Seq(BarrierKey)]
    /\ enabled \in BOOLEAN
    /\ last_monitors \in Snapshot \union {None}
    /\ config \in Slab
    /\ told \in Slab
    /\ crash \in {"no", "create", "destroy"}

(* At most one client is active at a BarrierKey: activate_client displaces  *)
(* the one that was, whichever of the requests, a configuration reload, a   *)
(* restart or a geometry change led to the activation.                      *)
OneClientPerKey ==
    \A g, h \in active_clients(clients) :
        get_key(clients, g) = get_key(clients, h) => g = h

(* Until the process ends, every barrier the capture task holds is one of   *)
(* an active client, at the key that client has now: no handler leaves a    *)
(* barrier behind that would send the cursor to a client that has moved,    *)
(* was switched off or is gone.                                             *)
BarriersBelong ==
    crash = "no" =>
        \A h \in Handle : captures[h] # <<>> =>
            /\ h \in active_clients(clients)
            /\ \A i \in DOMAIN captures[h] : captures[h][i] = get_key(clients, h)

(* Until the process ends, an active client has its barrier, unless its     *)
(* monitor is missing from the last snapshot: a detached client gets it     *)
(* back when the monitor does, whatever happened to it in between.          *)
ActiveIsCaptured ==
    crash = "no" =>
        \A h \in active_clients(clients) :
            \/ captures[h] # <<>>
            \/ last_monitors # None /\ clients[h].monitor # None
                                    /\ clients[h].monitor \notin DOMAIN last_monitors

(* The frontends show the registry as it is after every handler, displaced  *)
(* clients included.                                                        *)
FrontendUpToDate == told = clients

(* A restart brings back the clients the daemon had: what the file holds,   *)
(* activated in order, is the registry, except that the file never forgets  *)
(* the last client.                                                         *)
SavedIsCurrent == clients = NoClients \/ Restored(config) = clients

(* Registry and capture agree: a key belongs to one active client, and the  *)
(* barriers there are are those of the active clients.                      *)
BarriersAgree == OneClientPerKey /\ BarriersBelong /\ ActiveIsCaptured

(* What left the registry is what it holds: the frontends show it, and the  *)
(* configuration file brings it back.                                       *)
RegistryIsPublished == FrontendUpToDate /\ SavedIsCurrent

(* A barrier is never created twice: reattach_capture says the handle it    *)
(* creates a barrier for has certainly been detached before.                *)
NeverCreatedTwice == crash # "create"
=============================================================================
