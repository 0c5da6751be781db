------------------------------ MODULE Frontend ------------------------------
(***************************************************************************)
(* The way from the daemon to the page in the browser and back: the        *)
(* events the service queues for its frontends (src/service.rs), the       *)
(* socket they are written to (lan-mouse-ipc/src/listen.rs), the bridge    *)
(* and the event bus of the web server (src/web.rs), the WebSocket         *)
(* (lan-mouse-vue/src/api/ipc.ts), the store (store/index.ts) and the      *)
(* drafts of the settings panel (GeneralPanel.vue).  The registry of the   *)
(* clients is the subject of module Registry; here a client is "off" or    *)
(* "on", and bound to a monitor that is there or not.  All the settings    *)
(* the daemon echoes as a whole are the record cfg of boolean fields.      *)
(***************************************************************************)
EXTENDS Naturals, Sequences, FiniteSets

CONSTANTS Handle,      \* client handles
          Field,       \* the fields of the settings panel
          MaxRequests, \* the bound on requests under way
          MaxQueue     \* the bound on events under way

VARIABLES
    clients,    \* the registry: "none", "off" or "on" for a handle
    present,    \* the monitors the clients are bound to are there
    cfg,        \* the settings as the service holds them
    pump,       \* the event pump of spawn_ipc_bridge is running
    open,       \* the WebSocket is open
    requests,   \* requests on their way to the service
    events,     \* events on their way to the page
    lagged,     \* the page lost events of the bus since the socket opened
    store,      \* the page's store: [clients, invalid, cfg]
    drafts,     \* the settings panel's local values
    dropped     \* the fields whose last change did not leave the page

feVars == <<clients, present, cfg, pump, open, requests, events, lagged, store,
            drafts, dropped>>

Settings == [Field -> BOOLEAN]
Placeholder == [f \in Field |-> TRUE]

FeInit ==
    /\ clients \in [Handle -> {"none", "on"}]
    /\ present = [h \in Handle |-> TRUE]
    /\ cfg \in Settings
    /\ pump = TRUE
    /\ open = FALSE
    /\ requests = <<>>
    /\ events = <<>>
    /\ lagged = FALSE
    /\ store = [clients |-> [h \in Handle |-> "none"], invalid |-> {}, cfg |-> Placeholder]
    /\ drafts = Placeholder
    /\ dropped = {}

----------------------------------------------------------------------------
(* The daemon                                                              *)

\* notify_frontend and broadcast.  An event reaches the page while the bridge
\* reads and a WebSocket is subscribed to the bus; a short write garbles the
\* line, which ends the pump.
Room(n) == Len(events) + n <= MaxQueue

Notify(es) ==
    \/ /\ events' = IF open /\ pump THEN events \o es ELSE events
       /\ pump' = pump
    \/ /\ pump /\ pump' = FALSE
       /\ UNCHANGED events

\* Service::sync_frontend
SyncEvents == << <<"Enumerate", clients>>, <<"Config", cfg>> >>

\* one request of the page
HandleRequest ==
    /\ requests # <<>>
    /\ requests' = Tail(requests)
    /\ LET r == Head(requests) IN
       \/ /\ r[1] = "Sync" /\ Room(2)
          /\ Notify(SyncEvents)
          /\ UNCHANGED <<clients, cfg>>
       \/ /\ r[1] = "SetClipboardConfig" /\ Room(1)
          /\ cfg' = r[2]
          /\ Notify(<< <<"Config", r[2]>> >>)
          /\ UNCHANGED clients
       \/ /\ r[1] = "Delete" /\ Room(1)
          /\ clients' = [clients EXCEPT ![r[2]] = "none"]
          /\ IF clients[r[2]] = "none"
             THEN UNCHANGED <<events, pump>>
             ELSE Notify(<< <<"Deleted", r[2]>> >>)
          /\ UNCHANGED cfg
    /\ UNCHANGED <<present, open, lagged, store, drafts, dropped>>

\* the same requests made through another frontend, the command line say
Toggle(h) ==
    /\ clients[h] # "none" /\ Room(1)
    /\ clients' = [clients EXCEPT ![h] = IF @ = "on" THEN "off" ELSE "on"]
    /\ Notify(<< <<"State", h, clients'[h]>> >>)
    /\ UNCHANGED <<present, cfg, open, requests, lagged, store, drafts, dropped>>

Create(h) ==
    /\ clients[h] = "none" /\ Room(1)
    /\ clients' = [clients EXCEPT ![h] = "off"]
    /\ Notify(<< <<"Created", h, "off">> >>)
    /\ UNCHANGED <<present, cfg, open, requests, lagged, store, drafts, dropped>>

SetElsewhere(c) ==
    /\ c # cfg /\ Room(1)
    /\ cfg' = c
    /\ Notify(<< <<"Config", c>> >>)
    /\ UNCHANGED <<clients, present, open, requests, lagged, store, drafts, dropped>>

\* AsyncFrontendListener::poll_next: a frontend that connects makes the service
\* send everything to every frontend
AnotherConnects ==
    /\ Room(2)
    /\ Notify(SyncEvents)
    /\ UNCHANGED <<clients, present, cfg, open, requests, lagged, store, drafts, dropped>>

\* reconcile_monitors_changed, detach_capture and reattach_capture: the binding
\* of an active client is reported when its monitor goes, and the client when
\* the monitor is back
MonitorGoes(h) ==
    /\ present[h] /\ Room(1)
    /\ present' = [present EXCEPT ![h] = FALSE]
    /\ IF clients[h] = "on" THEN Notify(<< <<"BindingInvalid", h>> >>)
                            ELSE UNCHANGED <<events, pump>>
    /\ UNCHANGED <<clients, cfg, open, requests, lagged, store, drafts, dropped>>

MonitorReturns(h) ==
    /\ ~present[h] /\ Room(1)
    /\ present' = [present EXCEPT ![h] = TRUE]
    /\ IF clients[h] = "on" THEN Notify(<< <<"State", h, "on">> >>)
                            ELSE UNCHANGED <<events, pump>>
    /\ UNCHANGED <<clients, cfg, open, requests, lagged, store, drafts, dropped>>

----------------------------------------------------------------------------
(* The page                                                                *)

\* DaemonSocket::connect, onopen
OpenRequests == << <<"Sync">> >>

Open ==
    /\ ~open /\ Len(requests) < MaxRequests
    /\ open' = TRUE
    /\ requests' = requests \o OpenRequests
    /\ lagged' = FALSE
    /\ UNCHANGED <<clients, present, cfg, pump, events, store, drafts, dropped>>

\* onclose: what is under way in the socket is lost, requests the server has
\* read already are not
Close ==
    /\ open
    /\ open' = FALSE
    /\ \E n \in 0..Len(requests) : requests' = SubSeq(requests, 1, n)
    /\ events' = <<>>
    /\ dropped' = dropped \cup {f \in Field : drafts[f] # store.cfg[f]}
    /\ UNCHANGED <<clients, present, cfg, pump, lagged, store, drafts>>

\* handle_socket's subscriber falls behind the bus
Lag ==
    /\ events # <<>>
    /\ events' = Tail(events)
    /\ lagged' = TRUE
    /\ UNCHANGED <<clients, present, cfg, pump, open, requests, store, drafts, dropped>>

\* mergeClient: a State event clears the mark of an invalid binding
InvalidAfterMerge(h) == store.invalid \ {h}

\* the watchers of the panel: a draft follows the stored field that changed
DraftsAfter(c) ==
    [f \in Field |-> IF c[f] # store.cfg[f] THEN c[f] ELSE drafts[f]]

\* applyEvent
ApplyEvent ==
    /\ open /\ events # <<>>
    /\ events' = Tail(events)
    /\ LET e == Head(events) IN
       \/ /\ e[1] \in {"Created", "State"}
          /\ store' = [store EXCEPT !.clients[e[2]] = e[3],
                                    !.invalid = InvalidAfterMerge(e[2])]
          /\ UNCHANGED <<drafts, dropped>>
       \/ /\ e[1] = "Deleted"
          /\ store' = [store EXCEPT !.clients[e[2]] = "none",
                                    !.invalid = @ \ {e[2]}]
          /\ UNCHANGED <<drafts, dropped>>
       \/ /\ e[1] = "Enumerate"
          /\ store' = [store EXCEPT !.clients = e[2], !.invalid = {}]
          /\ UNCHANGED <<drafts, dropped>>
       \/ /\ e[1] = "BindingInvalid"
          /\ store' = [store EXCEPT !.invalid =
                           IF store.clients[e[2]] = "none" THEN @ ELSE @ \cup {e[2]}]
          /\ UNCHANGED <<drafts, dropped>>
       \/ /\ e[1] = "Config"
          /\ store' = [store EXCEPT !.cfg = e[2]]
          /\ drafts' = DraftsAfter(e[2])
          /\ dropped' = {f \in dropped : e[2][f] = store.cfg[f]}
    /\ UNCHANGED <<clients, present, cfg, pump, open, requests, lagged>>

\* a change in the panel: commitClipboard sends all the drafts, and request
\* drops them when the socket is not open
ChangeField(f) ==
    /\ Len(requests) < MaxRequests
    /\ drafts' = [drafts EXCEPT ![f] = ~@]
    /\ requests' = IF open THEN Append(requests, <<"SetClipboardConfig", drafts'>>)
                           ELSE requests
    /\ dropped' = IF open THEN {} ELSE dropped \cup {f}
    /\ UNCHANGED <<clients, present, cfg, pump, open, events, lagged, store>>

ClickDelete(h) ==
    /\ open /\ store.clients[h] # "none" /\ Len(requests) < MaxRequests
    /\ requests' = Append(requests, <<"Delete", h>>)
    /\ UNCHANGED <<clients, present, cfg, pump, open, events, lagged, store, drafts, dropped>>

FeNext ==
    \/ HandleRequest \/ AnotherConnects \/ Open \/ Close \/ Lag \/ ApplyEvent
    \/ \E h \in Handle : \/ Toggle(h) \/ Create(h) \/ MonitorGoes(h)
                         \/ MonitorReturns(h) \/ ClickDelete(h)
    \/ \E c \in Settings : SetElsewhere(c)
    \/ \E f \in Field : ChangeField(f)

----------------------------------------------------------------------------
\* nothing is under way and nothing was lost since the page connected
Quiet == open /\ pump /\ ~lagged /\ requests = <<>> /\ events = <<>>

(* A connected page that has nothing left to receive shows the clients and *)
(* the settings the daemon has, whatever happened before it connected: the *)
(* Sync of DaemonSocket.connect makes up for every event the page missed.  *)
StoreAgrees == Quiet => store.clients = clients /\ store.cfg = cfg

(* The badge of an invalid binding never outlives the binding's recovery:  *)
(* reattach_capture's broadcast reaches mergeClient, which clears it.      *)
BadgeIsEarned == Quiet => \A h \in store.invalid : ~present[h]

(* The panel's drafts come to rest on the daemon's settings, so that the   *)
(* next commit does not undo a setting changed elsewhere.  The exception   *)
(* is a change the page could not send: no later echo of the same value    *)
(* corrects it.                                                            *)
DraftsSettle == Quiet => \A f \in Field \ dropped : drafts[f] = cfg[f]

----------------------------------------------------------------------------
(* diffClientConfigPatch: the requests one edit of a row amounts to.  A    *)
(* patch maps the edited fields to their values; "" stands for no value    *)
(* in a text field, and "null" for the daemon's None.                      *)

NullIfEmpty(v) == IF v = "" THEN "null" ELSE v

diffClientConfigPatch(current, patch) ==
    {<<f, patch[f]>> : f \in {g \in DOMAIN patch \cap {"port", "pos"} : patch[g] # current[g]}}
    \cup {<<"hostname", NullIfEmpty(patch[f])>> :
             f \in {g \in DOMAIN patch \cap {"hostname"} : patch[g] # current[g]}}
    \cup {<<"input_channels", patch[f]>> : f \in DOMAIN patch \cap {"input_channels"}}
    \cup {<<"monitor", NullIfEmpty(patch[f])>> :
             f \in {g \in DOMAIN patch \cap {"monitor"} : NullIfEmpty(patch[g]) # current[g]}}

\* what the client becomes once the daemon has handled the requests
AfterRequests(current, requested) ==
    [f \in DOMAIN current |->
        IF \E r \in requested : r[1] = f
        THEN (CHOOSE r \in requested : r[1] = f)[2]
        ELSE current[f]]

(* An edited row asks the daemon for exactly the edit: the client it then  *)
(* has is the shown one with the edited fields replaced, an emptied text   *)
(* field being no value.                                                   *)
EditIsApplied(current, patch) ==
    AfterRequests(current, diffClientConfigPatch(current, patch)) =
        [f \in DOMAIN current |->
            IF f \in DOMAIN patch
            THEN IF f \in {"hostname", "monitor"} THEN NullIfEmpty(patch[f]) ELSE patch[f]
            ELSE current[f]]

=============================================================================
