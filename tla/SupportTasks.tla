----------------------------- MODULE SupportTasks -----------------------------
(***************************************************************************)
(* Three small parts of the daemon that work beside the main loop: the DNS *)
(* resolver (src/src/dns.rs) with the way the service applies its answers, *)
(* the certificate and key files (src/src/crypto.rs) across crashes, and   *)
(* the thread that listens for a Mac waking up (src/src/macos_power.rs).   *)
(***************************************************************************)
EXTENDS Naturals, Sequences, SequencesExt

-----------------------------------------------------------------------------
(* The resolver.  Names stands for host names; the addresses a name        *)
(* resolves to are represented by the name itself.                         *)
CONSTANTS Client, Name, MaxPending
VARIABLES hostname,  \* per client: a sequence of at most one name
          dns_ips,   \* per client: the names its addresses were resolved from
          requests,  \* DnsResolver::request_tx
          tasks,     \* active_tasks: per client, the names being looked up
          events     \* DnsResolver::event_rx

dnsVars == <<hostname, dns_ips, requests, tasks, events>>

DnsInit ==
  /\ hostname = [c \in Client |-> <<>>]
  /\ dns_ips = [c \in Client |-> {}]
  /\ requests = <<>>
  /\ tasks = [c \in Client |-> {}]
  /\ events = <<>>

(* Service::resolve: only a client with a host name is looked up. *)
ResolveRequest(c, name) == IF name = <<>> THEN <<>> ELSE << <<c, name[1]>> >>

(* update_hostname: a changed name drops the resolved addresses.  A name   *)
(* that is cleared, like a client that is removed, asks for no lookup.     *)
UpdateHostname(c) ==
  \E name \in {<<>>} \cup {<<n>> : n \in Name} :
    /\ name # hostname[c]
    /\ Len(requests) < MaxPending
    /\ hostname' = [hostname EXCEPT ![c] = name]
    /\ dns_ips' = [dns_ips EXCEPT ![c] = {}]
    /\ requests' = requests \o ResolveRequest(c, name)
    /\ UNCHANGED <<tasks, events>>

(* ResolveDns of a front end and activate_client look the name up again. *)
ResolveDns(c) ==
  /\ Len(requests) < MaxPending
  /\ hostname[c] # <<>>
  /\ requests' = requests \o ResolveRequest(c, hostname[c])
  /\ UNCHANGED <<hostname, dns_ips, tasks, events>>


(* The earlier lookup of a client is aborted. *)
ReplacePrevious(c, name) == {name}

(* DnsTask::do_dns takes one request. *)
do_dns ==
  /\ requests # <<>>
  /\ Len(events) < MaxPending
  /\ LET c == requests[1][1]
         name == requests[1][2]
     IN  /\ tasks' = [tasks EXCEPT ![c] = ReplacePrevious(c, name)]
         /\ events' = Append(events, <<"Resolving", c>>)
  /\ requests' = Tail(requests)
  /\ UNCHANGED <<hostname, dns_ips>>

(* resolve_hostname returns: an answer, or an error and so no addresses. *)
Lookup(c) ==
  /\ Len(events) < MaxPending
  /\ \E name \in tasks[c], ok \in BOOLEAN :
       /\ events' = Append(events, <<"Resolved", c, IF ok THEN {name} ELSE {}>>)
       /\ tasks' = [tasks EXCEPT ![c] = @ \ {name}]
  /\ UNCHANGED <<hostname, dns_ips, requests>>

(* handle_resolver_event: the answer is applied to whatever client now has *)
(* the handle, without a look at the name it was for.                      *)
handle_resolver_event ==
  /\ events # <<>>
  /\ dns_ips' = IF events[1][1] = "Resolved"
                THEN [dns_ips EXCEPT ![events[1][2]] = events[1][3]]
                ELSE dns_ips
  /\ events' = Tail(events)
  /\ UNCHANGED <<hostname, requests, tasks>>

DnsNext ==
  \/ \E c \in Client : UpdateHostname(c) \/ ResolveDns(c) \/ Lookup(c)
  \/ do_dns \/ handle_resolver_event

DnsSettled(c) ==
  /\ tasks[c] = {}
  /\ \A i \in DOMAIN requests : requests[i][1] # c
  /\ \A i \in DOMAIN events : events[i][2] # c

(* However renames, repeated lookups and answers interleave, once nothing  *)
(* is under way for a client with a host name, its addresses are those of  *)
(* the name it has now, or none if the lookup failed.  (A name cleared     *)
(* while its lookup runs keeps the late answer.)                           *)
ResolvedIsCurrent ==
  \A c \in Client :
    DnsSettled(c) /\ hostname[c] # <<>> => dns_ips[c] \subseteq ToSet(hostname[c])

-----------------------------------------------------------------------------
(* The certificate and the private key, written one after the other.  A    *)
(* file is "none", "empty" (created, not flushed) or "whole".              *)
CONSTANT MaxStarts
VARIABLES cert_pem, key_pem, daemon, starts

idVars == <<cert_pem, key_pem, daemon, starts>>

IdInit ==
  /\ cert_pem = "none"
  /\ key_pem = "none"
  /\ daemon = "down"
  /\ starts = 0

(* Both files have to be there to be loaded. *)
BothExist == cert_pem # "none" /\ key_pem # "none"

(* load_or_generate_key_and_cert_der: load both, or start generating. *)
StartDaemon ==
  /\ daemon = "down"
  /\ starts < MaxStarts
  /\ starts' = starts + 1
  /\ IF BothExist
     THEN /\ daemon' = IF cert_pem = "whole" /\ key_pem = "whole"
                       THEN "up" ELSE "failed"
          /\ UNCHANGED cert_pem
     ELSE /\ cert_pem' = "empty"
          /\ daemon' = "cert"
  /\ UNCHANGED key_pem

(* generate_self_signed, file by file: create, then write. *)
WriteCert ==
  /\ daemon = "cert" /\ cert_pem = "empty"
  /\ cert_pem' = "whole"
  /\ UNCHANGED <<key_pem, daemon, starts>>

CreateKey ==
  /\ daemon = "cert" /\ cert_pem = "whole"
  /\ key_pem' = "empty"
  /\ daemon' = "key"
  /\ UNCHANGED <<cert_pem, starts>>

WriteKey ==
  /\ daemon = "key"
  /\ key_pem' = "whole"
  /\ daemon' = "up"
  /\ UNCHANGED <<cert_pem, starts>>

(* The process ends, by a crash or by its user; a failed start has ended. *)
StopDaemon ==
  /\ daemon # "down"
  /\ daemon' = "down"
  /\ UNCHANGED <<cert_pem, key_pem, starts>>

IdNext == StartDaemon \/ WriteCert \/ CreateKey \/ WriteKey \/ StopDaemon

(* A crash while the identity is generated keeps the next start from       *)
(* coming up only if it hit the short window in which the key file exists  *)
(* and is still empty; after every other crash a new pair is generated.    *)
StartsAfterCrash == daemon = "failed" => key_pem = "empty"

-----------------------------------------------------------------------------
(* The power observer: a thread with a run loop, and its owner. *)
CONSTANT MaxWakes
VARIABLES owner, run_loop, thread, ctx, wakes

powVars == <<owner, run_loop, thread, ctx, wakes>>

PowInit ==
  /\ owner = "spawning"
  /\ run_loop = "unset"
  /\ thread = "register"
  /\ ctx = "no_port"
  /\ wakes = 0

(* IORegisterForSystemPower, and the run loop source it needs. *)
Register ==
  /\ thread = "register"
  /\ \/ thread' = "add_source" /\ ctx' = "live"
     \/ thread' = "exited" /\ ctx' = "freed"
  /\ UNCHANGED <<owner, run_loop, wakes>>

AddSource ==
  /\ thread = "add_source"
  /\ run_loop' = "sent"
  /\ thread' = "announced"
  /\ UNCHANGED <<owner, ctx, wakes>>

CFRunLoopRun ==
  /\ thread = "announced"
  /\ thread' = "running"
  /\ UNCHANGED <<owner, run_loop, ctx, wakes>>

(* PowerObserver::spawn returns with the run loop, or 0 if the thread ended. *)
Spawned ==
  /\ owner = "spawning"
  /\ run_loop = "sent" \/ thread = "exited"
  /\ owner' = "up"
  /\ UNCHANGED <<run_loop, thread, ctx, wakes>>

(* drop: CFRunLoopStop ends a loop that runs, and is lost on one that does *)
(* not run yet; then the thread is joined.                                 *)
DropObserver ==
  /\ owner = "up"
  /\ owner' = "joining"
  /\ thread' = IF run_loop = "sent" /\ thread = "running" THEN "stopped" ELSE thread
  /\ UNCHANGED <<run_loop, ctx, wakes>>

Joined ==
  /\ owner = "joining" /\ thread = "exited"
  /\ owner' = "dropped"
  /\ UNCHANGED <<run_loop, thread, ctx, wakes>>

(* The run loop has returned: the registration goes, then the context. *)
CleanUp ==
  /\ thread = "stopped"
  /\ ctx' = "freed" /\ thread' = "exited"

ThreadEnds == CleanUp /\ UNCHANGED <<owner, run_loop, wakes>>

(* power_callback: the system woke, and the listener is told to close its  *)
(* connections.  The callback runs on the thread of the run loop.          *)
power_callback ==
  /\ thread = "running"
  /\ wakes < MaxWakes
  /\ wakes' = wakes + 1
  /\ UNCHANGED <<owner, run_loop, thread, ctx>>

PowNext ==
  \/ Register \/ AddSource \/ CFRunLoopRun \/ Spawned
  \/ DropObserver \/ Joined \/ ThreadEnds \/ power_callback

(* The callback dereferences a raw pointer to its context: whenever the    *)
(* system can call it, the context is allocated and carries the port.      *)
CallbackContextIsLive == thread = "running" => ctx = "live"
=============================================================================
