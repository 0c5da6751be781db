-------------------------------- MODULE Ipc --------------------------------
(***************************************************************************)
(* The daemon's control socket (lan-mouse-ipc): how a daemon that starts   *)
(* claims it (listen.rs), and how command-line clients use it (listen.rs,  *)
(* connect_async.rs, lan-mouse-cli/src/lib.rs).  Two machines: the first   *)
(* is the start of several daemons on a Unix system, the second the        *)
(* "add-client" command run by several processes at a time.                *)
(***************************************************************************)
EXTENDS Naturals, Sequences, FiniteSets

CONSTANTS Daemon,    \* the daemon processes
          Cli        \* the command-line processes

Nobody == "nobody"

----------------------------------------------------------------------------
(* AsyncFrontendListener::new                                              *)

VARIABLES
    path,       \* what the socket path names: "absent", "left", or a daemon
    left,       \* a socket was left behind by an earlier daemon
    step        \* where each daemon is in new, or its outcome

sockVars == <<path, left, step>>

SockInit ==
    /\ left \in BOOLEAN
    /\ path = IF left THEN <<"left">> ELSE <<"absent">>
    /\ step = [d \in Daemon |-> "start"]

Goto(d, s) == step' = [step EXCEPT ![d] = s]
Answered(p) == \E d \in Daemon : p = <<"of", d>> /\ step[d] = "running"

\* socket_path.exists() and the attempt to connect
Probe(d) ==
    /\ step[d] = "start"
    /\ Goto(d, IF path = <<"absent">> THEN "bind"
               ELSE IF Answered(path) THEN "already" ELSE "remove")
    /\ UNCHANGED <<path, left>>

RemoveFile(d) ==
    /\ step[d] = "remove"
    /\ path' = <<"absent">>
    /\ Goto(d, "bind")
    /\ UNCHANGED left

\* UnixListener::bind fails on a path that exists
BindFree == path = <<"absent">>

Bind(d) ==
    /\ step[d] = "bind"
    /\ IF BindFree THEN path' = <<"of", d>> /\ Goto(d, "running")
                   ELSE Goto(d, "already") /\ UNCHANGED path
    /\ UNCHANGED left

\* drop removes the path, whoever it names; a killed daemon leaves it behind
Stop(d) ==
    /\ step[d] = "running"
    /\ path' = <<"absent">>
    /\ Goto(d, "stopped")
    /\ UNCHANGED left

Killed(d) ==
    /\ step[d] = "running"
    /\ Goto(d, "stopped")
    /\ left' = TRUE
    /\ UNCHANGED path

SockNext == \E d \in Daemon : Probe(d) \/ RemoveFile(d) \/ Bind(d) \/ Stop(d) \/ Killed(d)

(* Two daemons never run side by side: the second one finds the first and  *)
(* gives up.  A socket left behind by a killed daemon is the exception:    *)
(* removing it and binding are two steps.                                  *)
OneService == ~left => Cardinality({d \in Daemon : step[d] = "running"}) <= 1

----------------------------------------------------------------------------
(* execute(AddClient): ask for a client, take the first one reported as    *)
(* created, and configure it                                               *)

VARIABLES
    cli,        \* "off", "backlog", "accepted", "done" for each process
    lines,      \* the requests each process has written
    inbox,      \* the events written to each process
    made,       \* for each client, in order, the process that asked for it
    named,      \* for each client, the processes that configured it
    crowded     \* processes that waited while another one's client was made

cliVars == <<cli, lines, inbox, made, named, crowded>>

CliInit ==
    /\ cli = [c \in Cli |-> "off"]
    /\ lines = [c \in Cli |-> <<>>]
    /\ inbox = [c \in Cli |-> <<>>]
    /\ made = <<>>
    /\ named = <<>>
    /\ crowded = {}

\* connect_async and the first request; the service accepts later
CliStart(c) ==
    /\ cli[c] = "off"
    /\ cli' = [cli EXCEPT ![c] = "backlog"]
    /\ lines' = [lines EXCEPT ![c] = << <<"Create">> >>]
    /\ UNCHANGED <<inbox, made, named, crowded>>

Connected == {c \in Cli : cli[c] = "accepted"}
Broadcast(e) == [c \in Cli |-> IF c \in Connected THEN Append(inbox[c], e) ELSE inbox[c]]
Readable == {c \in Cli : cli[c] # "backlog" /\ lines[c] # <<>>}

\* poll_next: a line of an accepted process comes before new connections
PollLine(c) ==
    /\ c \in Readable
    /\ lines' = [lines EXCEPT ![c] = Tail(@)]
    /\ LET r == Head(lines[c]) IN
       \/ /\ r[1] = "Create"
          /\ made' = Append(made, c)
          /\ named' = Append(named, {})
          /\ inbox' = Broadcast(<<"Created", Len(made) + 1>>)
          /\ crowded' = crowded \cup (Connected \ {c})
       \/ /\ r[1] = "Update"
          /\ named' = [named EXCEPT ![r[2]] = @ \cup {c}]
          /\ UNCHANGED <<made, inbox, crowded>>
    /\ UNCHANGED cli

\* the accepted connections are synchronised at once
PollAccept ==
    /\ Readable = {}
    /\ \E c \in Cli : cli[c] = "backlog"
    /\ cli' = [c \in Cli |-> IF cli[c] = "backlog" THEN "accepted" ELSE cli[c]]
    /\ inbox' = [c \in Cli |-> IF cli'[c] = "accepted"
                               THEN Append(inbox[c], <<"Enumerate", Len(made)>>) ELSE inbox[c]]
    /\ UNCHANGED <<lines, made, named, crowded>>

\* every event but Created is passed over
IsAnswer(e) == e[1] = "Created"

ReadEvent(c) ==
    /\ cli[c] = "accepted" /\ inbox[c] # <<>>
    /\ LET e == Head(inbox[c]) IN
       IF IsAnswer(e)
       THEN /\ lines' = [lines EXCEPT ![c] = Append(@, <<"Update", e[2]>>)]
            /\ cli' = [cli EXCEPT ![c] = "done"]
            /\ inbox' = [inbox EXCEPT ![c] = <<>>]
       ELSE /\ inbox' = [inbox EXCEPT ![c] = Tail(@)]
            /\ UNCHANGED <<lines, cli>>
    /\ UNCHANGED <<made, named, crowded>>

CliNext == PollAccept \/ \E c \in Cli : CliStart(c) \/ PollLine(c) \/ ReadEvent(c)

(* An add-client command configures the client made for it and no other.   *)
(* The exception is another frontend whose client is made while the        *)
(* command waits: Created does not say for whom a client was made.         *)
AddConfiguresItsOwn ==
    \A h \in DOMAIN named : \A c \in named[h] : c \notin crowded => made[h] = c

=============================================================================
