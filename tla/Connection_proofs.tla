-------------------------- MODULE Connection_proofs --------------------------
(***************************************************************************)
(* Proofs about Connection, for any number of clients, addresses and tasks *)
(* and every kind of edit that a theorem does not exclude.                 *)
(***************************************************************************)
EXTENDS Connection, TLAPS

(* clients do not share addresses *)
DisjointHosts == \A c, d \in Client : c # d => HostIps[c] \cap HostIps[d] = {}

-----------------------------------------------------------------------------
(* Types.                                                                     *)

LEMMA FreeTypes == Free \in TaskState
  BY DEF Free, TaskIn, TaskState

LEMMA SpawnedTypes == \A c \in Client : Spawned(c) \in TaskState
  BY DEF Spawned, TaskIn, TaskState

LEMMA SetAddrTypes ==
    ASSUME TypeOK, NEW c \in Client, NEW a \in Addr \cup {None}, set_active_addr(c, a)
    PROVE  active_addr' \in [Client -> Addr \cup {None}]
  BY DEF TypeOK, set_active_addr

(* what a task that is not free is about *)
LEMMA PhaseTypes ==
    ASSUME NEW x \in TaskState
    PROVE  /\ x.phase \in {"free", "spawned", "dial", "up", "closed"}
           /\ x.phase = "free" <=> x = Free
           /\ x.phase # "free" => x.client \in Client
           /\ x.addrs \subseteq Addr
           /\ x.phase \in {"up", "closed"} => \E a \in Addr : x.addrs = {a}
           /\ x.phase # "closed" => x.reason = None
  BY DEF TaskState, Free, TaskIn

LEMMA SpawnTypes ==
    ASSUME TypeOK, NEW c \in Client, DialUnlessWaiting(c)
    PROVE  connecting' \subseteq Client /\ task' \in [Task -> TaskState]
  BY SpawnedTypes DEF TypeOK, DialUnlessWaiting

LEMMA CaptureTypes == TypeOK /\ Capture => TypeOK'
<1>. SUFFICES ASSUME TypeOK, Capture PROVE TypeOK'
  OBVIOUS
<1>. USE DEF TypeOK, clientVars
<1>1. ASSUME NEW c \in Client, dial(c) PROVE TypeOK'
  BY <1>1, SpawnTypes DEF dial
<1>2. ASSUME NEW c \in Client, SendStarts(c) PROVE TypeOK'
  BY <1>2 DEF SendStarts, HasPeer, Sends
<1>3. ASSUME NEW c \in Client, SendDials(c) PROVE TypeOK'
  BY <1>3, SpawnTypes DEF SendDials
<1>4. CASE SendSucceeds
  BY <1>4 DEF SendSucceeds
<1>5. CASE SendFails
  <2>1. sending.client \in Client /\ sending.addr \in Addr
    BY <1>5 DEF SendFails, Sends
  <2>. QED
    BY <1>5, <2>1, SetAddrTypes DEF SendFails
<1>. QED
  BY <1>1, <1>2, <1>3, <1>4, <1>5 DEF Capture

LEMMA TaskTypes == TypeOK /\ Tasks => TypeOK'
<1>. SUFFICES ASSUME TypeOK, NEW t \in Task,
                     \/ ConnectStarts(t) \/ DialFails(t) \/ ConnectionCloses(t)
                     \/ PongTimeout(t) \/ SupervisorEnds(t)
                     \/ \E a \in Addr : DialSucceeds(t, a)
              PROVE  TypeOK'
  BY DEF Tasks
<1>. USE DEF TypeOK, clientVars
<1>0. /\ task[t] \in TaskState
      /\ task[t].phase # "free" => task[t].client \in Client
  BY PhaseTypes
<1>1. CASE ConnectStarts(t)
  <2>1. task' \in [Task -> TaskState]
    <3>1. task[t].client \in Client
      BY <1>0, <1>1 DEF ConnectStarts
    <3>2. TaskIn("dial", task[t].client, ips[task[t].client] \X {port[task[t].client]}, None) \in TaskState
      BY <3>1 DEF TaskIn, TaskState, Addr
    <3>. QED
      BY <1>1, <3>2, FreeTypes DEF ConnectStarts
  <2>. QED
    BY <1>1, <2>1 DEF ConnectStarts
<1>2. CASE DialFails(t)
  BY <1>0, <1>2, FreeTypes DEF DialFails, record_retry_failure
<1>3. ASSUME NEW a \in Addr, DialSucceeds(t, a) PROVE TypeOK'
  <2>1. task[t].client \in Client
    BY <1>0, <1>3 DEF DialSucceeds
  <2>2. TaskIn("up", task[t].client, {a}, None) \in TaskState
    BY <2>1 DEF TaskIn, TaskState
  <2>3. task' \in [Task -> TaskState]
    BY <1>3, <2>2 DEF DialSucceeds
  <2>. QED
    BY <1>3, <2>1, <2>3, SetAddrTypes DEF DialSucceeds
<1>4. ASSUME NEW reason \in Reason, Closes(t, reason) PROVE TypeOK'
  <2>1. task[t].client \in Client /\ task[t].addrs \in {{a} : a \in Addr}
    BY <1>0, <1>4, PhaseTypes DEF Closes
  <2>2. TaskIn("closed", task[t].client, task[t].addrs, reason) \in TaskState
    BY <2>1 DEF TaskIn, TaskState
  <2>3. task' \in [Task -> TaskState]
    BY <1>4, <2>2 DEF Closes
  <2>. QED
    BY <1>4, <2>3 DEF Closes
<1>5. CASE SupervisorEnds(t)
  <2>1. task[t].client \in Client
    BY <1>0, <1>5 DEF SupervisorEnds
  <2>2. task' \in [Task -> TaskState] /\ backing_off' \subseteq Client
    BY <1>5, <2>1, FreeTypes, SpawnedTypes DEF SupervisorEnds, RedialOrEnd, record_retry_failure
  <2>3. sending' \in Sends \cup {None}
    BY <1>5 DEF SupervisorEnds, DropSession, Sends
  <2>4. active_addr' \in [Client -> Addr \cup {None}]
    BY <1>5, <2>1, SetAddrTypes DEF SupervisorEnds
  <2>5. peers' \in [Addr -> Task \cup {None}]
    BY <1>5 DEF SupervisorEnds
  <2>. QED
    BY <1>5, <2>2, <2>3, <2>4, <2>5 DEF SupervisorEnds
<1>. QED
  BY <1>1, <1>2, <1>3, <1>4, <1>5 DEF ConnectionCloses, PongTimeout, Reason

LEMMA EditTypes == TypeOK /\ Edit => TypeOK'
<1>. SUFFICES ASSUME TypeOK, NEW c \in Client,
                     SetHostname(c) \/ SetIps(c) \/ SetPort(c) \/ RemoveClient(c) \/ AddClient(c)
              PROVE  TypeOK'
  BY DEF Edit
<1>. USE ConnectionAssumption DEF TypeOK, ConfigVars
<1>1. CASE SetHostname(c)
  BY <1>1 DEF SetHostname
<1>2. CASE SetIps(c)
  BY <1>2 DEF SetIps
<1>3. CASE SetPort(c)
  <2>1. PICK p \in Port : /\ port' = [port EXCEPT ![c] = p]
                          /\ active_addr' = [active_addr EXCEPT ![c] =
                                IF active_addr[c] = None THEN None ELSE <<active_addr[c][1], p>>]
    BY <1>3 DEF SetPort
  <2>2. (IF active_addr[c] = None THEN None ELSE <<active_addr[c][1], p>>) \in Addr \cup {None}
    BY DEF Addr
  <2>3. active_addr' \in [Client -> Addr \cup {None}]
    BY <2>1, <2>2
  <2>. QED
    BY <1>3, <2>1, <2>3 DEF SetPort
<1>4. CASE RemoveClient(c)
  BY <1>4 DEF RemoveClient
<1>5. CASE AddClient(c)
  BY <1>5 DEF AddClient
<1>. QED
  BY <1>1, <1>2, <1>3, <1>4, <1>5

LEMMA NextTypes == TypeOK /\ [Next]_vars => TypeOK'
<1>. SUFFICES ASSUME TypeOK, [Next]_vars PROVE TypeOK'
  OBVIOUS
<1>1. ASSUME NEW c \in Client, BackoffExpires(c) PROVE TypeOK'
  BY <1>1 DEF BackoffExpires, TypeOK, clientVars
<1>2. CASE UNCHANGED vars
  BY <1>2 DEF vars, clientVars, TypeOK
<1>. QED
  BY <1>1, <1>2, CaptureTypes, TaskTypes, EditTypes DEF Next

(* The tables of clients, peers and dials and the tasks of connect.rs keep    *)
(* their types; in particular an active address and a session in the peers    *)
(* table are always an address and a task.                                    *)
THEOREM TypeCorrect == Spec => []TypeOK
<1>1. Init => TypeOK
  BY ConnectionAssumption, FreeTypes DEF Init, TypeOK, Addr
<1>. QED
  BY <1>1, NextTypes, PTL DEF Spec

-----------------------------------------------------------------------------
(* The connecting set and the peers table.                                    *)

(* a task is spawned in a free place, and no other task is touched *)
LEMMA SpawnStep ==
    ASSUME TypeOK, NEW c \in Client, DialUnlessWaiting(c)
    PROVE  \E t \in Task : /\ task[t].phase = "free"
                           /\ task' = [task EXCEPT ![t] = Spawned(c)]
                           /\ connecting' = connecting \cup {c}
<1>1. Free.phase = "free"
  BY DEF Free, TaskIn
<1>. QED
  BY <1>1 DEF DialUnlessWaiting

Dialling(t) == task[t].phase \in {"spawned", "dial"}

LEMMA ConnectingStep == TypeOK /\ ConnectingHasDial /\ [Next]_vars => ConnectingHasDial'
<1>. SUFFICES ASSUME TypeOK, ConnectingHasDial, [Next]_vars,
                     NEW c \in connecting'
              PROVE  \E t \in Task : task'[t].client = c /\ Dialling(t)'
  BY DEF ConnectingHasDial, Dialling
<1>. USE DEF TypeOK
<1>1. c \in connecting => \E t \in Task : task[t].client = c /\ Dialling(t)
  BY DEF ConnectingHasDial, Dialling
<1>2. ASSUME UNCHANGED <<task, connecting>> PROVE \E t \in Task : task'[t].client = c /\ Dialling(t)'
  BY <1>1, <1>2 DEF Dialling
<1>3. ASSUME NEW d \in Client, DialUnlessWaiting(d)
      PROVE  \E t \in Task : task'[t].client = c /\ Dialling(t)'
  <2>1. PICK t \in Task : /\ task[t].phase = "free"
                          /\ task' = [task EXCEPT ![t] = Spawned(d)]
                          /\ connecting' = connecting \cup {d}
    BY <1>3, SpawnStep
  <2>. QED
    BY <1>1, <2>1 DEF Spawned, TaskIn, Dialling
<1>4. CASE Capture
  BY <1>2, <1>3, <1>4 DEF Capture, dial, SendStarts, SendSucceeds, SendFails, SendDials
<1>5. ASSUME NEW t \in Task, ConnectStarts(t)
      PROVE  \E u \in Task : task'[u].client = c /\ Dialling(u)'
  BY <1>1, <1>5 DEF ConnectStarts, TaskIn, Dialling
<1>6. ASSUME NEW t \in Task, DialFails(t) \/ \E a \in Addr : DialSucceeds(t, a)
      PROVE  \E u \in Task : task'[u].client = c /\ Dialling(u)'
  BY <1>1, <1>6 DEF DialFails, DialSucceeds, Dialling
<1>7. ASSUME NEW t \in Task, NEW r, Closes(t, r)
      PROVE  \E u \in Task : task'[u].client = c /\ Dialling(u)'
  BY <1>1, <1>7 DEF Closes, Dialling
<1>8. ASSUME NEW t \in Task, SupervisorEnds(t)
      PROVE  \E u \in Task : task'[u].client = c /\ Dialling(u)'
  BY <1>1, <1>8 DEF SupervisorEnds, RedialOrEnd, Dialling
<1>9. CASE Tasks
  BY <1>5, <1>6, <1>7, <1>8, <1>9 DEF Tasks, ConnectionCloses, PongTimeout
<1>10. CASE Edit
  BY <1>2, <1>10 DEF Edit, SetHostname, SetIps, SetPort, RemoveClient, AddClient, ConfigVars
<1>11. CASE UNCHANGED vars \/ \E d \in Client : BackoffExpires(d)
  BY <1>2, <1>11 DEF BackoffExpires, vars
<1>. QED
  BY <1>4, <1>9, <1>10, <1>11 DEF Next

(* No client is blocked for good by the connecting set, however dials, sends, *)
(* redials and edits of the client interleave.                                *)
THEOREM NoBlockedClient == Spec => []ConnectingHasDial
<1>1. Init => ConnectingHasDial
  BY DEF Init, ConnectingHasDial
<1>. QED
  BY <1>1, ConnectingStep, TypeCorrect, PTL DEF Spec

LEMMA SupervisedStep == TypeOK /\ PeersAreSupervised /\ [Next]_vars => PeersAreSupervised'
<1>. SUFFICES ASSUME TypeOK, PeersAreSupervised, [Next]_vars, NEW a \in Addr, peers'[a] # None
              PROVE  task'[peers'[a]].phase \in {"up", "closed"} /\ task'[peers'[a]].addrs = {a}
  BY DEF PeersAreSupervised
<1>. USE DEF TypeOK
<1>. DEFINE Goal == task'[peers'[a]].phase \in {"up", "closed"} /\ task'[peers'[a]].addrs = {a}
<1>1. peers[a] # None => /\ peers[a] \in Task
                         /\ task[peers[a]].phase \in {"up", "closed"}
                         /\ task[peers[a]].addrs = {a}
  BY DEF PeersAreSupervised
<1>2. ASSUME UNCHANGED task, peers'[a] \in {peers[a], None} PROVE Goal
  BY <1>1, <1>2
<1>3. ASSUME NEW d \in Client, DialUnlessWaiting(d), UNCHANGED peers PROVE Goal
  BY <1>1, <1>3, SpawnStep
<1>4. CASE Capture
  <2>1. CASE SendFails
    BY <1>2, <2>1 DEF SendFails
  <2>. QED
    BY <1>2, <1>3, <1>4, <2>1 DEF Capture, dial, SendStarts, SendSucceeds, SendDials
<1>5. ASSUME NEW t \in Task, ConnectStarts(t) \/ DialFails(t) PROVE Goal
  BY <1>1, <1>5 DEF ConnectStarts, DialFails
<1>6. ASSUME NEW t \in Task, NEW b \in Addr, DialSucceeds(t, b) PROVE Goal
  BY <1>1, <1>6 DEF DialSucceeds, TaskIn
<1>7. ASSUME NEW t \in Task, NEW r, Closes(t, r) PROVE Goal
  BY <1>1, <1>7 DEF Closes, TaskIn
<1>8. ASSUME NEW t \in Task, SupervisorEnds(t) PROVE Goal
  <2>1. a \notin task[t].addrs /\ peers'[a] = peers[a]
    BY <1>8 DEF SupervisorEnds
  <2>2. peers[a] # t
    BY <1>1, <2>1
  <2>. QED
    BY <1>1, <1>8, <2>1, <2>2 DEF SupervisorEnds, RedialOrEnd
<1>9. CASE Tasks
  BY <1>5, <1>6, <1>7, <1>8, <1>9 DEF Tasks, ConnectionCloses, PongTimeout
<1>10. CASE Edit
  BY <1>2, <1>10 DEF Edit, SetHostname, SetIps, SetPort, RemoveClient, AddClient, ConfigVars
<1>11. CASE UNCHANGED vars \/ \E d \in Client : BackoffExpires(d)
  BY <1>2, <1>11 DEF BackoffExpires, vars
<1>. QED
  BY <1>4, <1>9, <1>10, <1>11 DEF Next

(* A session in the peers table has a supervisor that will notice its end,    *)
(* although supervisors of older sessions remove the entries of newer ones.   *)
THEOREM SessionsSupervised == Spec => []PeersAreSupervised
<1>1. Init => PeersAreSupervised
  BY DEF Init, PeersAreSupervised
<1>. QED
  BY <1>1, SupervisedStep, TypeCorrect, PTL DEF Spec

-----------------------------------------------------------------------------
(* Whose addresses: every address that is kept for a client is an address of  *)
(* its host.                                                                  *)

TaskOwned == \A t \in Task : \A a \in task[t].addrs : a[1] \in HostIps[task[t].client]

ClientOwned == \A c \in Client :
    /\ ips[c] \subseteq HostIps[c]
    /\ active_addr[c] # None => active_addr[c][1] \in HostIps[c]
    /\ c \notin registered => active_addr[c] = None

SendOwned == sending # None => sending.addr[1] \in HostIps[sending.client]

Owned == TaskOwned /\ ClientOwned /\ SendOwned

LEMMA OwnedStep == TypeOK /\ Owned /\ [Next]_vars => Owned'
<1>. SUFFICES ASSUME TypeOK, Owned, [Next]_vars PROVE Owned'
  OBVIOUS
<1>. USE ConnectionAssumption DEF TypeOK, Owned
<1>1. ASSUME UNCHANGED task PROVE TaskOwned'
  BY <1>1 DEF TaskOwned
<1>2. ASSUME UNCHANGED <<registered, ips, active_addr>> PROVE ClientOwned'
  BY <1>2 DEF ClientOwned
<1>3. ASSUME UNCHANGED sending PROVE SendOwned'
  BY <1>3 DEF SendOwned
<1>4. ASSUME NEW c \in Client, set_active_addr(c, None), UNCHANGED <<registered, ips>> PROVE ClientOwned'
  BY <1>4 DEF ClientOwned, set_active_addr
<1>5. ASSUME NEW d \in Client, DialUnlessWaiting(d) PROVE TaskOwned'
  BY <1>5 DEF DialUnlessWaiting, Spawned, TaskIn, TaskOwned
<1>6. CASE Capture
  <2>1. ASSUME NEW c \in Client, SendStarts(c) PROVE SendOwned'
    BY <2>1 DEF SendStarts, HasPeer, SendOwned, ClientOwned
  <2>2. CASE SendFails
    <3>1. sending.client \in Client
      BY <2>2 DEF SendFails, Sends
    <3>. QED
      BY <1>1, <1>4, <2>2, <3>1 DEF SendFails, SendOwned, clientVars
  <2>3. CASE SendSucceeds
    BY <1>1, <1>2, <2>3 DEF SendSucceeds, SendOwned, clientVars
  <2>. QED
    BY <1>1, <1>2, <1>3, <1>5, <1>6, <2>1, <2>2, <2>3 DEF Capture, dial, SendStarts, SendDials, clientVars
<1>7. ASSUME NEW t \in Task, ConnectStarts(t) PROVE Owned'
  <2>1. TaskOwned'
    <3>1. task[t].client \in Client
      BY <1>7, PhaseTypes DEF ConnectStarts
    <3>. QED
      BY <1>7, <3>1 DEF ConnectStarts, TaskIn, Free, TaskOwned, ClientOwned
  <2>. QED
    BY <1>2, <1>3, <1>7, <2>1 DEF ConnectStarts, clientVars
<1>8. ASSUME NEW t \in Task, DialFails(t) PROVE Owned'
  <2>1. TaskOwned'
    BY <1>8 DEF DialFails, TaskIn, Free, TaskOwned
  <2>. QED
    BY <1>2, <1>3, <1>8, <2>1 DEF DialFails, clientVars
<1>9. ASSUME NEW t \in Task, NEW a \in Addr, DialSucceeds(t, a) PROVE Owned'
  <2>1. TaskOwned'
    BY <1>9 DEF DialSucceeds, TaskIn, TaskOwned
  <2>2. task[t].client \in Client /\ a[1] \in HostIps[task[t].client]
    BY <1>9, PhaseTypes DEF DialSucceeds, TaskOwned
  <2>3. ClientOwned'
    BY <1>9, <2>2 DEF DialSucceeds, set_active_addr, ClientOwned, clientVars
  <2>. QED
    BY <1>3, <1>9, <2>1, <2>3 DEF DialSucceeds
<1>10. ASSUME NEW t \in Task, NEW r, Closes(t, r) PROVE Owned'
  <2>1. TaskOwned'
    BY <1>10 DEF Closes, TaskIn, TaskOwned
  <2>. QED
    BY <1>2, <1>3, <1>10, <2>1 DEF Closes, clientVars
<1>11. ASSUME NEW t \in Task, SupervisorEnds(t) PROVE Owned'
  <2>1. TaskOwned'
    BY <1>11 DEF SupervisorEnds, RedialOrEnd, Spawned, Free, TaskIn, TaskOwned
  <2>2. task[t].client \in Client
    BY <1>11, PhaseTypes DEF SupervisorEnds
  <2>3. SendOwned'
    BY <1>11 DEF SupervisorEnds, DropSession, Sends, SendOwned
  <2>. QED
    BY <1>4, <1>11, <2>1, <2>2, <2>3 DEF SupervisorEnds, clientVars
<1>12. CASE Tasks
  BY <1>7, <1>8, <1>9, <1>10, <1>11, <1>12 DEF Tasks, ConnectionCloses, PongTimeout
<1>13. ASSUME NEW c \in Client,
              SetHostname(c) \/ SetIps(c) \/ SetPort(c) \/ RemoveClient(c) \/ AddClient(c)
       PROVE  ClientOwned'
  <2>1. CASE SetHostname(c)
    BY <2>1 DEF SetHostname, ClientOwned
  <2>2. CASE SetIps(c)
    BY <2>2 DEF SetIps, ClientOwned
  <2>3. CASE SetPort(c)
    BY <2>3 DEF SetPort, ClientOwned
  <2>4. CASE RemoveClient(c)
    BY <2>4 DEF RemoveClient, ClientOwned
  <2>5. CASE AddClient(c)
    BY <2>5 DEF AddClient, ClientOwned
  <2>. QED
    BY <1>13, <2>1, <2>2, <2>3, <2>4, <2>5
<1>14. CASE Edit
  BY <1>1, <1>3, <1>13, <1>14 DEF Edit, SetHostname, SetIps, SetPort, RemoveClient, AddClient, ConfigVars
<1>15. CASE UNCHANGED vars \/ \E d \in Client : BackoffExpires(d)
  BY <1>1, <1>2, <1>3, <1>15 DEF BackoffExpires, vars, clientVars
<1>. QED
  BY <1>6, <1>12, <1>14, <1>15 DEF Next

LEMMA OwnedInv == Spec => []Owned
<1>1. Init => Owned
  BY ConnectionAssumption DEF Init, Owned, TaskOwned, ClientOwned, SendOwned, Free, TaskIn
<1>. QED
  BY <1>1, OwnedStep, TypeCorrect, PTL DEF Spec

-----------------------------------------------------------------------------
(* Clients with addresses of their own.                                       *)

(* a session that send() holds is up, or closed with its supervisor still to  *)
(* run, and was dialled for the client of the send                            *)
HeldSession == sending # None /\ sending.task # None =>
    /\ task[sending.task].phase \in {"up", "closed"}
    /\ task[sending.task].client = sending.client

LEMMA HeldStep ==
    DisjointHosts /\ TypeOK /\ PeersAreSupervised /\ Owned /\ HeldSession /\ [Next]_vars => HeldSession'
<1>. SUFFICES ASSUME DisjointHosts, TypeOK, PeersAreSupervised, Owned, HeldSession, [Next]_vars
              PROVE  HeldSession'
  OBVIOUS
<1>. USE DEF TypeOK, HeldSession
<1>0. sending # None => sending.task \in Task \cup {None}
  BY DEF Sends
<1>1. ASSUME UNCHANGED <<task, sending>> PROVE HeldSession'
  BY <1>1
<1>2. ASSUME NEW d \in Client, DialUnlessWaiting(d), UNCHANGED sending PROVE HeldSession'
  BY <1>0, <1>2, SpawnStep
<1>3. ASSUME NEW c \in Client, SendStarts(c) PROVE HeldSession'
  <2>. DEFINE a == active_addr[c]
              t == peers[a]
  <2>1. a \in Addr /\ t \in Task /\ t # None /\ a[1] \in HostIps[c]
    BY <1>3 DEF SendStarts, HasPeer, Owned, ClientOwned
  <2>2. task[t].phase \in {"up", "closed"} /\ a[1] \in HostIps[task[t].client]
    BY <2>1 DEF PeersAreSupervised, Owned, TaskOwned
  <2>3. task[t].client = c
    BY <2>1, <2>2, PhaseTypes DEF DisjointHosts
  <2>. QED
    BY <1>3, <2>1, <2>2, <2>3 DEF SendStarts
<1>4. CASE SendSucceeds \/ SendFails
  BY <1>4 DEF SendSucceeds, SendFails
<1>5. CASE Capture
  BY <1>2, <1>3, <1>4, <1>5 DEF Capture, dial, SendDials
<1>6. ASSUME NEW t \in Task,
             ConnectStarts(t) \/ DialFails(t) \/ \E a \in Addr : DialSucceeds(t, a)
      PROVE  HeldSession'
  <2>1. UNCHANGED sending /\ task[t].phase \in {"spawned", "dial"}
    BY <1>6 DEF ConnectStarts, DialFails, DialSucceeds
  <2>2. \A u \in Task : u # t => task'[u] = task[u]
    BY <1>6 DEF ConnectStarts, DialFails, DialSucceeds
  <2>. QED
    BY <1>0, <2>1, <2>2
<1>7. ASSUME NEW t \in Task, NEW r, Closes(t, r) PROVE HeldSession'
  BY <1>0, <1>7 DEF Closes, TaskIn
<1>8. ASSUME NEW t \in Task, SupervisorEnds(t) PROVE HeldSession'
  BY <1>0, <1>8 DEF SupervisorEnds, RedialOrEnd, DropSession, Sends
<1>9. CASE Tasks
  BY <1>6, <1>7, <1>8, <1>9 DEF Tasks, ConnectionCloses, PongTimeout
<1>10. CASE Edit
  BY <1>1, <1>10 DEF Edit, SetHostname, SetIps, SetPort, RemoveClient, AddClient, ConfigVars
<1>11. CASE UNCHANGED vars \/ \E d \in Client : BackoffExpires(d)
  BY <1>1, <1>11 DEF BackoffExpires, vars
<1>. QED
  BY <1>5, <1>9, <1>10, <1>11 DEF Next

(* If no two clients share an address, send() never writes a client's input   *)
(* to a session of another client, whatever edits, port changes and reused    *)
(* handles come between the lookup of the session and the write.              *)
THEOREM InputStaysHome ==
    ASSUME DisjointHosts
    PROVE  Spec => []SendsToOwnSession
<1>1. Init => HeldSession
  BY DEF Init, HeldSession
<1>2. HeldSession => SendsToOwnSession
  BY DEF HeldSession, SendsToOwnSession
<1>3. TypeOK /\ PeersAreSupervised /\ Owned /\ HeldSession /\ [Next]_vars => HeldSession'
  BY HeldStep
<1>. QED
  BY <1>1, <1>2, <1>3, TypeCorrect, SessionsSupervised, OwnedInv, PTL DEF Spec

LEMMA ActiveStep ==
    (/\ DisjointHosts /\ "port" \notin Edits
     /\ TypeOK /\ PeersAreSupervised /\ Owned /\ ActiveHasSession /\ [Next]_vars) => ActiveHasSession'
<1>. SUFFICES ASSUME DisjointHosts, "port" \notin Edits, TypeOK, PeersAreSupervised, Owned,
                     ActiveHasSession, [Next]_vars,
                     NEW c \in Client, active_addr'[c] # None
              PROVE  peers'[active_addr'[c]] # None /\ task'[peers'[active_addr'[c]]].client = c
  BY DEF ActiveHasSession, HasPeer
<1>. USE DEF TypeOK
<1>. DEFINE Goal == peers'[active_addr'[c]] # None /\ task'[peers'[active_addr'[c]]].client = c
            a == active_addr[c]
            s == peers[a]
<1>1. a # None => /\ a \in Addr /\ s \in Task /\ s # None
                  /\ task[s].client = c /\ task[s].phase \in {"up", "closed"} /\ task[s].addrs = {a}
                  /\ a[1] \in HostIps[c] /\ c \in registered
  BY DEF ActiveHasSession, HasPeer, PeersAreSupervised, Owned, ClientOwned
<1>2. ASSUME active_addr'[c] = a, UNCHANGED <<task, peers>> PROVE Goal
  BY <1>1, <1>2
<1>3. ASSUME NEW d \in Client, DialUnlessWaiting(d), UNCHANGED <<active_addr, peers>> PROVE Goal
  BY <1>1, <1>3, SpawnStep
<1>4. CASE SendFails
  <2>1. sending.client \in Client /\ sending.addr \in Addr /\ sending.addr[1] \in HostIps[sending.client]
    BY <1>4 DEF SendFails, Sends, Owned, SendOwned
  <2>2. active_addr'[c] = a
    BY <1>4 DEF SendFails, set_active_addr
  <2>3. sending.client # c
    BY <1>1, <1>4, <2>1, <2>2 DEF SendFails, set_active_addr
  <2>4. sending.addr # a
    BY <1>1, <2>1, <2>2, <2>3 DEF DisjointHosts
  <2>. QED
    BY <1>1, <1>4, <2>1, <2>2, <2>4 DEF SendFails
<1>5. CASE Capture
  BY <1>2, <1>3, <1>4, <1>5 DEF Capture, dial, SendStarts, SendSucceeds, SendDials
<1>6. ASSUME NEW t \in Task, ConnectStarts(t) \/ DialFails(t) PROVE Goal
  BY <1>1, <1>6 DEF ConnectStarts, DialFails
<1>7. ASSUME NEW t \in Task, NEW b \in Addr, DialSucceeds(t, b) PROVE Goal
  <2>. DEFINE d == task[t].client
  <2>1. d \in Client /\ b[1] \in HostIps[d] /\ task[t].phase = "dial"
    BY <1>7, PhaseTypes DEF DialSucceeds, Owned, TaskOwned
  <2>2. CASE active_addr'[c] = b /\ d = c
    BY ConnectionAssumption, <1>7, <2>2 DEF DialSucceeds, TaskIn
  <2>3. CASE active_addr'[c] = a /\ a # b
    BY <1>1, <1>7, <2>1, <2>3 DEF DialSucceeds
  <2>4. CASE active_addr'[c] = a /\ a = b
    BY ConnectionAssumption, <1>1, <1>7, <2>1, <2>4 DEF DialSucceeds, TaskIn, DisjointHosts
  <2>. QED
    BY <1>7, <2>1, <2>2, <2>3, <2>4 DEF DialSucceeds, set_active_addr
<1>8. ASSUME NEW t \in Task, NEW r, Closes(t, r) PROVE Goal
  BY <1>1, <1>8 DEF Closes, TaskIn
<1>9. ASSUME NEW t \in Task, SupervisorEnds(t) PROVE Goal
  <2>. DEFINE d == task[t].client
  <2>1. d \in Client /\ task[t].phase = "closed"
    BY <1>9, PhaseTypes DEF SupervisorEnds
  <2>2. active_addr'[c] = a /\ d # c
    BY <1>1, <1>9, <2>1 DEF SupervisorEnds, set_active_addr
  <2>3. a \notin task[t].addrs
    BY <1>1, <2>1, <2>2 DEF DisjointHosts, Owned, TaskOwned
  <2>4. s # t
    BY <1>1, <2>2
  <2>. QED
    BY <1>1, <1>9, <2>2, <2>3, <2>4 DEF SupervisorEnds, RedialOrEnd
<1>10. CASE Tasks
  BY <1>6, <1>7, <1>8, <1>9, <1>10 DEF Tasks, ConnectionCloses, PongTimeout
<1>11. CASE Edit
  BY <1>2, <1>11 DEF Edit, SetHostname, SetIps, SetPort, RemoveClient, AddClient, ConfigVars
<1>12. CASE UNCHANGED vars \/ \E d \in Client : BackoffExpires(d)
  BY <1>2, <1>12 DEF BackoffExpires, vars
<1>. QED
  BY <1>5, <1>10, <1>11, <1>12 DEF Next

(* If no two clients share an address and ports are not edited, the address   *)
(* that send() looks up always leads to a session dialled for the client,     *)
(* although sends, late supervisors and new dials overwrite the same tables.  *)
THEOREM ActiveIsConnected ==
    ASSUME DisjointHosts, "port" \notin Edits
    PROVE  Spec => []ActiveHasSession
<1>1. Init => ActiveHasSession
  BY DEF Init, ActiveHasSession
<1>2. TypeOK /\ PeersAreSupervised /\ Owned /\ ActiveHasSession /\ [Next]_vars => ActiveHasSession'
  BY ActiveStep
<1>. QED
  BY <1>1, <1>2, TypeCorrect, SessionsSupervised, OwnedInv, PTL DEF Spec
==============================================================================
